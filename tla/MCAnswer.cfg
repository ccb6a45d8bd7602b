SPECIFICATION Spec
CONSTANTS
    c1 = c1
    c4 = c4
    c2 = c2
    c3 = c3
    d1 = d1
    d2 = d2
    Documents = {d1, d2}
    Chunks = {c1, c2, c3, c4}
    DocOf <- MCDocOf
    TopK = 2
    K = 60
    MaxTokens = 2
INVARIANTS TypeOK CitationsFollowPrompt WholeAnswer BothBeatOne
CHECK_DEADLOCK FALSE

SPECIFICATION Spec
CONSTANTS
    Sessions = {s1}
    Chats = {c1, c2}
    Facts = {f1, f2}
    Ids = {i1, i2}
    LastN = 1
    Threshold = 4
    MaxMessages = 9
    None = None
SYMMETRY Interchangeable
INVARIANTS TypeOK NothingTwice SummaryMeetsRecent DuplicateHasCause
CHECK_DEADLOCK FALSE

SPECIFICATION FairSpec
CONSTANTS
    d1 = d1  d2 = d2  s1 = s1  s2 = s2
    Documents = {d1, d2}
    Spaces = {s1, s2}
    Questions = {q1}
    Requests = {r1, r2}
    SpaceOf <- Placement
    Scopes = {{}, {d2}}
    Doomed = {d1}
    MaxVectors = 1
INVARIANTS TypeOK OwnAnswer OnlyLateAnswersCite
PROPERTIES StaysClean GoneForGood
CHECK_DEADLOCK FALSE

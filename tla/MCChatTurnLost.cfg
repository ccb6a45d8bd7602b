SPECIFICATION FairSpec
CONSTANTS
    Turns = {t1}
    Slots = {s1}
    Docs = {d1}
    Streams = {a1}
    Requests = {r1}
    MaxAttachments = 2
    None = None
PROPERTIES ClaimsResolve
CHECK_DEADLOCK FALSE

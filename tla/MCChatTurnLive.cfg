SPECIFICATION FairSpec
CONSTANTS
    Turns = {t1}
    Slots = {s1, s2}
    Docs = {d1}
    Streams = {a1, a2}
    Requests = {r1}
    MaxAttachments = 2
    None = None
PROPERTIES ClaimsEnd  TurnsImplement
CHECK_DEADLOCK FALSE

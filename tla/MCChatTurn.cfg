SPECIFICATION Spec
CONSTANTS
    Turns = {t1}
    Slots = {s1, s2, s3}
    Docs = {d1, d2}
    Streams = {a1, a2}
    Requests = {r1, r2}
    MaxAttachments = 2
    None = None
SYMMETRY Interchangeable
INVARIANTS TypeOK SingleAnswerer OneAnswerPerTurn ScopeTrusted AttachmentLimit 
PROPERTIES LinkedForGood
CHECK_DEADLOCK FALSE

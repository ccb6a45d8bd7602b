SPECIFICATION Spec
CONSTANTS
    Runs = {r1}
    First = r1
    Retries = {}
    Deletes = {k1}
    MaxAttempts = 1
    MaxLost = 0
    MaxBusy = 1
    None = None
INVARIANTS DeletedIsGone
CHECK_DEADLOCK FALSE

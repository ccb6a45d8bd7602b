SPECIFICATION Spec
CONSTANTS
    Runs = {r1, r2}
    First = r1
    Retries = {j1}
    Deletes = {}
    MaxAttempts = 2
    MaxLost = 0
    MaxBusy = 1
    None = None
INVARIANTS RetryClearsResidue
CHECK_DEADLOCK FALSE

SPECIFICATION FairSpec
CONSTANTS
    Runs = {r1, r2}
    First = r1
    Retries = {j1, j2}
    Deletes = {k1, k2}
    MaxAttempts = 1
    MaxLost = 1
    MaxBusy = 2
    None = None
INVARIANTS TypeOK DeletedNeverCited IndexedIsSearchable OneRetryWins
PROPERTIES PendingSettles
CHECK_DEADLOCK FALSE

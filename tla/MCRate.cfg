SPECIFICATION Spec
CONSTANTS
    Requests = {r1, r2, r3, r4}
    Limit = 2
    Window = 2
    LastBucket = 2
    Never = Never
SYMMETRY Interchangeable
INVARIANTS BucketBound WindowBound
CHECK_DEADLOCK FALSE

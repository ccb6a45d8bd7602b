SPECIFICATION Spec
CONSTANTS
    Docs <- MCDocs
    ChunkSize = 3
    Overlap = 2
    EmptySize = 1
INVARIANTS TypeOK EveryLineOnce ChunkSizes SectionsHold
CHECK_DEADLOCK FALSE

SPECIFICATION Spec
CONSTANTS
    Loggers = {l1, l2}
    Closers = {c1}
    Capacity = 2
    MaxWrites = 1
    MaxSyncs = 1
INVARIANTS
    SyncCoversOwnWrites

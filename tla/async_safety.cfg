SPECIFICATION Spec
CONSTANTS
    Loggers = {l1, l2}
    Closers = {c1, c2}
    Capacity = 1
    MaxWrites = 2
    MaxSyncs = 1
SYMMETRY Symmetry
INVARIANTS
    TypeOK
    EveryWriteOnce
    InOrderWhileOpen
    CountCovers
    CloseKeepsEarlier
PROPERTIES
    SinkSpec

SPECIFICATION FairSpec
CONSTANTS
    Loggers = {l1, l2}
    Closers = {c1}
    Capacity = 1
    MaxWrites = 1
    MaxSyncs = 1
PROPERTIES
    WriteReturns
    SyncReturns
    CloseReturns
    EarlyIsWritten

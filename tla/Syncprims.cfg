SPECIFICATION FairSpec
CONSTANTS
    Threads = {t1, t2, t3}
    NULL = NULL
    MaxThrows = 1
    MaxSignals = 2
PROPERTIES ImplementsRwLock CallsReturn
CHECK_DEADLOCK FALSE

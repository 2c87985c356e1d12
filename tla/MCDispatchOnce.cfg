\* Two callers; generations enough for DONE to be stored and for a second zone.
SPECIFICATION FairSpec
CONSTANTS
    Threads = {t1, t2}
    NULL = NULL
    GenBound = 6
INVARIANTS
    TypeOK
    Initialised
    OwnerKept
    SleepersHaveAWaker
PROPERTIES
    IsOnce
    CallsReturn

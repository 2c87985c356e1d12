\* All the programs; MutexDemo3 recurses three times.
SPECIFICATION FairSpec
CONSTANTS
    t1 = t1
    t2 = t2
    t3 = t3
    t4 = t4
    Threads = {t1, t2, t3, t4}
    NULL = NULL
    Programs <- AllPrograms
    RecursionBound = 3
INVARIANTS
    TypeOK
    NoLostUpdate
    NoElementSleptOver
    RemovesTheElement
PROPERTIES
    EveryThreadEnds

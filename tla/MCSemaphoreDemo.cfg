\* The programs that guard work with a semaphore.
SPECIFICATION DemoSpec
CONSTANTS
    t1 = t1
    t2 = t2
    t3 = t3
    Threads = {t1, t2, t3}
    LONG_MAX = 3
    MACH_PORT_NULL = MACH_PORT_NULL
    MACH_PORT_DEAD = MACH_PORT_DEAD
    Programs <- Working
INVARIANTS
    PoolBound
    NoLostUpdate
    NeverCrashes
PROPERTIES
    EveryTaskRuns

\* Every interleaving of two threads, counters from -2 to 2.  Liveness: no symmetry.
SPECIFICATION FairSpec
\* An arbitrary client may leave every thread waiting.
CHECK_DEADLOCK FALSE
CONSTANTS
    Threads = {t1, t2}
    LONG_MAX = 2
    MACH_PORT_NULL = MACH_PORT_NULL
    MACH_PORT_DEAD = MACH_PORT_DEAD
INVARIANTS
    TypeOK
    WakeupBalance
    NoStaleWakeup
PROPERTIES
    IsASemaphore
    NoLostWakeup

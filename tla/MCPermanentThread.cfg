\* The view controller and one more holder; three tasks, so that one can be queued behind a stop.
SPECIFICATION FairSpec
CONSTANTS
    Callers = {main, other}
    Classes = {"CLCustomThread", "LFSPermenantThread"}
    TaskBound = 3
INVARIANTS
    TypeOK
    NotSleptOver
    NotFreedInUse
    StrandedForAReason
PROPERTIES
    TasksArePerformed
    StopReturns
    ThreadEnds
CHECK_DEADLOCK FALSE

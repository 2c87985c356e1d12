\* What the interface says of an action, handlers on a global queue.
SPECIFICATION Spec
CONSTANTS
    Timers = {s1, s2, s3}
    Actions = {a1, a2, a3}
    Caller = main
    Queues = {"global"}
    Schedules <- Bounds
    NULL = NULL
INVARIANTS
    NotLost

\* What the interface says of repeats.
SPECIFICATION Spec
CONSTANTS
    Timers = {s1, s2, s3}
    Actions = {a1, a2, a3}
    Caller = main
    Queues = {"main"}
    Schedules <- Bounds
    NULL = NULL
INVARIANTS
    RepeatsGoOn

\* Handlers on the main queue, between the calls, and on a global one, beside them.
SPECIFICATION Spec
CONSTANTS
    Timers = {s1, s2, s3}
    Actions = {a1, a2, a3}
    Caller = main
    Queues = {"main", "global"}
    Schedules <- Bounds
    NULL = NULL
INVARIANTS
    TypeOK
    NotLostInTurns
    CancelledIsGone
    RunsOnce
PROPERTIES
    CallsReturn

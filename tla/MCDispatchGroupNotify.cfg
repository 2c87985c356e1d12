\* What the documentation says of dispatch_group_notify.
SPECIFICATION Spec
\* Threads may all wait, and nothing happens to a group that is gone.
CHECK_DEADLOCK FALSE
CONSTANTS
    Threads = {t1, t2}
    Notifs = {n1, n2}
    NULL = NULL
    VALUE_MAX = 2
    GenBound = 2
SYMMETRY Symmetry
INVARIANTS
    NotifiedWhenEmpty

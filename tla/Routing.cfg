CONSTANTS
    N = 2
    Width = 3
    MaxLive = 1
    Callers = {p1, p2}
    QueueLimit = 0
SPECIFICATION Spec
\* Callers make one call each and stop() runs at most once.
CHECK_DEADLOCK FALSE
INVARIANTS
    TypeOK
    IdsDistinct
PROPERTIES
    RoutedToOwner
    SyncCallerResumed

CONSTANTS
    p1 = p1
    p2 = p2
    Producers <- MCProducers
    NTasks = 2
    Limit = 1
    PipeCap = 2
SPECIFICATION Spec
\* The system may stop: every producer has submitted all its tasks and the
\* worker waits in epoll_wait with nothing to do.
CHECK_DEADLOCK FALSE
INVARIANTS
    TypeOK
    WakeupPending
    OneWakeupByte
    TasksInOrder
    QueueOvershootBounded
PROPERTIES
    AcceptedTaskRuns

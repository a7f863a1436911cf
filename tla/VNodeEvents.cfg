SPECIFICATION Spec
CONSTANTS
    Clients = {c1, c2}
    All = All
    EVENT_QUEUE_MAX = 2
    MaxEvents = 3
    MaxWakeup = 1
SYMMETRY ClientSymmetry
INVARIANTS
    TypeOK
    QueueBounded
    NothingQueuedUnlessListening
    ReadInSendOrder
    BroadcastReachesListeners
CHECK_DEADLOCK FALSE

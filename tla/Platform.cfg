SPECIFICATION Spec
CONSTANTS
    none = none
    t1 = t1
    t2 = t2
    t3 = t3
    e1 = e1
    e2 = e2
    l1 = l1
    n1 = n1
    n2 = n2
    n3 = n3
    n4 = n4
    EventThreads <- MCThreads
    Events <- MCEvents
    Listeners <- MCListeners
    MaxCalls = 3
    Owner = t1
    DEAD = e1
    MaxAdds = 1
    MaxGets = 3
    QueueClients <- MCThreads
    MaxAdded = 5
    VibratorClients <- MCVibratorClients
    WorkPresets <- MCWorkPresets
    MaxWorkStarts = 2
    StopPresets <- MCStopPresets
    MaxStopStarts = 3
    DmaClients <- MCDmaClients
    ChannelNum = 3
    MaxTransfers = 3
    CopyPieces <- MCCopyPieces
    MaxCopies = 4
INVARIANTS
    EventsDelivered
    HandledInOrder
    ParentOn
    MotorFollows
    SuccessIsCopied
    OneDevicePerAddress
PROPERTIES
    ImplementsShared
    EndsAtLast
\* Callers need not call, and a queue is destroyed.
CHECK_DEADLOCK FALSE

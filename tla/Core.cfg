SPECIFICATION Spec
CONSTANTS
    none = none
    gone = gone
    c1 = c1
    c2 = c2
    c3 = c3
    d1 = d1
    d2 = d2
    d3 = d3
    n1 = n1
    n2 = n2
    n3 = n3
    n4 = n4
    h1 = h1
    h2 = h2
    s1 = s1
    s2 = s2
    Services <- MCServices
    HostDevices <- MCHostDevices
    Owner <- MCOwner
    Policy <- MCPolicy
    ObserverThreads <- MCObserverThreads
    MaxPublish = 2
    MaxRecords = 3
    Callers <- MCCallers
    PowerDevices <- MCPowerDevices
    MaxRequests = 3
    MixedCallers <- MCMixedCallers
    Direct <- MCDirect
    MixedDevices <- MCMixedDevices
    MaxMixed = 4
    Senders <- MCSenders
    Delays <- MCDelays
    MaxSends = 3
    MaxTime = 1
INVARIANTS
    SubscribersConnected
    ListenersServed
    HeldIsPowered
    EachToldInOrder
    LooperInOrder
    MessagesOwned
PROPERTIES
    NoWakeUpLost
\* Callers need not call, and a looper stops.
CHECK_DEADLOCK FALSE

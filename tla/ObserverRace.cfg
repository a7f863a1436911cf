SPECIFICATION Spec
CONSTANTS
    Services = {"touch"}
    Devices = {"dev1", "dev2"}
    Owner <- FriendlyOwner
    Policy <- FriendlyPolicy
    Threads = {t1, t2}
    MaxPublish = 1
    MaxRecords = 2
    None = None
INVARIANT SubscribersConnected
CHECK_DEADLOCK FALSE

SPECIFICATION Spec
CONSTANTS
    Clients = {c1, c2}
    All = All
    EVENT_QUEUE_MAX = 2
    MaxEvents = 3
    MaxWakeup = 1
PROPERTY DropsOnlyWhenFull
CHECK_DEADLOCK FALSE

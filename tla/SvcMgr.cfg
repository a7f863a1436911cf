SPECIFICATION Spec
CONSTANTS
    s1 = s1
    s2 = s2
    c1 = c1
    sensor = sensor
    camera = camera
    Services = {s1, s2}
    Classes = {sensor, camera}
    ClassOf <- MCClassOf
    Removable = {s2}
    LookedUp = {s1}
    Readers = {reader}
    Clients = {c1}
    OutOfMemory = FALSE
    MaxVersion = 3
    MaxListeners = 2
INVARIANTS
    TypeOK
    NoUseAfterFree
    LatestTold
    ToldIsFound
CHECK_DEADLOCK FALSE

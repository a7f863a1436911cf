SPECIFICATION Spec
CONSTANTS
    Infos <- QuickInfos
    HostSeq <- QuickHostSeq
    HostOf <- QuickHostOf
    DeviceOf <- QuickDeviceOf
    SvcName <- QuickSvcName
    Policy <- QuickPolicy
    Preload <- QuickPreload
    UnloadSeq <- QuickUnload
    NoBind = {}
    NoInit = {}
    QuickLoad = TRUE
    Loaders = {u1, u2}
    Users = {u1, u2}
    Boot = boot
    MaxCalls = 3
    MaxNodes = 4
    None = None
SYMMETRY UserSymmetry
INVARIANTS
    TypeOK
    ServicesOfLaunchedNodes
    ReleasedExactlyOnce
    SettledNodes
    InstalledOrLeft
    DevicesOutliveUse
    OneNodePerDevice
CHECK_DEADLOCK FALSE

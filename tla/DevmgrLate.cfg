SPECIFICATION Spec
CONSTANTS
    Infos <- LateInfos
    HostSeq <- LateHostSeq
    HostOf <- LateHostOf
    DeviceOf <- LateDeviceOf
    SvcName <- LateSvcName
    Policy <- LatePolicy
    Preload <- LatePreload
    UnloadSeq <- LateUnload
    NoBind = {}
    NoInit = {}
    QuickLoad = FALSE
    Loaders = {l1}
    Users = {}
    Boot = boot
    MaxCalls = 3
    MaxNodes = 4
    None = None
INVARIANT OneNodePerDevice
CHECK_DEADLOCK FALSE

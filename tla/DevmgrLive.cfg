SPECIFICATION Spec
CONSTANTS
    Infos <- QuickInfos
    HostSeq <- QuickHostSeq
    HostOf <- QuickHostOf
    DeviceOf <- QuickDeviceOf
    SvcName <- QuickSvcName
    Policy <- QuickPolicy
    Preload <- QuickPreload
    UnloadSeq <- QuickUnload
    NoBind = {"chip"}
    NoInit = {"radio"}
    QuickLoad = TRUE
    Loaders = {u1}
    Users = {u1}
    Boot = boot
    MaxCalls = 2
    MaxNodes = 4
    None = None
PROPERTIES
    StartFinishes
    CallsReturn
CHECK_DEADLOCK FALSE

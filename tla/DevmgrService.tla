---------------------------- MODULE DevmgrService ----------------------------
(***************************************************************************)
(* Loading and unloading of drivers: the device manager                    *)
(* (core/manager/src/devmgr_service.c, devhost_service_clnt.c), the device *)
(* hosts it drives (core/host/src/devhost_service.c, hdf_device.c,         *)
(* hdf_device_node.c, core/common/src/hdf_device_node_ext.c), and what     *)
(* they leave in the service manager's table, in the vnodes and in the     *)
(* manager's token lists.  This is the kernel build, in which starting a   *)
(* host is a call that returns when the host has installed its drivers.    *)
(*                                                                         *)
(* The boot thread starts the hosts and, with quick load, the second-step  *)
(* devices.  Other threads load and unload dynamic devices at any time:    *)
(* DeviceManagerDispatch for user processes, one at a time, and drivers    *)
(* that subscribe to a service that is not loaded (hdf_wifi_core.c does it *)
(* from a thread of its own).  None of the lists is locked; a step here is *)
(* one call, and each list operation is taken to be atomic.  Every call    *)
(* that can fail may fail.                                                 *)
(***************************************************************************)
EXTENDS Naturals, Sequences, FiniteSets

CONSTANTS
    Infos,       \* the configured device infos, one per device node
    HostSeq,     \* the hosts, in the order of their priority
    HostOf,      \* the host of an info
    DeviceOf,    \* the device (DEVICEID part) of an info
    SvcName,     \* the service name of an info
    Policy,      \* its service policy
    Preload,     \* its preload attribute
    UnloadSeq,   \* per host, the infos that are not PRELOAD_DISABLE, by priority
    NoBind,      \* infos whose driver has no Bind method
    NoInit,      \* infos whose driver has no Init method
    QuickLoad,   \* DeviceManagerIsQuickLoad() == DEV_MGR_QUICK_LOAD
    Loaders,     \* threads that load and unload dynamic devices
    Users,       \* those of them that come through DeviceManagerDispatch
    Boot,        \* the thread that runs DeviceManagerStart
    MaxCalls,    \* bound on the LoadDevice and UnloadDevice calls
    MaxNodes,    \* bound on the device nodes that exist at a time
    None

Hosts   == {HostSeq[k] : k \in 1..Len(HostSeq)}
Names   == {SvcName[i] : i \in Infos}
Threads == Loaders \cup {Boot}
Nodes   == 1..MaxNodes

ASSUME DevmgrAssumption ==
    /\ HostSeq \in Seq(Hosts) /\ HostOf \in [Infos -> Hosts]
    /\ Policy \in [Infos -> {"NONE", "PUBLIC", "CAPACITY", "FRIENDLY", "PRIVATE"}]
    /\ Preload \in [Infos -> {"ENABLE", "STEP2", "DISABLE"}]
    /\ UnloadSeq \in [Hosts -> Seq(Infos)]
    /\ \A i \in Infos : \A h \in Hosts :
          (\E k \in 1..Len(UnloadSeq[h]) : UnloadSeq[h][k] = i)
             <=> HostOf[i] = h /\ Preload[i] # "DISABLE"
    /\ QuickLoad \in BOOLEAN
    /\ Boot \notin Loaders /\ Users \subseteq Loaders
    /\ MaxCalls \in Nat /\ MaxNodes \in Nat
    /\ None \notin Infos \cup Hosts

VARIABLES
    \* the manager
    phase,          \* "hosts": StartDeviceHosts, "step2": LoadLeftDriver, "ready"
    cursor,         \* index in HostSeq of the host the boot thread is at
    hosts,          \* hosts registered in devmgr->hosts
    hostService,    \* per host: the DevHostService instance attached, 0 for NULL
    instances,      \* DevHostService instances made so far
    hostPid,        \* hosts with hostPid >= 0
    unloadDevInfos, \* infos still in their host's unloadDevInfos
    tokens,         \* per info: its DeviceTokenClnts in the host's device list
    calls,          \* LoadDevice and UnloadDevice calls so far
    \* the threads
    loop,           \* per thread: the InstallDriver loop it is in
    frame,          \* per thread: the AddDevice or DelDevice call it is in
    \* the hosts
    devices,        \* <<instance, device>> of the HdfDevice objects in the lists
    node,           \* the device nodes: a pool of records
    linked,         \* nodes in their device's devNodes list
    services        \* service manager: name -> node its record points to, or 0

mgrVars  == <<phase, cursor, hosts, hostService, instances, hostPid, calls>>
hostVars == <<devices, node, linked, services, tokens>>
vars == <<phase, cursor, hosts, hostService, instances, hostPid, unloadDevInfos,
          tokens, calls, loop, frame, devices, node, linked, services>>

\* A node: the fields of HdfDeviceNode the model keeps, and what its driver has
\* seen of it.
FreeNode == [info |-> None, inst |-> 0, devStatus |-> "FREE",
             servStatus |-> FALSE, ioService |-> FALSE, driver |-> "idle"]
NoLoop   == [host |-> None, pos |-> 0, then |-> None]
NoFrame  == [pc |-> "idle", info |-> None, inst |-> 0, node |-> 0, del |-> FALSE]

Init ==
    /\ phase = "hosts" /\ cursor = 1 /\ hosts = {}
    /\ hostService = [h \in Hosts |-> 0] /\ instances = 0 /\ hostPid = {}
    /\ unloadDevInfos = {} /\ tokens = [i \in Infos |-> 0] /\ calls = 0
    /\ loop = [t \in Threads |-> NoLoop]
    /\ frame = [t \in Threads |-> NoFrame]
    /\ devices = {} /\ node = [n \in Nodes |-> FreeNode] /\ linked = {}
    /\ services = [s \in Names |-> 0]

(***************************************************************************)
(* Threads.                                                                *)
(***************************************************************************)
Idle(t)     == frame[t] = NoFrame
At(t, pc)   == frame[t].pc = pc
Goto(t, pc) == frame' = [frame EXCEPT ![t].pc = pc]
Return(t)   == frame' = [frame EXCEPT ![t] = NoFrame]
Call(t, pc, i) ==
    frame' = [frame EXCEPT ![t] = [pc |-> pc, info |-> i, node |-> 0,
                                   inst |-> hostService'[HostOf[i]],
                                   del |-> pc = "del"]]

(***************************************************************************)
(* Starting a host.                                                        *)
(***************************************************************************)
\* DriverInstallerStartDeviceHost, DevHostServiceStartService and
\* DevmgrServiceAttachDeviceHost: a new host instance replaces the one the
\* host client had, and InstallDriver begins.
StartDeviceHost(t, h, then) ==
    /\ instances' = instances + 1
    /\ hostService' = [hostService EXCEPT ![h] = instances + 1]
    /\ loop' = [loop EXCEPT ![t] = [host |-> h, pos |-> 1, then |-> then]]

\* DevmgrServiceStartDeviceHost for the next host.  A host client that cannot
\* be created, or whose host cannot be started, is dropped with its infos (the
\* latter was in the list for a moment, here it is not); a host with dynamic
\* devices only is registered and not started.
DevmgrServiceStartDeviceHost ==
    LET h == HostSeq[cursor] IN
    /\ phase = "hosts" /\ loop[Boot] = NoLoop /\ cursor <= Len(HostSeq)
    /\ \/ /\ cursor' = cursor + 1
          /\ UNCHANGED <<hosts, hostService, instances, unloadDevInfos, loop>>
       \/ /\ UnloadSeq[h] = <<>>
          /\ hosts' = hosts \cup {h}
          /\ cursor' = cursor + 1
          /\ UNCHANGED <<hostService, instances, unloadDevInfos, loop>>
       \/ /\ UnloadSeq[h] # <<>>
          /\ hosts' = hosts \cup {h}
          /\ unloadDevInfos' = unloadDevInfos
                 \cup {i \in Infos : HostOf[i] = h /\ Preload[i] # "DISABLE"}
          /\ StartDeviceHost(Boot, h, None)
          /\ UNCHANGED cursor
    /\ UNCHANGED <<phase, hostPid, calls, frame, hostVars>>

\* The loop of thread t is the one of DevmgrServiceLoadLeftDriver.
InStep2(t) == t = Boot /\ phase = "step2"

\* The test a loop makes on an info of unloadDevInfos: InstallDriver leaves the
\* second-step infos when quick load is on, LoadLeftDriver takes only them.
TakenByLoop(t, i) ==
    /\ i \in unloadDevInfos
    /\ IF InStep2(t) THEN Preload[i] = "STEP2"
                     ELSE ~(QuickLoad /\ Preload[i] = "STEP2")

\* Mutant: the iterator is not advanced over an info the loop does not take.
InstallStaysOnSkip(t) ==
    LET h == loop[t].host
        i == UnloadSeq[h][loop[t].pos]
    IN  /\ h # None /\ Idle(t) /\ loop[t].pos <= Len(UnloadSeq[h])
        /\ UNCHANGED <<mgrVars, unloadDevInfos, hostVars>>
        /\ IF TakenByLoop(t, i)
           THEN Call(t, "query", i) /\ loop' = [loop EXCEPT ![t].pos = @ + 1]
           ELSE UNCHANGED <<loop, frame>>

\* One turn of the loop of DevHostServiceClntInstallDriver or of
\* DevmgrServiceLoadLeftDriver.  The former takes the host's service once, before
\* the loop, the model at each call: they differ only if the host is started
\* again meanwhile.
InstallNext(t) ==
    LET h == loop[t].host
        i == UnloadSeq[h][loop[t].pos]
    IN  /\ h # None /\ Idle(t) /\ loop[t].pos <= Len(UnloadSeq[h])
        /\ loop' = [loop EXCEPT ![t].pos = @ + 1]
        /\ UNCHANGED <<mgrVars, unloadDevInfos, hostVars>>
        /\ IF TakenByLoop(t, i) THEN Call(t, "query", i) ELSE UNCHANGED frame

\* The loop is over.  StartDeviceHost returns the pid to the host client, and
\* the caller goes on: StartDeviceHosts to its next host, LoadDevice to
\* AddDevice.
InstallDone(t) ==
    LET h == loop[t].host IN
    /\ h # None /\ Idle(t) /\ loop[t].pos > Len(UnloadSeq[h])
    /\ hostPid' = IF InStep2(t) THEN hostPid ELSE hostPid \cup {h}
    /\ cursor' = IF t = Boot THEN cursor + 1 ELSE cursor
    /\ loop' = [loop EXCEPT ![t] = NoLoop]
    /\ UNCHANGED <<phase, hosts, hostService, instances, calls, unloadDevInfos,
                   hostVars>>
    /\ IF t = Boot THEN UNCHANGED frame ELSE Call(t, "query", loop[t].then)

\* DeviceManagerStart is over; DeviceManagerStartStep2 has more to do only when
\* quick load is on.
StartDone ==
    /\ phase = "hosts" /\ loop[Boot] = NoLoop /\ cursor > Len(HostSeq)
    /\ phase' = IF QuickLoad THEN "step2" ELSE "ready"
    /\ cursor' = 1
    /\ UNCHANGED <<hosts, hostService, instances, hostPid, calls, unloadDevInfos,
                   loop, frame, hostVars>>

\* The outer loop of DevmgrServiceLoadLeftDriver, over the registered hosts.
DevmgrServiceLoadLeftDriver ==
    /\ phase = "step2" /\ loop[Boot] = NoLoop
    /\ \/ /\ cursor <= Len(HostSeq) /\ HostSeq[cursor] \in hosts
          /\ loop' = [loop EXCEPT ![Boot] = [host |-> HostSeq[cursor], pos |-> 1,
                                             then |-> None]]
          /\ UNCHANGED <<phase, cursor>>
       \/ /\ cursor <= Len(HostSeq) /\ HostSeq[cursor] \notin hosts
          /\ cursor' = cursor + 1 /\ UNCHANGED <<phase, loop>>
       \/ /\ cursor > Len(HostSeq)
          /\ phase' = "ready" /\ UNCHANGED <<cursor, loop>>
    /\ UNCHANGED <<hosts, hostService, instances, hostPid, calls, unloadDevInfos,
                   frame, hostVars>>

(***************************************************************************)
(* Loading and unloading of dynamic devices.                               *)
(***************************************************************************)
\* DevmgrServiceDynamicDevInfoFound: the dynamic infos of service s in the
\* first registered host that has one.
DynamicInfos(s, h) ==
    {i \in Infos : HostOf[i] = h /\ Preload[i] = "DISABLE" /\ SvcName[i] = s}
DynamicDevInfoFound(s, i) ==
    \E k \in 1..Len(HostSeq) :
       /\ HostSeq[k] \in hosts /\ i \in DynamicInfos(s, HostSeq[k])
       /\ \A j \in 1..(k - 1) :
             HostSeq[j] \in hosts => DynamicInfos(s, HostSeq[j]) = {}

OutOfCall(t) == loop[t] = NoLoop /\ Idle(t)

\* Mutant: DeviceManagerDispatch does not lock.
DispatchUnlocked(t) == TRUE

\* DeviceManagerDispatch holds devMgrMutex during the call.
DispatchFree(t) == t \in Users => \A u \in Users : OutOfCall(u)

MayCall(t) == OutOfCall(t) /\ DispatchFree(t) /\ calls < MaxCalls

\* DevSvcManagerSubscribeService: a service that is published is handed to the
\* caller, which changes nothing here; one that is not is loaded.
DevSvcManagerSubscribeService(t, i) ==
    /\ MayCall(t) /\ services[SvcName[i]] = 0
    /\ DynamicDevInfoFound(SvcName[i], i)
    /\ calls' = calls + 1
    /\ UNCHANGED <<phase, cursor, hosts, hostService, instances, hostPid,
                   unloadDevInfos, loop, hostVars>>
    /\ Call(t, "load", i)

\* The test of hostPid in DevmgrServiceLoadDevice: only a host whose start has
\* returned counts as started.
HostStarted(h) == h \in hostPid

\* DevmgrServiceLoadDevice.  The host is started first if its pid is not known
\* yet; a host that cannot be started ends the call.
DevmgrServiceLoadDevice(t) ==
    LET i == frame[t].info
        h == HostOf[i]
    IN  /\ At(t, "load")
        /\ \/ HostStarted(h) /\ UNCHANGED <<instances, hostService, loop>>
                              /\ Call(t, "query", i)
           \/ ~HostStarted(h) /\ StartDeviceHost(t, h, i) /\ Return(t)
           \/ ~HostStarted(h) /\ Return(t) /\ UNCHANGED <<instances, hostService, loop>>
        /\ UNCHANGED <<phase, cursor, hosts, hostPid, calls, unloadDevInfos, hostVars>>

\* DevmgrServiceUnloadDevice, an entry of IDevmgrService (in this build
\* DEVMGR_UNLOAD_SERVICE stops at UnsubscribeService, which is NULL).  The
\* installer has no StopDeviceHost: what follows DelDevice changes nothing.
DevmgrServiceUnloadDevice(t, i) ==
    /\ MayCall(t) /\ DynamicDevInfoFound(SvcName[i], i)
    /\ hostService[HostOf[i]] # 0
    /\ calls' = calls + 1
    /\ UNCHANGED <<phase, cursor, hosts, hostService, instances, hostPid,
                   unloadDevInfos, loop, hostVars>>
    /\ Call(t, "del", i)

(***************************************************************************)
(* DevHostServiceAddDevice.                                                *)
(***************************************************************************)
Info(t)   == frame[t].info
Node(t)   == frame[t].node
Device(t) == <<frame[t].inst, DeviceOf[Info(t)]>>
NodesOf(d) == {n \in linked : <<node[n].inst, DeviceOf[node[n].info]>> = d}

\* HdfDeviceGetDeviceNode
GetDeviceNode(t) == {n \in NodesOf(Device(t)) : node[n].info = Info(t)}

\* Inside a call a thread changes nothing of the manager's start.
InCall == UNCHANGED <<mgrVars, loop>>

\* Mutant: the device is not searched for the node.
QueryWithoutBusyTest(t) ==
    /\ At(t, "query")
    /\ devices' = devices \cup {Device(t)} /\ Goto(t, "driver")
    /\ InCall /\ UNCHANGED <<unloadDevInfos, node, linked, services, tokens>>

\* DevHostServiceQueryOrAddDevice and the test that the node is not there yet.
QueryOrAddDevice(t) ==
    /\ At(t, "query")
    /\ \/ /\ GetDeviceNode(t) = {}
          /\ devices' = devices \cup {Device(t)} /\ Goto(t, "driver")
       \/ /\ \/ Device(t) \notin devices        \* out of memory
             \/ GetDeviceNode(t) # {}           \* HDF_ERR_DEVICE_BUSY
          /\ Return(t) /\ UNCHANGED devices
    /\ InCall /\ UNCHANGED <<unloadDevInfos, node, linked, services, tokens>>

\* Mutant: a driver that is not found is looked for again.
GetDriverRetries(t) ==
    /\ At(t, "driver")
    /\ Goto(t, "new") \/ Goto(t, "query")
    /\ InCall /\ UNCHANGED <<unloadDevInfos, hostVars>>

\* driverLoader->GetDriver
GetDriver(t) ==
    /\ At(t, "driver")
    /\ Goto(t, "new") \/ Goto(t, "freeDevice")
    /\ InCall /\ UNCHANGED <<unloadDevInfos, hostVars>>

\* HdfDeviceNodeNewInstance.  When it fails, AddDevice returns at once and an
\* HdfDevice without nodes may stay in the list.
DeviceNodeNewInstance(t) ==
    /\ At(t, "new")
    /\ \/ \E n \in Nodes :
             /\ node[n] = FreeNode
             /\ \A o \in 1..(n - 1) : node[o] # FreeNode
             /\ node' = [node EXCEPT ![n] = [FreeNode EXCEPT
                           !.info = Info(t), !.inst = frame[t].inst,
                           !.devStatus = "INITED"]]
             /\ frame' = [frame EXCEPT ![t].pc = "launch", ![t].node = n]
       \/ Return(t) /\ UNCHANGED node
    /\ InCall /\ UNCHANGED <<unloadDevInfos, devices, linked, services, tokens>>

\* Every step from here to the last changes the thread's own node only.
SetNode(t, r) == node' = [node EXCEPT ![Node(t)] = r]
Its(t) == node[Node(t)]
NodeStep == InCall /\ UNCHANGED <<unloadDevInfos, devices, linked>>

\* HdfDeviceLaunchNode up to the call of DeviveDriverBind
LaunchNode(t) ==
    /\ At(t, "launch")
    /\ IF Info(t) \in NoInit
       THEN Goto(t, "free") /\ UNCHANGED node
       ELSE Goto(t, "bind") /\ SetNode(t, [Its(t) EXCEPT !.devStatus = "LAUNCHED"])
    /\ NodeStep /\ UNCHANGED <<services, tokens>>

\* DeviveDriverBind
DriverBind(t) ==
    /\ At(t, "bind")
    /\ IF Policy[Info(t)] \notin {"PUBLIC", "CAPACITY"}
       THEN Goto(t, "init") /\ UNCHANGED node
       ELSE IF Info(t) \in NoBind
       THEN Goto(t, "free") /\ SetNode(t, [Its(t) EXCEPT !.devStatus = "NONE"])
       ELSE /\ Goto(t, "init") \/ Goto(t, "free")
            /\ SetNode(t, [Its(t) EXCEPT !.driver = "entered"])
    /\ NodeStep /\ UNCHANGED <<services, tokens>>

\* Where HdfDeviceNodePublishService begins, by the policy of the service
PublishFrom(p) == CASE p = "NONE"     -> "attach"
                    [] p \in {"FRIENDLY", "PRIVATE"} -> "local"
                    [] p = "PUBLIC"   -> "service"
                    [] p = "CAPACITY" -> "io"

\* driverEntry->Init
DriverInit(t) ==
    /\ At(t, "init")
    /\ \/ /\ Goto(t, PublishFrom(Policy[Info(t)]))
          /\ SetNode(t, [Its(t) EXCEPT !.driver = "inited"])
       \/ /\ Goto(t, "free")
          /\ SetNode(t, [Its(t) EXCEPT !.driver = "entered"])
    /\ NodeStep /\ UNCHANGED <<services, tokens>>

\* DeviceNodeExtPublishService: HdfIoServicePublish for a CAPACITY service
IoServicePublish(t) ==
    /\ At(t, "io")
    /\ \/ Goto(t, "service") /\ SetNode(t, [Its(t) EXCEPT !.ioService = TRUE])
       \/ Goto(t, "free") /\ UNCHANGED node
    /\ NodeStep /\ UNCHANGED <<services, tokens>>

\* HdfDeviceNodePublishPublicService: a record of that name is updated, or a
\* new one made.
PublishPublicService(t) ==
    /\ At(t, "service")
    /\ \/ /\ services' = [services EXCEPT ![SvcName[Info(t)]] = Node(t)]
          /\ SetNode(t, [Its(t) EXCEPT !.servStatus = TRUE])
          /\ Goto(t, "local")
       \/ /\ SetNode(t, [Its(t) EXCEPT !.ioService = FALSE])
          /\ Goto(t, "free")
          /\ UNCHANGED services
    /\ NodeStep /\ UNCHANGED tokens

\* HdfDeviceNodePublishLocalService, the host's observer
PublishLocalService(t) ==
    /\ At(t, "local")
    /\ Goto(t, "attach") \/ Goto(t, "free")
    /\ NodeStep /\ UNCHANGED <<node, services, tokens>>

\* Mutant: a token that cannot be made is ignored.
AttachIgnoresFailure(t) ==
    /\ At(t, "attach")
    /\ \/ Goto(t, "link") /\ tokens' = [tokens EXCEPT ![Info(t)] = @ + 1]
       \/ Goto(t, "link") /\ UNCHANGED tokens
    /\ NodeStep /\ UNCHANGED <<node, services>>

\* DevmgrServiceAttachDevice
AttachDevice(t) ==
    /\ At(t, "attach")
    /\ \/ Goto(t, "link") /\ tokens' = [tokens EXCEPT ![Info(t)] = @ + 1]
       \/ Goto(t, "free") /\ UNCHANGED tokens
    /\ NodeStep /\ UNCHANGED <<node, services>>

\* Mutant: the loop does not remove the info it has installed.
LinkKeepsInfo(t) ==
    /\ At(t, "link")
    /\ linked' = linked \cup {Node(t)}
    /\ Return(t)
    /\ InCall /\ UNCHANGED <<unloadDevInfos, devices, node, services, tokens>>

\* The end of HdfDeviceAttach; AddDevice succeeds, and the loop that called it
\* removes the info from unloadDevInfos.
LinkNode(t) ==
    /\ At(t, "link")
    /\ linked' = linked \cup {Node(t)}
    /\ unloadDevInfos' = IF loop[t] = NoLoop THEN unloadDevInfos
                                             ELSE unloadDevInfos \ {Info(t)}
    /\ Return(t)
    /\ InCall /\ UNCHANGED <<devices, node, services, tokens>>

(***************************************************************************)
(* Taking a node down: the end of DelDevice and the error paths of         *)
(* AddDevice.                                                              *)
(***************************************************************************)
\* DevHostServiceDelDevice and HdfDeviceDetach: the node leaves the list first.
DelDevice(t) ==
    /\ At(t, "del")
    /\ \/ /\ GetDeviceNode(t) = {} /\ Return(t) /\ UNCHANGED linked
       \/ \E n \in GetDeviceNode(t) :
             /\ linked' = linked \ {n}
             /\ frame' = [frame EXCEPT ![t].pc = "release", ![t].node = n]
    /\ InCall /\ UNCHANGED <<unloadDevInfos, devices, node, services, tokens>>

\* Mutant: the vnode is removed and the record is left in the service manager.
RemoveIoServiceOnly(t) ==
    /\ SetNode(t, [Its(t) EXCEPT !.ioService = FALSE, !.servStatus = FALSE])
    /\ UNCHANGED services

\* DeviceNodeExtRemoveService and HdfDeviceNodeRemoveService
RemoveService(t) ==
    /\ SetNode(t, [Its(t) EXCEPT !.ioService = FALSE, !.servStatus = FALSE])
    /\ services' = IF Its(t).servStatus
                   THEN [services EXCEPT ![SvcName[Info(t)]] = 0] ELSE services

\* HdfDeviceNodeFreeInstance: DeviceNodeExtDestruct removes the services, then
\* HdfDeviceNodeDestruct unlaunches a node that is DEVNODE_LAUNCHED.
FreeInstance(t) ==
    /\ At(t, "free")
    /\ RemoveService(t)
    /\ Goto(t, IF Its(t).devStatus = "LAUNCHED" THEN "release" ELSE "destroy")
    /\ NodeStep /\ UNCHANGED tokens

\* HdfDeviceUnlaunchNode in three steps: Release of the driver, ...
DriverRelease(t) ==
    /\ At(t, "release")
    /\ SetNode(t, [Its(t) EXCEPT !.driver = "released"])
    /\ Goto(t, "remove")
    /\ NodeStep /\ UNCHANGED <<services, tokens>>

\* ... the service, if it is still published, ...
UnlaunchRemove(t) ==
    /\ At(t, "remove")
    /\ IF Its(t).servStatus THEN RemoveService(t) ELSE UNCHANGED <<node, services>>
    /\ Goto(t, "detach")
    /\ NodeStep /\ UNCHANGED tokens

\* Mutant: the token is taken off without a search.
DetachWithoutSearch(t) ==
    /\ At(t, "detach")
    /\ tokens' = [tokens EXCEPT ![Info(t)] = @ - 1]
    /\ SetNode(t, [Its(t) EXCEPT !.devStatus = "INITED"])
    /\ Goto(t, IF frame[t].del THEN "free" ELSE "destroy")
    /\ NodeStep /\ UNCHANGED services

\* Mutant: UnlaunchNode leaves devStatus as it is.
DetachStaysLaunched(t) ==
    /\ At(t, "detach")
    /\ tokens' = [tokens EXCEPT ![Info(t)] = IF @ > 0 THEN @ - 1 ELSE 0]
    /\ Goto(t, IF frame[t].del THEN "free" ELSE "destroy")
    /\ NodeStep /\ UNCHANGED <<node, services>>

\* ... and the token, found by its device id.  DelDevice then frees the node.
DetachDevice(t) ==
    /\ At(t, "detach")
    /\ tokens' = [tokens EXCEPT ![Info(t)] = IF @ > 0 THEN @ - 1 ELSE 0]
    /\ SetNode(t, [Its(t) EXCEPT !.devStatus = "INITED"])
    /\ Goto(t, IF frame[t].del THEN "free" ELSE "destroy")
    /\ NodeStep /\ UNCHANGED services

DestroyNode(t) ==
    /\ At(t, "destroy")
    /\ SetNode(t, FreeNode) /\ Goto(t, "freeDevice")
    /\ NodeStep /\ UNCHANGED <<services, tokens>>

\* DevHostServiceFreeDevice when the device has no node left
FreeDevice(t) ==
    /\ At(t, "freeDevice")
    /\ devices' = IF NodesOf(Device(t)) = {} THEN devices \ {Device(t)} ELSE devices
    /\ Return(t)
    /\ InCall /\ UNCHANGED <<unloadDevInfos, node, linked, services, tokens>>

AddDelStep(t) ==
    \/ QueryOrAddDevice(t) \/ GetDriver(t) \/ DeviceNodeNewInstance(t)
    \/ LaunchNode(t) \/ DriverBind(t) \/ DriverInit(t) \/ IoServicePublish(t)
    \/ PublishPublicService(t) \/ PublishLocalService(t) \/ AttachDevice(t)
    \/ LinkNode(t) \/ DelDevice(t) \/ FreeInstance(t) \/ DriverRelease(t)
    \/ UnlaunchRemove(t) \/ DetachDevice(t) \/ DestroyNode(t) \/ FreeDevice(t)

\* What a thread does once it is inside a call.
ThreadStep(t) == AddDelStep(t) \/ InstallNext(t) \/ InstallDone(t)
                 \/ DevmgrServiceLoadDevice(t)
BootStep == DevmgrServiceStartDeviceHost \/ StartDone \/ DevmgrServiceLoadLeftDriver

Next ==
    \/ BootStep
    \/ \E t \in Threads : ThreadStep(t)
    \/ \E t \in Loaders, i \in Infos : DevSvcManagerSubscribeService(t, i)
    \/ \E t \in Loaders, i \in Infos : DevmgrServiceUnloadDevice(t, i)

\* The boot thread runs on, and a call that has begun goes on: the drivers'
\* Bind, Init and Release return.  Nobody has to make another call.
Fairness == /\ WF_vars(BootStep)
            /\ \A t \in Threads : WF_vars(ThreadStep(t))

Spec == Init /\ [][Next]_vars /\ Fairness

(***************************************************************************)
(* Properties.                                                             *)
(***************************************************************************)
Statuses == {"FREE", "INITED", "LAUNCHED", "NONE"}
Drivers  == {"idle", "entered", "inited", "released"}
PCs == {"idle", "load", "query", "driver", "new", "launch", "bind", "init", "io",
        "service", "local", "attach", "link", "del", "free", "release",
        "remove", "detach", "destroy", "freeDevice"}

\* The ranges of the variables; in particular a device's count of tokens in the
\* manager is never negative, whatever DetachDevice is called for.
TypeOK ==
    /\ phase \in {"hosts", "step2", "ready"} /\ cursor \in Nat \ {0}
    /\ hosts \subseteq Hosts /\ hostPid \subseteq hosts
    /\ instances \in Nat /\ calls \in 0..MaxCalls
    /\ hostService \in [Hosts -> 0..instances]
    /\ unloadDevInfos \subseteq Infos
    /\ tokens \in [Infos -> Nat]
    /\ loop \in [Threads -> [host : Hosts \cup {None}, pos : Nat,
                             then : Infos \cup {None}]]
    /\ frame \in [Threads -> [pc : PCs, info : Infos \cup {None},
                              inst : 0..instances, node : Nodes \cup {0},
                              del : BOOLEAN]]
    /\ \A d \in devices : d[1] \in 1..instances
    /\ node \in [Nodes -> [info : Infos \cup {None}, inst : 0..instances,
                           devStatus : Statuses, servStatus : BOOLEAN,
                           ioService : BOOLEAN, driver : Drivers]]
    /\ linked \subseteq Nodes
    /\ services \in [Names -> Nodes \cup {0}]

Live(n) == node[n] # FreeNode
Busy(t) == ~Idle(t)
Held(n) == \E t \in Threads : Node(t) = n

\* The table of services and the vnodes never lead to a node that is gone, or
\* whose driver did not finish Init: whatever fails in AddDevice, and however
\* devices of the same service name replace each other's record
\* (DevSvcManagerAddService, HdfDeviceNodeRemoveService).
ServicesOfLaunchedNodes ==
    /\ \A s \in Names : services[s] # 0 =>
          LET r == node[services[s]] IN
          r.devStatus = "LAUNCHED" /\ r.servStatus /\ SvcName[r.info] = s
    /\ \A n \in Nodes : node[n].servStatus \/ node[n].ioService =>
          node[n].driver \in {"inited", "released"}

\* Release is called exactly once for a driver whose Bind or Init was called,
\* on every path that frees its node, and never for one that was not entered
\* (HdfDeviceUnlaunchNode, HdfDeviceNodeDestruct).
ReleasedExactlyOnce ==
    \A t \in Threads :
       /\ At(t, "release") => Its(t).driver \in {"entered", "inited"}
       /\ At(t, "destroy") => Its(t).driver \in {"idle", "released"}

\* What AddDevice and DelDevice leave behind is all or nothing: a node no call
\* works on is in its device's list, launched, published as its policy says,
\* and the manager holds one token for it.
SettledNodes ==
    /\ \A n \in Nodes : Live(n) /\ ~Held(n) =>
          /\ n \in linked
          /\ node[n].devStatus = "LAUNCHED" /\ node[n].driver = "inited"
          /\ node[n].servStatus <=> Policy[node[n].info] \in {"PUBLIC", "CAPACITY"}
          /\ node[n].ioService <=> Policy[node[n].info] = "CAPACITY"
    /\ \A i \in Infos :
          (\A t \in Threads : Info(t) # i) =>
             tokens[i] = Cardinality({n \in linked : node[n].info = i})

\* Start-up loses no device: once it is over, a device that is not dynamic is
\* linked once, or is still listed as not loaded (DevHostServiceClntInstallDriver,
\* DevmgrServiceLoadLeftDriver, the two steps of quick load).
InstalledOrLeft ==
    phase = "ready" =>
       \A i \in Infos : HostOf[i] \in hosts /\ Preload[i] # "DISABLE" =>
          Cardinality({n \in linked : node[n].info = i})
             = IF i \in unloadDevInfos THEN 0 ELSE 1

\* An HdfDevice is in its host's list as long as a node is linked in it or an
\* AddDevice call uses it, and a call never works on a host that has not
\* attached (hostClnt->hostService == NULL).
DevicesOutliveUse ==
    /\ \A n \in linked : <<node[n].inst, DeviceOf[node[n].info]>> \in devices
    /\ \A t \in Threads : Busy(t) /\ ~At(t, "load") =>
          /\ frame[t].inst # 0
          /\ ~frame[t].del /\ ~At(t, "query") => Device(t) \in devices

\* No two nodes of one configured device are launched at a time: AddDevice
\* refuses a device that exists.
OneNodePerDevice ==
    \A m, n \in Nodes :
       m # n /\ Live(m) /\ Live(n) /\ node[m].driver = "inited"
             /\ node[n].driver = "inited" => node[m].info # node[n].info

\* DeviceManagerStart and DeviceManagerStartStep2 finish, whatever fails and
\* whatever other threads load and unload meanwhile.
StartFinishes == <>(phase = "ready")

\* Every load and unload of a device returns.
CallsReturn == \A t \in Loaders : Busy(t) ~> OutOfCall(t)
=============================================================================

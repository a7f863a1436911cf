-------------------------------- MODULE Core --------------------------------
(* The core: the observer of a host's services, the listener side of device   *)
(* events, power requests and notifications, the message looper and the       *)
(* message router.  A behaviour runs one of them; they share variable names.  *)
EXTENDS Integers, Sequences, FiniteSets, TLC

CONSTANTS
  Services, HostDevices, Owner, Policy,        \* of the observer
  ObserverThreads, MaxPublish, MaxRecords,
  Callers, PowerDevices, MaxRequests,          \* of the power requests by the queue
  MixedCallers, Direct, MixedDevices, MaxMixed, \* of those of which some are direct
  Senders, Delays, MaxSends, MaxTime,          \* of the looper
  none, gone, c1, c2, d1, d2, d3, n1, n2, n3, n4, h1, h2, s1, s2 \* of the others

\* The drivers of a host are loaded one after the other.
ASSUME ObserverAssumption ==
  /\ \E x \in ObserverThreads : ObserverThreads = {x}
  /\ Owner \in [Services -> HostDevices]
  /\ Policy \in [Services -> {"NONE", "PUBLIC", "CAPACITY", "FRIENDLY", "PRIVATE"}]
  /\ MaxPublish \in Nat /\ MaxRecords \in Nat

ASSUME PowerAssumption ==
  /\ IsFiniteSet(Callers) /\ IsFiniteSet(MixedCallers)
  /\ "worker" \notin Callers \cup MixedCallers /\ Direct \subseteq MixedCallers
  /\ MaxRequests \in Nat /\ MaxMixed \in Nat

ASSUME LooperAssumption ==
  /\ IsFiniteSet(Senders) /\ "looper" \notin Senders /\ Delays \subseteq Nat
  /\ MaxSends \in Nat /\ MaxTime \in Nat

VARIABLES
  part, \* the part that runs
  services, record, made, published, current, subscription, frame, client,
  sent, open, listenerList, mutex, bound, th, task, app, misused, hasty,
  failures, lost, heard, refs, psmState, powered, at, req, queue, sem,
  running, holds, owed, asked, devices, nodes, walk, calls, stayed, born,
  walks, dels, loading, now, destroyed, msg, currentTime, handled, stopCalled, before,
  index, refCount, queues, level, cur, held, ctx, freed, sender, accepted,
  executed, answered

vars == <<part, services, record, made, published, current, subscription, frame,
          client, sent, open, listenerList, mutex, bound, th, task, app,
          misused, hasty, failures, lost, heard, refs, psmState, powered, at,
          req, queue, sem, running, holds, owed, asked, devices, nodes, walk,
          calls, stayed, born, walks, dels, loading, now, destroyed, msg, currentTime,
          handled, stopCalled, before, index, refCount, queues, level, cur,
          held, ctx, freed, sender, accepted, executed, answered>>

\* The value of the variables of a part that does not run.
Off == "off"

-----------------------------------------------------------------------------
(* HdfServiceObserver, from one thread.                                     *)

Observer == INSTANCE HdfServiceObserver WITH
  Devices <- HostDevices, Threads <- ObserverThreads, None <- none

\* The variables of the other parts.
ObserverRest == <<client, sent, open, listenerList, mutex, bound, th, task,
                  app, misused, hasty, failures, lost, heard, refs, psmState,
                  powered, at, req, queue, sem, running, holds, owed, asked,
                  devices, nodes, walk, calls, stayed, born, walks, dels, loading, now,
                  destroyed, msg, currentTime, handled, stopCalled, before,
                  index, refCount, queues, level, cur, held, ctx, freed,
                  sender, accepted, executed, answered>>
ObserverAlone ==
  /\ client = Off /\ sent = Off /\ open = Off /\ listenerList = Off
  /\ mutex = Off /\ bound = Off /\ th = Off /\ task = Off /\ app = Off
  /\ misused = Off /\ hasty = Off /\ failures = Off /\ lost = Off
  /\ heard = Off /\ refs = Off /\ psmState = Off /\ powered = Off
  /\ at = Off /\ req = Off /\ queue = Off /\ sem = Off /\ running = Off
  /\ holds = Off /\ owed = Off /\ asked = Off /\ devices = Off
  /\ nodes = Off /\ walk = Off /\ calls = Off /\ stayed = Off /\ born = Off
  /\ walks = Off /\ dels = Off /\ loading = Off /\ now = Off /\ destroyed = Off /\ msg = Off
  /\ currentTime = Off /\ handled = Off /\ stopCalled = Off /\ before = Off
  /\ index = Off /\ refCount = Off /\ queues = Off /\ level = Off
  /\ cur = Off /\ held = Off /\ ctx = Off /\ freed = Off /\ sender = Off
  /\ accepted = Off /\ executed = Off /\ answered = Off

\* A driver that subscribed to a service it may use has its latest interface once
\* the service is published, whichever came first, and the two meet in the one
\* record of the service (hdf_service_observer.c,
\* HdfServiceObserverSubscribeService and HdfServiceObserverPublishService).
SubscribersConnected ==
  part = "observer" =>
    Observer!TypeOK /\ Observer!SubscribersConnected /\ Observer!OneRecordPerService

-----------------------------------------------------------------------------
(* HdfSyscallAdapter: without failures, and with one.                      *)

SyscallServe == INSTANCE HdfSyscallAdapter WITH
  Apps <- {c1, c2}, MaxFailures <- 0, MaxThreads <- 2, MaxEvents <- 1

SyscallFail == INSTANCE HdfSyscallAdapter WITH
  Apps <- {c1}, MaxFailures <- 1, MaxThreads <- 2, MaxEvents <- 2

\* The variables of the other parts.
SyscallRest == <<services, record, made, published, current, subscription,
                 frame, refs, psmState, powered, at, req, queue, sem, running,
                 holds, owed, asked, devices, nodes, walk, calls, stayed,
                 born, walks, dels, loading, now, destroyed, msg, currentTime, handled,
                 stopCalled, before, index, refCount, queues, level, cur,
                 held, ctx, freed, sender, accepted, executed, answered>>
SyscallAlone ==
  /\ services = Off /\ record = Off /\ made = Off /\ published = Off
  /\ current = Off /\ subscription = Off /\ frame = Off /\ refs = Off
  /\ psmState = Off /\ powered = Off /\ at = Off /\ req = Off
  /\ queue = Off /\ sem = Off /\ running = Off /\ holds = Off /\ owed = Off
  /\ asked = Off /\ devices = Off /\ nodes = Off /\ walk = Off
  /\ calls = Off /\ stayed = Off /\ born = Off /\ walks = Off /\ dels = Off /\ loading = Off
  /\ now = Off /\ destroyed = Off /\ msg = Off /\ currentTime = Off
  /\ handled = Off /\ stopCalled = Off /\ before = Off /\ index = Off
  /\ refCount = Off /\ queues = Off /\ level = Off /\ cur = Off
  /\ held = Off /\ ctx = Off /\ freed = Off /\ sender = Off
  /\ accepted = Off /\ executed = Off /\ answered = Off

\* A registration lasts and ends (hdf_syscall_adapter.c): while listeners are
\* registered and nothing has failed, a thread polls the file or is about to and
\* the file takes events, whatever registrations and unregistrations met; no
\* listener is called after its unregistration; and, whatever fails, each hears
\* the events in the order they were sent while an old thread and a new one read
\* the same file, unless a thread was destroyed between its start and its first
\* step (LISTENER_STARTED, hdf_syscall_adapter.c:629-631), which the code only
\* tells to stop: such a thread may call a listener with an event after its
\* successor has called it with a later one.
ListenersServed ==
  /\ part = "syscall_serve" =>
       /\ SyscallServe!TypeOK /\ SyscallServe!RegistrationServes
       /\ SyscallServe!NoCallbackAfterUnregister
  /\ part = "syscall_fail" =>
       SyscallFail!NoCallbackAfterUnregister /\ SyscallFail!HeardInOrder

-----------------------------------------------------------------------------
(* HdfPowerManager: requests through the queue, and direct ones with them. *)

PowerQueue == INSTANCE HdfPowerManagerProofs WITH
  Direct <- {}, Devices <- PowerDevices, Balanced <- FALSE

PowerMixed == INSTANCE HdfPowerManagerProofs WITH
  Callers <- MixedCallers, Devices <- MixedDevices, Balanced <- TRUE,
  MaxRequests <- MaxMixed

\* The variables of the other parts.
PowerRest == <<services, record, published, current, subscription, frame,
               client, sent, open, listenerList, bound, th, task, app,
               misused, hasty, failures, lost, heard, devices, nodes, walk,
               calls, stayed, born, walks, dels, loading, now, destroyed, msg,
               currentTime, handled, stopCalled, before, index, refCount,
               queues, level, cur, held, ctx, freed, sender, accepted,
               executed, answered>>
PowerAlone ==
  /\ services = Off /\ record = Off /\ published = Off /\ current = Off
  /\ subscription = Off /\ frame = Off /\ client = Off /\ sent = Off
  /\ open = Off /\ listenerList = Off /\ bound = Off /\ th = Off
  /\ task = Off /\ app = Off /\ misused = Off /\ hasty = Off
  /\ failures = Off /\ lost = Off /\ heard = Off /\ devices = Off
  /\ nodes = Off /\ walk = Off /\ calls = Off /\ stayed = Off /\ born = Off
  /\ walks = Off /\ dels = Off /\ loading = Off /\ now = Off /\ destroyed = Off /\ msg = Off
  /\ currentTime = Off /\ handled = Off /\ stopCalled = Off /\ before = Off
  /\ index = Off /\ refCount = Off /\ queues = Off /\ level = Off
  /\ cur = Off /\ held = Off /\ ctx = Off /\ freed = Off /\ sender = Off
  /\ accepted = Off /\ executed = Off /\ answered = Off

\* Between requests a device is powered exactly if it is held, its count is the
\* number of holds, whatever surplus releases there were, and requests through
\* the queue were executed in the order they were made; with direct requests
\* among them, the count is still the number of holds if callers release only
\* what they acquired (power_state_token.c, hdf_sref.c, hdf_task_queue.c).
HeldIsPowered ==
  /\ part = "power_queue" =>
       PowerQueue!TypeOK /\ PowerQueue!HeldIsPowered /\ PowerQueue!AsRequested
  /\ part = "power_mixed" => PowerMixed!CountIsHolds

-----------------------------------------------------------------------------
(* PowerNotify: three devices in two hosts; two devices, one of two nodes.  *)

NodeDevices == (n1 :> d1) @@ (n2 :> d1) @@ (n3 :> d2) @@ (n4 :> d3)
NodeHosts == (n1 :> h1) @@ (n2 :> h1) @@ (n3 :> h1) @@ (n4 :> h2)

NotifyEach == INSTANCE PowerNotify WITH
  Nodes <- {n1, n3, n4}, DeviceOf <- NodeDevices, HostOf <- NodeHosts,
  HostList <- <<h1, h2>>, Null <- none, Freed <- gone, MaxWalks <- 1,
  MaxDels <- 0

NotifyOrder == INSTANCE PowerNotify WITH
  Nodes <- {n1, n2, n3}, DeviceOf <- NodeDevices, HostOf <- NodeHosts,
  HostList <- <<h1, h2>>, Null <- none, Freed <- gone, MaxWalks <- 1,
  MaxDels <- 1

\* The variables of the other parts.
NotifyRest == <<services, record, made, published, current, subscription,
                frame, client, sent, open, listenerList, mutex, bound, th,
                task, app, misused, hasty, failures, lost, heard, refs,
                psmState, powered, at, req, queue, sem, running, holds, owed,
                asked, now, destroyed, msg, currentTime, handled, stopCalled,
                before, index, refCount, queues, level, cur, held, ctx, freed,
                sender, accepted, executed, answered>>
NotifyAlone ==
  /\ services = Off /\ record = Off /\ made = Off /\ published = Off
  /\ current = Off /\ subscription = Off /\ frame = Off /\ client = Off
  /\ sent = Off /\ open = Off /\ listenerList = Off /\ mutex = Off
  /\ bound = Off /\ th = Off /\ task = Off /\ app = Off /\ misused = Off
  /\ hasty = Off /\ failures = Off /\ lost = Off /\ heard = Off
  /\ refs = Off /\ psmState = Off /\ powered = Off /\ at = Off /\ req = Off
  /\ queue = Off /\ sem = Off /\ running = Off /\ holds = Off /\ owed = Off
  /\ asked = Off /\ now = Off /\ destroyed = Off /\ msg = Off
  /\ currentTime = Off /\ handled = Off /\ stopCalled = Off /\ before = Off
  /\ index = Off /\ refCount = Off /\ queues = Off /\ level = Off
  /\ cur = Off /\ held = Off /\ ctx = Off /\ freed = Off /\ sender = Off
  /\ accepted = Off /\ executed = Off /\ answered = Off

\* A change of the power state that ends has reached every node that was there
\* all the time, once, whichever drivers fail, are loaded or fail to load
\* meanwhile; and nodes are told host by host, device by device in the order of
\* their first loads and node by node, and in the reverse order to sleep.  A
\* change does not end when the node or the empty device it stands at is freed:
\* nothing locks the lists (devmgr_service.c, DevmgrServicePowerStateChange;
\* devhost_service.c, DevHostServicePmNotify and DevHostServiceAddDevice).
EachToldInOrder ==
  /\ part = "notify_each" => NotifyEach!EachTold /\ NotifyEach!InOrder
  /\ part = "notify_order" => NotifyOrder!EachTold /\ NotifyOrder!InOrder

-----------------------------------------------------------------------------
(* HdfMessageLooper: senders of delayed messages, and two of others.       *)

LooperOrder == INSTANCE HdfMessageLooperProofs

LooperServed == INSTANCE HdfMessageLooper WITH
  Senders <- {c1, c2}, Delays <- {0}, MaxSends <- 3, MaxTime <- 1

\* The variables of the other parts.
LooperRest == <<services, record, made, published, current, subscription,
                frame, client, open, listenerList, mutex, bound, th, task,
                app, misused, hasty, failures, lost, heard, refs, psmState,
                powered, req, running, holds, owed, asked, devices, nodes,
                walk, calls, stayed, born, walks, dels, loading, index, refCount,
                queues, level, cur, held, ctx, freed, sender, accepted,
                executed, answered>>
LooperAlone ==
  /\ services = Off /\ record = Off /\ made = Off /\ published = Off
  /\ current = Off /\ subscription = Off /\ frame = Off /\ client = Off
  /\ open = Off /\ listenerList = Off /\ mutex = Off /\ bound = Off
  /\ th = Off /\ task = Off /\ app = Off /\ misused = Off /\ hasty = Off
  /\ failures = Off /\ lost = Off /\ heard = Off /\ refs = Off
  /\ psmState = Off /\ powered = Off /\ req = Off /\ running = Off
  /\ holds = Off /\ owed = Off /\ asked = Off /\ devices = Off
  /\ nodes = Off /\ walk = Off /\ calls = Off /\ stayed = Off /\ born = Off
  /\ walks = Off /\ dels = Off /\ loading = Off /\ index = Off /\ refCount = Off
  /\ queues = Off /\ level = Off /\ cur = Off /\ held = Off /\ ctx = Off
  /\ freed = Off /\ sender = Off /\ accepted = Off /\ executed = Off
  /\ answered = Off

\* What one sender queues with the same delay is dispatched in the order it was
\* sent, although every dispatch looks at a time read before the list, and a
\* looper that stops has dispatched what was due when HdfMessageLooperStop was
\* called (osal_msg_queue.c, hdf_message_looper.c).
LooperInOrder ==
  part = "looper_order" =>
    LooperOrder!TypeOK /\ LooperOrder!SenderOrder /\ LooperOrder!StopDrains

-----------------------------------------------------------------------------
(* MessageRouter: services that are destroyed, and services that stay.     *)

RouterOwned == INSTANCE MessageRouter WITH
  Services <- {s1, s2}, Dispatchers <- {d1, d2},
  DispatcherOf <- (s1 :> d1 @@ s2 :> d2), Clients <- {c1}, QueueSize <- 1,
  Levels <- 2, Priorities <- {2}, DestroyWhen <- "unused", MaxMessages <- 2,
  MaxDestroys <- 1

RouterAnswered == INSTANCE MessageRouter WITH
  Services <- {s1, s2}, Dispatchers <- {d1, d2},
  DispatcherOf <- (s1 :> d1 @@ s2 :> d2), Clients <- {c1}, QueueSize <- 2,
  Levels <- 2, Priorities <- {1}, DestroyWhen <- "unused", MaxMessages <- 2,
  MaxDestroys <- 0

\* The variables of the other parts.
RouterRest == <<services, record, made, published, current, subscription,
                frame, client, open, listenerList, mutex, bound, th, task,
                app, misused, hasty, failures, lost, heard, refs, psmState,
                powered, req, queue, running, holds, owed, asked, devices,
                nodes, walk, calls, stayed, born, walks, dels, loading, now, msg,
                currentTime, handled, stopCalled, before>>
RouterAlone ==
  /\ services = Off /\ record = Off /\ made = Off /\ published = Off
  /\ current = Off /\ subscription = Off /\ frame = Off /\ client = Off
  /\ open = Off /\ listenerList = Off /\ mutex = Off /\ bound = Off
  /\ th = Off /\ task = Off /\ app = Off /\ misused = Off /\ hasty = Off
  /\ failures = Off /\ lost = Off /\ heard = Off /\ refs = Off
  /\ psmState = Off /\ powered = Off /\ req = Off /\ queue = Off
  /\ running = Off /\ holds = Off /\ owed = Off /\ asked = Off
  /\ devices = Off /\ nodes = Off /\ walk = Off /\ calls = Off
  /\ stayed = Off /\ born = Off /\ walks = Off /\ dels = Off /\ loading = Off /\ now = Off
  /\ msg = Off /\ currentTime = Off /\ handled = Off /\ stopCalled = Off
  /\ before = Off

\* A message that was sent has one owner, a queue or a thread, until it is
\* released once, although services are destroyed while messages are on their way
\* and references are counted without the router's mutex: no service in use is
\* destroyed, a callback runs once, on the sender's dispatcher, and never for a
\* message that was refused; and messages of one priority are executed in the
\* order they were sent (message_router.c, message_dispatcher.c).
MessagesOwned ==
  /\ part = "router_owned" =>
       /\ RouterOwned!TypeOK /\ RouterOwned!ContextOwned
       /\ RouterOwned!HeldIsAlive /\ RouterOwned!CallbackOnce
  /\ part = "router_answered" => RouterAnswered!ExecutedInOrder

\* No wake-up is lost: power requests are executed (hdf_task_queue.c posts after
\* the unlock); a looper does not wait for ever beside a message sent without a
\* delay, although it compares it with a time read before the list, when the
\* message may not have been there (osal_msg_queue.c:61); and a message that was
\* accepted is answered, by a dispatcher whose queue has room for the response
\* (message_dispatcher.c:182 drops the response otherwise).
NoWakeUpLost ==
  /\ []<>(part = "power_queue" => queue = <<>> /\ ~ mutex)
  /\ []<>(part = "looper_served" => queue = <<>> \/ at["looper"] = "stopped")
  /\ []<>(part = "router_answered" =>
            \A m \in accepted : ctx[m].cb => Len(answered[m]) = 1)

-----------------------------------------------------------------------------
\* One part is chosen at the start and runs on.
Init ==
  \/ part = "observer" /\ ObserverAlone /\ Observer!Init
  \/ part = "syscall_serve" /\ SyscallAlone /\ SyscallServe!Init
  \/ part = "syscall_fail" /\ SyscallAlone /\ SyscallFail!Init
  \/ part = "power_queue" /\ PowerAlone /\ PowerQueue!Init
  \/ part = "power_mixed" /\ PowerAlone /\ PowerMixed!Init
  \/ part = "notify_each" /\ NotifyAlone /\ NotifyEach!Init
  \/ part = "notify_order" /\ NotifyAlone /\ NotifyOrder!Init
  \/ part = "looper_order" /\ LooperAlone /\ LooperOrder!Init
  \/ part = "looper_served" /\ LooperAlone /\ LooperServed!Init
  \/ part = "router_owned" /\ RouterAlone /\ RouterOwned!Init
  \/ part = "router_answered" /\ RouterAlone /\ RouterAnswered!Init

Next ==
  \/ part = "observer" /\ Observer!Next /\ UNCHANGED <<part, ObserverRest>>
  \/ part = "syscall_serve" /\ SyscallServe!Next /\ UNCHANGED <<part, SyscallRest>>
  \/ part = "syscall_fail" /\ SyscallFail!Next /\ UNCHANGED <<part, SyscallRest>>
  \/ part = "power_queue" /\ PowerQueue!Next /\ UNCHANGED <<part, PowerRest>>
  \/ part = "power_mixed" /\ PowerMixed!Next /\ UNCHANGED <<part, PowerRest>>
  \/ part = "notify_each" /\ NotifyEach!Next /\ UNCHANGED <<part, NotifyRest>>
  \/ part = "notify_order" /\ NotifyOrder!Next /\ UNCHANGED <<part, NotifyRest>>
  \/ part = "looper_order" /\ LooperOrder!Next /\ UNCHANGED <<part, LooperRest>>
  \/ part = "looper_served" /\ LooperServed!Next /\ UNCHANGED <<part, LooperRest>>
  \/ part = "router_owned" /\ RouterOwned!Next /\ UNCHANGED <<part, RouterRest>>
  \/ part = "router_answered" /\ RouterAnswered!Next /\ UNCHANGED <<part, RouterRest>>

\* Each component's own fairness, while it runs.
Fairness ==
  /\ \A t \in PowerQueue!Threads : WF_(PowerQueue!vars)(part = "power_queue" /\ PowerQueue!TokenStep(t))
  /\ \A t \in Callers : WF_(PowerQueue!vars)(part = "power_queue" /\ PowerQueue!OsalSemPost(t))
  /\ WF_(PowerQueue!vars)(part = "power_queue" /\ PowerQueue!WorkerStep)
  /\ \A s \in {c1, c2} :
       /\ WF_(LooperServed!vars)(part = "looper_served" /\ LooperServed!HdfMessageQueueEnqueue(s))
       /\ WF_(LooperServed!vars)(part = "looper_served" /\ LooperServed!EnqueuePost(s))
  /\ WF_(LooperServed!vars)(part = "looper_served" /\ LooperServed!LooperStep)
  /\ \A t \in {c1, d1, d2} : WF_(RouterAnswered!vars)(part = "router_answered" /\ RouterAnswered!Runs(t))

Spec == Init /\ [][Next]_vars /\ Fairness
=============================================================================

# HDF: a verification project for the Hardware Driver Foundation

This directory holds TLA+ models of the OpenHarmony driver framework: of its core
(`src/core`, `src/utils`), of its platform framework (`src/support/platform`) and of
those driver models (`src/model`) that keep state of their own. TLC checks the models
on small instances, and TLAPS proves theorems about eight of them for every value of the
constants. `PROJECT.json` maps every definition to the lines it models and lists the
runs, mutants, findings, hazards and theorems.

## 1. The system

HDF loads drivers, gives them a life cycle, publishes the services they offer and
carries calls and events between drivers and user processes. On top of it are
frameworks for classes of devices.

| Component | State | Operations | Interacts with |
|---|---|---|---|
| Device manager (`core/manager/src/devmgr_service.c`, `devhost_service_clnt.c`, `core/common/src/devmgr_service_start.c`) | host clients with `hostPid`, `hostService`, infos still to load, dynamic infos, device tokens | start hosts, second step of quick load, load and unload a dynamic device, attach/detach a device or host, power state change | calls hosts (`AddDevice`, `DelDevice`, `PmNotify`); called by hosts, user processes, and drivers through the service manager |
| Device host and nodes (`core/host/src/devhost_service.c`, `hdf_device.c`, `hdf_device_node.c`) | list of `HdfDevice`, each with its nodes; per node `devStatus`, `servStatus`, the vnode | launch, unlaunch, publish, remove, power callbacks | driver's `Bind`, `Init`, `Release`; service manager, observer, vnode, device manager |
| Service observer (`core/host/src/hdf_service_observer.c`, `hdf_observer_record.c`) | one record per service: publisher, policy, device, subscribers | subscribe, publish, notify | drivers, publication of a node |
| Service manager (`core/manager/src/devsvc_manager.c`, `devsvc_manager_ext.c`, `servstat_listener_holder.c`) | table of service records, list of status listeners | add, update, remove, look up, register listeners and notify | device manager, vnode adapter |
| vnode adapter (`core/adapter/vnode/src/hdf_vnode_adapter.c`) | per node a list of clients (open files), per client a status, a bounded event queue, a wake-up count | open, close, start/stop/exit listening, wake up, poll, read, broadcast, send to one | drivers send; the syscall adapter reads |
| Syscall adapter (`core/adapter/syscall/src/hdf_syscall_adapter.c`) | per process: adapters, listener threads with their poll sets | register and unregister listeners, the listener thread, its destruction | vnode adapter through ioctl and poll |
| Power management (`core/host/src/power_state_token.c`, `hdf_power_manager.c`, `utils/src/hdf_sref.c`, `hdf_task_queue.c`) | per device a state and a reference count; a task queue | acquire, release, directly or through the queue | driver's power callbacks |
| Message looper (`utils/src/hdf_message_looper.c`, `osal_msg_queue.c`, `hdf_message_task.c`) | a queue ordered by time, a thread | send, send delayed, stop | driver models |
| Platform framework (`support/platform/src/fwk`) | events with waiters and listeners, reference-counted devices in managers, message queues with a worker | post, wait, listen; add, find, put, delete; add a message, destroy | controllers of every bus |
| Regulators, DMA, I3C (`support/platform/src/regulator`, `dma`, `i3c`) | a tree of regulators; channels and their transfers; devices, addresses and interrupt slots | enable, disable, force; transfer, interrupt; add, remove, request and free an interrupt | platform framework, hardware |
| Storage (`model/storage/src/mmc`) | a controller with queue, card slot, current device; the state of host and card | plug, unplug, detect, read, SDIO open, claim, release; the command sequences of SD, SDIO and eMMC | platform queue, block layer, hardware |
| Audio (`model/audio`) | graph of components and paths, streams, sleep timer; circular buffers | write a control, trigger a stream, sleep; render and capture | codec registers, DMA |
| WLAN message engine (`model/network/wifi/platform/src/message`) | services with reference counts, dispatchers with priority queues, message contexts | send, dispatch, answer, destroy a service | WLAN driver and its clients |
| Vibrator (`model/misc/vibrator`) | mode, state, sequence, timer, one work item | start once, start a preset, stop | timer, work queue, motor |
| Driver manager and loader, containers, HCS parser, POSIX OSAL, display, input, sensor, light, USB models, other buses, compilers of `src/tools` | | | see section 6 |

### What is hard about it

* **No lock, or too small a lock.** The device manager, the hosts and the devices have
  no mutex at all; `devMgrMutex` covers user processes only. The service manager, the
  observer, the I3C core and the MMC core look at state under a lock, or none, release
  it, and act on what they found. Reference counts are decremented and read in two
  steps (`hdf_sref.c:48`, `shared_obj.h:48`).
* **Waiting.** Events, semaphores and message queues separate the test from the wait;
  a post in between may be lost, a thread may wait for one that waits for it.
* **Half-done work.** A launch, a detection of a card or the enabling of a regulator is
  a chain of calls of which each may fail, and the error path has to undo or tolerate
  what was done.
* **Order of arrival.** A subscriber may come before, during or after the publication;
  a card may be taken out while it is detected; a transfer may end after its client
  gave up.
* **Boundaries.** Circular buffers at their end, 32-bit offsets that wrap, a queue
  counter that differs from the queue, the last channel.
* **Liveness.** The boot thread has to get through whatever fails; a read of a card
  that is taken out has to return; a motor that was started has to stop.

The hazards in `PROJECT.json` put each at its line, with the properties that would
catch it.

### What makes each component correct

* Device manager and hosts: a device is launched at most once; what a failed or
  finished call leaves is all or nothing; Release is called once for every driver that
  was entered; the service table leads only to launched nodes; an `HdfDevice` outlives
  its users; start-up and calls end; a change of the power state reaches every node in
  order.
* Service manager: a listener knows the latest state, and what it was told agrees with
  the table at every moment; nothing is used after it was freed.
* Observer: a subscriber of a published service has its latest interface.
* vnode and syscall adapter: bounded queues, events read and heard in the order they
  were sent, nothing for one who does not listen, broadcasts reach every listener, a
  registration is served until it ends.
* Power: a device is powered exactly while it is held, requests are executed in order.
* Looper, router, platform queue: nothing accepted is lost, repeated or reordered; a
  message has one owner; the worker ends after the last use of the queue.
* Platform devices: deletion ends when, and only when, nobody holds the device.
* Regulators: nothing is on below something that is off. Vibrator: the motor follows
  the last request. DMA: a success means the data are copied. I3C: one device per
  address, one slot per request.
* Storage: one thread on the bus, host and card agree on width, timing, clock and
  voltage, a suitable card is found, reads return.
* Audio: the powered components are those on a complete path; no frame is lost,
  repeated or overwritten.

## 2. The modules

| Module | Models |
|---|---|
| `HdfVNodeAdapter` | the vnode adapter |
| `DevmgrService` | device manager, hosts, devices, nodes; the service table, the vnodes and the tokens as they see them |
| `HdfServiceObserver` | the observer of a host |
| `DevSvcManager` | the service manager with its listeners |
| `HdfSyscallAdapter` | listeners, their thread and its destruction, in a user process |
| `HdfPowerManager`, `PowerNotify` | wake locks and their task queue; the walk of a power state change |
| `HdfMessageLooper` | message tasks, the time-ordered queue, the looper |
| `MessageRouter` | the WLAN message engine on one node |
| `PlatformEvent`, `PlatformDevice`, `SharedDevice` | events; devices, built on the events; the abstract device they implement |
| `PlatformQueue`, `Regulator`, `DmacCore`, `I3cCore` | the components of these names |
| `Vibrator` | the vibrator driver |
| `MmcCntlr` | an MMC controller, its queue, card slot and clients |
| `MmcCommand`, `SdProtocol`, `EmmcProtocol` | sending and retrying; the detection of SD, SDIO and combo cards; of eMMC |
| `AudioSapm`, `AudioRender`, `AudioCapture` | power management of the audio graph; the render and the capture buffer |
| `Core`, `Platform` | two collections of instances of these modules, see below |
| `HdfVNodeAdapterProofs`, `DevSvcManagerProofs`, `DevmgrServiceProofs`, `HdfPowerManagerProofs`, `HdfMessageLooperProofs`, `PlatformDeviceProofs`, `CoreProofs`, `PlatformProofs` | the theorems about the module of that name, with their proofs |
| `MCHdfVNodeAdapter`, `MCDevmgrService`, `MCDevSvcManager`, `MCHdfServiceObserver` | instances of one module |
| `MCCore`, `MCPlatform` | the constants of the two collections |
| `MCStorage`, `MCAudio` | two more collections, with their constants |

A definition carries the name of the function it models where there is one.
Operators marked `Mutant:` are changed forms of the definition that follows; they are
used only to show that a property can fail. The header of each module states its
atomicity: which lock makes what one step.

### The four collections

The modules `Core`, `Platform`, `MCStorage` and `MCAudio` are unions of
specifications. The variable `part` is chosen in the initial state and never changes; a
behaviour runs the component it names and leaves the variables of all others at `Off`.
Components that use the same variable name share the variable. So a run of a collection
explores the disjoint union of the state spaces of its parts, some of which are
several instances of one module: for instance `reg_tree` is one thread on four
regulators with failing hardware, `reg_two` two threads on three. The properties of a
collection are conjunctions of the named invariants of the component modules, one
conjunct per part (`part = "reg_tree" => RegTree!ParentOn /\ ...`); each component's type
invariant is among them. Fairness is stated per part, and only for the parts a liveness
property is about. The components are independent because the code couples them only
through calls that the models contain as a whole (`PlatformDevice` extends
`PlatformEvent`; `HdfPowerManager` has the task queue in it; `MmcCntlr` has the
controller's queue in it). The parts about which a theorem of Section 5 speaks take
their constants from the collection (`Services`, `Callers`, `Senders`, ...), so the
theorem holds for any values of them; the others have theirs written into the instance.

### HdfVNodeAdapter

`clientList`, `status`, `eventQueue`, `eventQueueSize` and `wakeup` are the fields of
the same names. `file` is the phase of the open file behind a client. Every operation
of a client runs under `client->mutex` and is one action. A send holds
`adapter->mutex` over its whole walk but takes each client's mutex separately; `send`
is the walk, one action per client, and opening and destroying a client wait for it.
Each visit has its outcomes as actions: passed over, enqueued (with the oldest event
dropped when the *counter* says the queue is full), out of memory, and the case in
which the counter is at the limit and the queue is empty: then
`HdfVnodeAdapterDropOldEventLocked` unlinks the list head itself, `corrupted` becomes
true and the model stops, since nothing can be said of a corrupted heap.
`lastRead`, `reached` and `late` are history variables that the properties use.
Events are numbers, in the order in which the adapter's mutex admits their senders.

### DevmgrService

Threads run a stack of at most two frames: `loop` is the `InstallDriver` or
`LoadLeftDriver` loop a thread is in, `frame` the `LoadDevice`, `AddDevice` or
`DelDevice` call, with the place it has reached. The actions between `QueryOrAddDevice`
and `LinkNode` are the steps of `DevHostServiceAddDevice` in the order of the code;
those from `FreeInstance` to `FreeDevice` are the error path and the end of
`DelDevice`. Each call that can fail has a branch for it: creation of the host client,
start of a host, memory for the device or the node, the search of the driver, Bind,
Init, each publication, the token. A step is one call; list operations are taken to be
atomic, although the code does not lock them.

`node` is a pool of device nodes, `linked` the ones in a device's list, `devices` the
`HdfDevice` objects by host instance and id, `services` the node each service record
points to, `tokens` the number of tokens per device in the manager. `hostService` is a
number: a host that is started again is a new instance with an empty list.

It is the kernel build: `StartDeviceHost` is a call that returns when the host has
installed its drivers, `hostPid` is assigned only then, and `StopDeviceHost` does not
exist. Through `DeviceManagerDispatch` a device is loaded and never unloaded
(`UnsubscribeService` is NULL); `UnloadDevice` is modelled as the entry of
`IDevmgrService` it is.

### HdfServiceObserver

A call is cut where the code takes or releases a lock. A service is published under a
number, so that "the latest interface" can be told from an earlier one. Records hold
what the code stores: a record that a subscriber made has no policy and no device, and
a publication into it sets the publisher only. The creation of a record, or of a
subscriber, may fail. A device subscribes to a service at most once.

### DevSvcManager

What runs under `devSvcManager->mutex` is one step; a call searches in one and acts in
another, and what it does to the record it found is outside the mutex. A service is
published by one device, which makes one call about it at a time, and a listener file
belongs to one process; everything else interleaves. `ToldIsFound` relates the two sides
of the manager at every moment: whoever was told of a service finds it, with an object no
older than the info it was told, and finds none after it was told of a stop.

### HdfSyscallAdapter

Application threads register and unregister a listener each; the thread of the adapter
polls, reads and calls back. Registration and unregistration hold `adapter->mutex`, the
thread holds `thread->mutex` from the reading of an event to the last callback and takes
`adapter->mutex` for them; `status`, `shouldStop` and the poll descriptors are accessed
without a lock, one step each. Structures are numbered, so that a use of a freed one
shows.

### HdfPowerManager, PowerNotify, HdfMessageLooper, MessageRouter

The counter's increment, decrement and reading are steps of their own, and so is a
driver's Resume or Suspend. The task queue's list changes under its mutex, which its
thread keeps while it runs a task. `PowerNotify` keeps pointers to the device and the
node it is at and reads their links when the driver has returned, while one other thread
loads and deletes: a new device is in the host's list before it has a node, the node is
launched and then appended or the launch fails, and an empty device is freed. In `HdfMessageLooper` the clock is read before the list is searched; time is a
small number that only grows. In `MessageRouter` the router's mutex covers the removal of
a service and each taking of a reference; giving one back is a decrement and a read. The
bounded queues of the WLAN library are external.

### PlatformEvent, PlatformDevice, PlatformQueue

A wait looks at the events under the spin lock and enters its waiter in a second
critical section. A waiter lives on a stack: `LatePostLands` says whether a post that
comes after its thread gave up may reach that thread's next wait. `PlatformDevice` uses
the event's actions unchanged for the wait of a deletion and the post of the last
release. It implements `SharedDevice`: a device is found only between its addition and
its deletion, and it is finished off only when nobody holds it. `PlatformQueue` has its
owner, the worker and clients that wait for their message; the worker frees the queue.

### Regulator, Vibrator, DmacCore, I3cCore

A thread of `Regulator` has a stack of calls, since enabling goes up the tree and a
forced disable goes down, each with the mutexes it keeps. In `Vibrator` the clients,
the timer's callback and the work item share mode, state and sequence; a step is one
access, and an armed timer may fire at any moment. `DmacCore` has the hardware's
channels as an external part that ends transfers with success or an error at any time,
and the interrupt, which calls back in one step and frees the channel in another, so that
a client on a second core runs in between. `I3cCore` has threads that add and remove devices and request and
free interrupts, with the two locks of the code.

### MmcCntlr, MmcCommand, SdProtocol, EmmcProtocol

`MmcCntlr` is about threads: the queue's worker, the slot's interrupt, block reads and
SDIO clients; what a detection sends is one step, and `systemInit`, an attempt at detection
and a read sent directly may fail. The other three are about what a
detection sends: host and card have a state each, a step is one command or a group of
reads, and a fault loses a command or its response. `kind` says what the card can do,
`caps` what the host can; both are chosen at the start from all combinations that the
specifications named in the instance allow.

### AudioSapm, AudioRender, AudioCapture

The graph is a constant; a control switches a path, and `AudioSapmPowerComponents` walks
what the change marked, in the order of the code but in one step, in which no register
fails (the code ignores such failures); streams are triggered and a timer counts towards standby and sleep. In the buffers a unit is a frame
and frames are numbered, so that a lost, repeated or misplaced frame shows; the write
offset wraps at a small modulus as it does at 2^32.

## 3. The runs

| Run | Instance | States | Result |
|---|---|---|---|
| `vnode_events` | 2 files, queues of 2, 3 sends, 1 pending wake-up; symmetric files | 531,859 | its five invariants hold |
| `vnode_drop` | the same | | `DropsOnlyWhenFull` is violated |
| `devmgr_quick` | quick load, 2 hosts, 4 infos, 2 user processes, 3 calls, 4 nodes | 217,463 | its seven invariants hold |
| `devmgr_live` | the same with a driver without Bind and one without Init, 1 user process, 2 calls | 24,686 | `StartFinishes`, `CallsReturn` hold |
| `devmgr_late` | one host with a static and a dynamic device, one kernel thread | | `OneNodePerDevice` is violated |
| `svcmgr` | 2 services, 1 removable; a process with up to 2 listeners; a reader; 3 versions | 814,610 | `TypeOK`, `NoUseAfterFree`, `LatestTold`, `ToldIsFound` hold |
| `core` | 11 parts, see below | 1,488,954 | its seven properties hold |
| `platform` | 15 parts | 625,990 | its eight properties hold |
| `storage` | 11 parts | 214,508 | its four properties hold |
| `audio` | 6 parts | 46,663 | its three properties hold |
| `observer_race` | 1 service, 2 devices, two threads | | `SubscribersConnected` is violated |
| `power_direct` | 1 device, 2 threads, 4 direct requests | | `RefsNotNegative` is violated |

Parts of the collections, with what their bounds are for:

| Part | Instance | Why it is enough |
|---|---|---|
| `observer` | 2 services (one private), 3 devices, 2 publications, one thread | a subscription before, between and after two publications |
| `syscall_serve`, `syscall_fail` | 2 applications without failures; 1 with a failure and 2 events | a registration meets the destruction of the thread; an old and a new thread read one file |
| `power_queue`, `power_mixed` | 2 callers, 2 devices, 3 requests, surplus releases; 3 callers, 2 of them direct, 4 balanced requests | three requests queue behind a running one; a count goes 0, 1, 2 and back while another thread is between its two steps |
| `notify_each`, `notify_order` | 3 nodes of 3 devices in 2 hosts; 3 nodes of 2 devices and a deletion; a change of state each | nodes that share a device, devices that share a host, loads that succeed or fail at each step of a walk |
| `looper_order`, `looper_served` | 2 senders, delays 0 and 1, 3 messages or stops, 2 times; 2 senders without delays, 2 times | an undelayed message overtakes a delayed one, a stop another sender's message; two messages with one wake-up, the clock read before either |
| `router_owned`, `router_answered` | 2 services, 2 dispatchers, 2 messages, queues of 1 and a destruction; queues of 2 | a full queue, a service that goes with a message under way |
| `event` | 3 threads, 2 events, a listener, 3 calls | two waiters and a poster, one of the waiters giving up |
| `device` | an owner, 2 users, 3 references | both users release as the owner deletes |
| `queue_quiet`, `queue_end` | 3 clients, 5 messages; 2 clients, 3 messages and an end at any time | posts of several clients meet one look of the worker |
| `reg_tree`, `reg_add`, `reg_two` | 4 regulators in three levels, 5 calls, a failure; every order of addition; 2 threads | a parent shared by two, a chain of three |
| `vibrator_work`, `vibrator_stop` | 2 clients; 1 client and presets of two pulses, 3 starts | a request while the work item runs |
| `dmac_periph`, `dmac_m2m`, `dmac_stuck` | 2 clients, 3 channels; 1 client, 1 or 3 pieces; hardware that never ends | a channel that is used again, one that waits for the interrupt to free it; more than one piece |
| `i3c_bus`, `i3c_ibi`, `i3c_one` | 2 threads, 3 devices; 3 requests in 2 slots; devices with one address | one more request than slots |
| `mmc_card`, `mmc_read`, `mmc_block`, `mmc_sdio`, `mmc_open` | up to 5 moves of the card, 2 failures of attempts, of `systemInit` or of reads; 2 readers of 2 chunks; 2 SDIO clients; a rescan at opening | in, out and in again before the first detection is over |
| `sd_card`, `sdio_card`, `sdio_combo` | all combinations of host and card, 2 faults, 2 tries; none for combo cards | a fault in an attempt and in its repetition |
| `emmc_card`, `emmc_hs200`, `emmc_fast` | hosts with 1, 4 or 8 lines wired, cards to 52 MHz; HS200; HS400 without faults | every pair of capabilities |
| `sapm_switch`, `sapm_pause`, `sapm_sleep` | 8 components, 4 controls, 3 writes; a stream that is paused; 2 streams and the timer | two paths through one mixer |
| `render_mmap`, `render_write`, `capture_read` | buffers of 8 with offsets modulo 16, 20 frames; a buffer of 5 with reads of 2 | the offset wraps once, the buffer twice; a read meets the end |

`vnode_events`: a queue of two overflows with three events and shows a drop, an order
and a stale counter; two clients are the least for which a walk has a client behind it
and one ahead. `devmgr_quick`: host `sys` has a first-step and a second-step node of one
device, `wlan` two dynamic nodes of one device, and one of these publishes the service
name of a node of `sys`: so every sharing the code allows occurs. Three calls load,
unload and load again, or mix two devices. Four nodes are as many as there are infos; a
fifth would be needed only for a device launched twice, which `OneNodePerDevice`
excludes in that run. `svcmgr` is checked with memory for events
(`OutOfMemory = FALSE`): a notification that cannot be allocated removes and frees the
listener, and TLC then finds a use after free (devsvc_manager_ext.c:77).

**Deadlock** is not checked: in all models the users may stop making calls, and the
counters of calls, events and publications are bounded.

**Fairness** is weak fairness of threads that are inside a call, of workers, listener
threads, dispatchers and loopers, of interrupts and timers that are due, and, where it
says so, of hardware that ends a transfer; nothing is assumed of new calls, of the card
being moved, or of the DMA in the audio models, which may be stuck. The scheduler runs
every thread that is ready, and a driver's callback is assumed to return. `dmac_stuck` has
no fairness of the hardware: its transfers end by their timeout.

**Refinement.** `ImplementsShared` says that the initial state and each step of
`PlatformDevice` are those of `SharedDevice`, or stutter.

### What the violations show

1. `vnode_drop`: stop and exit empty the queue and leave `eventQueueSize`
   (hdf_vnode_adapter.c:382). After the next start, events are dropped from a queue
   that is not full; with an empty queue the list head is freed.
2. `devmgr_late`: a dynamic load that comes while the boot thread is still inside
   `StartDeviceHost` finds `hostPid` negative and starts the host again
   (devmgr_service.c:103). The new instance has no devices; devices are launched twice.
3. `observer_race`: a subscriber can miss a publication (hdf_service_observer.c:72-82).
4. `power_direct`: two threads that release at a count of 1 both pass the test for 0,
   and the count becomes negative (power_state_token.c:119).

`devmgr_quick` holds because its loads come through `DeviceManagerDispatch`, which
serialises them, and because its dynamic devices and its static ones have hosts of
their own. The mutant `DispatchUnlocked` removes the lock and `DevicesOutliveUse`
fails: it is all that protects the device lists.

## 4. Where the models stop short, and what lies beyond

The instances of the passing runs keep away from cases in which the code does not do
what its comments, headers or tests say. TLC shows these on an instance with
other constants or threads, or with the stronger property, except the ones said not to be
in the model; they are listed here so that
nobody takes the properties above for more than they say. (Lines are those of the code
that would have to change.)

| Component | Instance | What goes wrong |
|---|---|---|
| Device host | a user process and a kernel thread load one device | both pass the test at devhost_service.c:79; the device is launched twice |
| Observer | a private service, subscribed to before it is published | the record keeps policy 0 (hdf_service_observer.c:109) and anyone may subscribe |
| Service manager | an update and a registration | the service info is freed while it is read (devsvc_manager.c:143) |
| | a notification cannot be allocated | its listener's holder is removed and freed, also while its own process uses it (devsvc_manager_ext.c:77) |
| Syscall adapter | a thread start that fails, or a thread that exited by itself | the next registration succeeds and nobody polls (hdf_syscall_adapter.c:447, 337) |
| | an unregistration while an event is dispatched | each waits for the other's mutex (lines 860, 599, 115) |
| | destruction of a thread that sets `LISTENER_EXITED` | the thread reads `shouldStop` of a freed structure (line 261) |
| | destruction of a thread that is `STARTED`, and a new registration | it is only told to stop, and may poll once more: two threads read one file, and events are heard out of order (lines 629-631) |
| Power notification | the node or the empty device at which the walk stands is freed, by an unload or by a load that fails | the walk follows freed links (devhost_service.c:107, 141, 144); the property is about walks that end |
| | two threads load at once | a device may be inserted twice (devhost_service.c:48-56); not in the model, which has one loading thread |
| Task queue | its thread cannot be started | the queue takes it for running, and executes nothing (hdf_task_queue.c:113); not in the model |
| Message router | a full queue at the sender's dispatcher | the answer is dropped without a callback (message_dispatcher.c:182) |
| | two releases of one service | both read 0 and destroy it (shared_obj.h:48) |
| Platform event | two listeners for one event | only the first is called (platform_event.c:100) |
| | a waiter is woken, and another thread takes the events before it reads them | the wait succeeds and returns no events (lines 174-176, 134-155) |
| | a post that comes as the waiter gives up | it may end the thread's next wait, whose waiter stays in the list (line 179) |
| Platform device | a put between the two critical sections of the wait | the deletion never returns (platform_device.c:229) |
| | the last put goes on | it reads the name of a device that was freed (platform_device.c:43) |
| | two releases, then a second addition | a left-over event lets the next deletion end under a user (hdf_sref.c:48) |
| Platform queue | destroyed with messages in it | a client waits for its message for ever (platform_queue.c:39) |
| Regulator | no memory for a node, while regulators are added | the tree manager's mutex stays locked (regulator_tree_mgr.c:222-236), or an addition fails with some of the children entered (regulator_core.c:149-152, 212-215); not in the model, which has neither this failure nor this mutex |
| | enable against disable | on below a parent that is off (regulator_core.c:358) |
| | forced disable against enable | deadlock (line 457) |
| | disable of one that is always on | success, and it stays on (line 397) |
| Vibrator | a stop while the timer's callback runs | the vibration does not end (vibrator_haptic.c:320) |
| | an operation of the motor fails | nobody is told, and the motor does not follow; not in the model, where they succeed |
| DMA | two clients, memory to memory | the interrupt frees a channel that is still used (dmac_core.c:527) |
| | a second core | between callback and freeing (lines 526, 527) a client may find no channel, although its transfer has ended |
| | a piece that ends after its timeout | its event ends the next transfer at once (line 193) |
| | both addresses null | the channel is not freed (line 390) |
| | no free channel | the failure is not seen, 65535 is used as an index (line 248) |
| I3C | two threads add one address | both succeed (i3c_core.c:274) |
| | a device asked for under its own address after it got a dynamic one | the list's spin lock stays locked (line 241) |
| | a request in a slot other than the first is freed | it is not (line 649); the hardware's interrupt is never freed either (line 678) |
| | no memory for a request | it returns with the controller locked (lines 606-608) |
| MMC | a rescan while a client has claimed the host | two on the bus (mmc_core.c:131) |
| | a block read during a detection | the reader tests `detecting` without a lock and sends itself, beside the worker (lines 1104-1106, 89-98): two on the bus; `BusExclusive` is claimed of SDIO clients only |
| | `systemInit` fails, or every try at a detection | the card is in and has no device until it is moved (lines 82-87, 90-100) |
| | a claim while the device is deleted | deadlock (mmc_sdio.c:472) |
| | a device deleted between the reading of the pointer and the reference | use after free (mmc_core.c:292) |
| SD | a failed switch to 1.8 V | card at 1.8 V, host at 3.3 V (mmc_protocol.c:2209) |
| | a host without protocol 3.0 | an ultra-high-speed mode at 3.3 V (line 2198) |
| | a combo card | its functions are counted in the wrong response (line 3993); a lost write leaves its halves at different speeds (line 3398) |
| eMMC | HS400 with a failed switch to 8 bits; 200 MHz without HS200; voltages that differ | width, clock or voltage do not agree (lines 1078, 1326, 1049) |
| Audio power | a component without a register; an inverted control; a control of a speaker; a failed register write; a value out of range | power does not follow the path, or the control is not obeyed (audio_sapm.c:982, 1231, 531, 1232, 1222) |
| | two streams; a control written while the card sleeps | a running stream is put to sleep, or the card stays awake (lines 1337, 1375) |
| | a stream is started again after it was stopped and the card fell asleep | its components are not powered up (`AudioPcmPending`, audio_platform_base.c:882-904) |
| Audio buffers | a short part, a copy at the end, a size that does not divide 2^32 | frames are overwritten, misplaced or lost (audio_platform_base.c:513, 345, 359) |
| | the last piece of a capture | more than the client's buffer is handed over (line 678) |

## 5. What is proved

Eight modules of proofs. Each theorem holds for every value of the constants that its
assumptions admit; the runs check the same invariants on one instance each.

| Theorem | Assumptions | States, for any number of |
|---|---|---|
| `HdfVNodeAdapterProofs`: `QueueBoundedThm`, `TypeThm`, `NothingQueuedThm`, `ReadInSendOrderThm`, `BroadcastThm` | `VNodeAssumption` | files, events and wake-ups, any capacity: the invariants of `vnode_events` |
| `DevSvcManagerProofs`: `TypeThm`, `LatestToldThm`, `ToldIsFoundThm` | `SvcMgrAssumption` | services, files and changes: types; a listener knows every service that is not being changed, and what it was told agrees with the table |
| `NoUseAfterFreeThm` | `~OutOfMemory`, `LookedUp \cap Removable = {}` | the same: no record or holder is used after it was freed |
| `DevmgrServiceProofs`: `TypeThm`, `ServicesThm`, `ReleasedThm` | `DevmgrAssumption` | hosts, devices, nodes, threads, calls: types, `ServicesOfLaunchedNodes`, `ReleasedExactlyOnce` |
| `DevicesThm`, `OneNodeThm`, `SettledThm`, `InstalledThm` | and `Serialized` | the same: `DevicesOutliveUse`, `OneNodePerDevice`, `SettledNodes`, `InstalledOrLeft` |
| `HdfPowerManagerProofs`: `HeldIsPoweredThm` | `Direct = {}`, finitely many callers | callers, devices, requests: `HeldIsPowered`, `AsRequested` |
| `CountIsHoldsThm` | `Balanced`, finitely many callers | the same, any of the callers direct: `CountIsHolds` |
| `PlatformDeviceProofs`: `EventsDeliveredThm` | `~LatePostLands`, distinct names | threads, events, listeners, calls: a wait that returns events returns only ones it asked for, in AND mode all of them; it may succeed with none |
| `ImplementsSharedThm` | the same, `MaxAdds <= 1`, finitely many threads | users: `PlatformDevice` implements `SharedDevice`, and `DeadIsLast` |
| `CoreProofs`: `SubscribersConnectedThm`, `HeldIsPoweredThm`, `LooperInOrderThm` | `ObserverAssumption` (one thread), `PowerAssumption`, `LooperAssumption` | services, devices, publications; callers, devices, requests; senders, delays, messages, ticks: the properties of these names of the run `core` |
| `PlatformProofs`: `EventsDeliveredThm`, `ImplementsSharedThm`, `HandledInOrderThm`, `MotorFollowsThm`, `SuccessIsCopiedThm` | `EventAssumption`, `DeviceAssumption`, `QueueAssumption`, `VibratorAssumption`, `DmaAssumption` | threads, events, listeners, calls; users of a device that is added once; clients and messages; clients, presets and starts; clients, channels, pieces and transfers: the properties of these names of the run `platform` |

The theorems of `CoreProofs` and `PlatformProofs` are about the collections. What a step of
a collection does while a part runs is a step of that part's instance, or a stutter, and a
part that runs goes on running (`PowerParts`, `LooperPart`, `EventRuns`, ...); so the
part's invariant, guarded by `part = "..."`, is one of the collection. The proofs of the
observer, the queue, the vibrator and the DMA controllers are written out in these two
modules.

The conditions are those under which the code keeps what it promises; without them it
does not, as the violations of Section 3 and the list of Section 4 show.

* `LookedUp \cap Removable = {}`: a lookup by name returns the object without a
  reference, so a service that is removed while it is looked up is used after it was
  freed. `~OutOfMemory`: a notification that cannot be allocated frees a listener's holder.
* `Serialized`: the calls that load and unload come through `DeviceManagerDispatch`, no
  host has both dynamic and other devices, and no host is listed twice. Otherwise two calls
  about one device race; `devmgr_late` is such a race.
* One thread: two threads that both find no record of a service each make one
  (`observer_race`). A host loads its drivers one after the other, so `Core` assumes it.
* `Direct = {}`: every driver goes through the manager's queue. A driver that calls
  the power state token in its own thread races with others (`power_direct`); then only
  the count can be relied on, and only if callers release what they acquired
  (`Balanced`).
* `WhenQuiet`: the queue is destroyed while no client waits. The part `queue_end` of
  `platform` is the instance without it.
* One client and `DeleteWaits`: the deletion of the timer returns when its callback is
  over. A callback that goes on, or a second client, may start the motor after the stop.
* One client that copies memory, and hardware that answers in time (`Timeouts = FALSE`):
  with two clients the interrupt frees a channel that is still used, and a piece that ends
  after its timeout leaves an event behind. A peripheral's transfer has an address: with
  both null it keeps its channel (Section 4).
* `~LatePostLands`: a post that comes too late does not reach the thread's next wait.
  `MaxAdds <= 1`: two releases at the end of a device's first life may leave an event
  that ends the deletion in its second.

### HdfVNodeAdapter

* `QueueBoundedThm`: `Spec => [](TypeOK /\ QueueBounded)`. The wanted fact is that a
  queue never exceeds `EVENT_QUEUE_MAX`, but the code tests the counter, not the
  queue, and the two differ after a stop. The invariant that carries the proof is
  `Len(queue) <= counter <= EVENT_QUEUE_MAX`: a stop makes the queue shorter and
  keeps the counter, a read shortens both, and a send drops one before it adds one
  when the counter is at the limit. Types need the bound as well: the counter is
  decremented on a read, and stays a natural number only because it covers the queue.
  `QueueSteps` reduces the steps to the six things that can happen to queues;
  `RemoveFacts`, `AppendFacts`, `TailFacts` and `DropFacts` say what the list
  operations do.
* `NothingQueuedThm`: `Spec => []NothingQueuedUnlessListening`. Inductive together
  with `TypeOK`: one step per action.
* `ReadInSendOrderThm`: `Spec => []ReadInSendOrder`. That a file has read its events in
  order says nothing about the next one, so the invariant `OrderInv` is about what is
  still to come: the events a file has read and those it has queued increase together
  (`Increasing`, `Below`); nothing sent is newer than the event of the send under way
  (`SendInv`, `NotNewer`); and a client *ahead* of the walk has not seen that event yet
  (`AheadInv`). The last needs `ListInv`: `clientList` holds each file once, so
  the walk does not meet a client twice. `KeptSteps` shows that every step except the
  delivery keeps the queues in order (`Kept`), and `PopOrder`, `PushOrder` and
  `DropOrder` treat the read, the append and the drop of the oldest event.
* `BroadcastThm`: `Spec => []BroadcastReachesListeners`. The invariant `BehindInv` is
  the mirror image: each client *behind* the walk has been reached, unless it is no
  longer open and listening or began to listen late. The adapter's mutex keeps the list
  fixed during a walk, while clients start, stop and close around it; `ListInv` says
  that every open file is on the list, and `OpeningInv` that a file does not listen
  before its open has returned.

### DevSvcManager

The type invariant needs two facts about calls under way (`RoomToRegister`,
`FoundService`). A record is changed outside the mutex under which its event is sent,
so `LatestTold` is not inductive. `OwnInv` says for each place of the call about a
service whether its record is in the list, and `ToldInv` which of the calls' places
excuse a listener that has not been told: a registration in the middle of an update
sends the new info itself or is followed by the update's notification.
For `NoUseAfterFree`, `HolderInv` says that a holder in the list, or one that a call of
its file is about to use, is not freed, and `ReadInv` that what a lookup has found is
still in the list. `ToldIsFound` is inductive with `OwnInv` and `ValueInv`, which says that
the object of a record is at least as new as its info: `OwnerFacts` reduces the steps of a call to what they do to the record, `OwnerFound`,
`FoundByNotify` and `ClientFound` treat the changes, the events and the listeners' own steps.

### DevmgrService

`ServicesOfLaunchedNodes` and `ReleasedExactlyOnce` follow from `NodeInv`: a node that is
neither free nor in its device's list is owned by exactly one thread, and the place of
that thread determines how far the node has come (`Stage`: its status, whether its
driver was entered, initialised or released, whether it is published). `HostInv` ties
the loops over a host's devices to the host's service. No assumption on who calls what
is needed, so these hold also of the racing calls of `devmgr_late`.

The other four need that calls about one device exclude each other. `SerialInv` derives
it from `Serialized`: one call of the dispatcher at a time, about dynamic devices, and
the boot thread's calls about the others. `InstInv` says which host service is the one
in use and which part of start-up is still to come. On these rest `DelInv`
(which calls delete), `DeviceInv` (the device of a listed node, and of a call that adds
one, is in the host's list), `OneInv` (a device has one node, listed or in the hands of a
call), `TokenInv` (the manager has one token for a listed device, and none for others)
and `LeftInv` (a device is linked or still to load, at any time). `SettledInv`, their
conjunction, is shown to be kept by each of `AddDevice`'s and `DelDevice`'s steps
and by the steps of the manager's loops.

### HdfServiceObserver (in `CoreProofs`)

`ObserverInv`: where the one call under way has come to, and what it knows of the
service's record (`CallInv`); a service has one record at most, of its own, that says
nothing of the policy or what is true (`RecordInv`); its publisher is the last
publication unless one is being announced (`CurrentInv`); whoever subscribed is listed in
the record and has its publication (`SeenInv`). The last is what makes the order of
subscription and publication irrelevant: the subscriber looks at the record before it
enters the list, and the publisher writes the record before it walks the list.

### HdfPowerManager

`HeldIsPowered` speaks of devices no request is under way for, so the invariant follows
each request through the token's functions: `Token(d)` gives for every place of the
queue's thread the count, the holds that are owed and the power state. `Shape` says that
only that thread executes requests, `PostInv` that each queued request has its post.
`AsRequested` compares the holds with the requests made. A surplus release is ignored,
so the number of holds is not a difference of two counts; `OrderInv` states that there
is a sequence of counts that leads through the queue from what is held to what was asked.

`CountIsHolds` is about the count only, with direct callers that interleave with the
queue's thread. `CountInv`: the count is what the direct callers hold, each corrected for
the step it is about to take (`Counted`), plus what is held through the queue now; and
again a sequence of counts leads from there through the requests still to be executed to
what is held when they are (`Flows`). None of these numbers is negative, because nobody
releases what is not held; so a release finds the count above 0, and the two steps of
the counter, with which `power_direct` fails, cannot bring it below.

### HdfMessageLooper

`LooperInOrder` has three invariants in it: types, the order of one sender's messages,
and that a stop comes last. The order is one of the whole line, from the first message
that was dispatched to the last queued (`DoneInv`, `LineInv`, `QueueInv`); only the list
is ordered by time as well. An insertion goes before all messages of a later time, so
the order could break only if a message of the same sender and delay had a later time:
`SendInv` says that none has, because the message in a sender's hand was stamped after
everything its sender has queued and the clock does not go back. Whatever was in the list,
to be dispatched at once, when `HdfMessageLooperStop` was called is either dispatched or
before every stop in the list and not later than every stop in a sender's hand (`StopInv`).
The semaphore is bounded by the messages sent because a sender has not yet posted for
the message in its hand; that is a count of senders, hence the finiteness of `Senders`.

### PlatformQueue (in `PlatformProofs`)

`QueueOrderInv`: the messages handled, the one in the worker's hand and the list are 1, 2, ...
up to the last one added. `NoUseAfterFree` needs a count: every message in the list has
a post, in the semaphore, in the worker's hand or about to be made (`QueuePostInv`), and a
client that waits (`QueueWaitedInv`). If no client waits, the list is empty and no post is left
but the one of `PlatformQueueDestroy`, so the worker frees the queue after the owner's
last use of it (`QueueLifeInv`).

### Vibrator (in `PlatformProofs`)

`MotorInv`: while the motor does not do what the state asks for, the work item is queued,
is about to be (whoever changed the state has still to add it), or runs and has not come to
the read of the state that matters. It is one for both instances, because it looks only at
where the clients, the callback and the work are. `WorkTimersInv` counts: timers, forgotten
ones included, and clients that still have to create one are no more than the vibrations
started, so that a timer is left to create; `WorkSeqInv` keeps the callback within one
step of the end of a sequence that a start may replace under its feet. `StopSilent` is
about one client: from the deletion of the timer, which waits for the callback, to the next start
there is no timer and no callback, so the `STOP` that the client writes stays.

### DmacCore (in `PlatformProofs`)

Transfers of peripherals, any number of clients: `PeriphOwned` ties a client under way to
the channel it was given, with the hardware or the interrupt at work on it, but not both,
`PeriphApart` keeps two of them apart, and `PeriphUnused` says of every other channel that
it is vacant and nothing is left to happen in it, or is allocated still and the interrupt,
which has called back, is about to free it (`PeriphFree`); so nothing that is left to
happen meets a channel that was given to the next client. `LeastExists` finds the channel that is given, the first
vacant one. A client that finds none is `lost`: the code then writes outside its
channels, and the model, and so the theorem, says nothing of what that does.

Copies of memory, one client: `CopyPiece` follows the piece that is under way, in the
hardware, the interrupt or the event, and counts it as copied as soon as the hardware is
done; between pieces `copied = pieces - left`, although the interrupt has freed the
channel after the first, or has called back and will free it under the piece that follows.
With two clients that is a channel another may take, so the
theorem, as the run, is about one (Section 4).

### PlatformEvent, PlatformDevice

`WakeInv` follows a wake-up: the waiter of a thread that waits is in one place only, in
the list (then nothing was posted to it), with the one poster that took it out, or its
semaphore is up. `OnceInList` says that nobody is in the list twice.

Both are in `PlatformDeviceProofs`, because the device uses the event's actions. `CountInv`: the count is the number of holders plus the manager's reference. `DeadInv`:
whatever can tell the owner that the device is dead (the event, a poster on its way, the
semaphore, a wait that has returned) implies that the count is 0, which is then
final, since nobody can find the device any more. So the step that ends
`PlatformDeviceDel` is the abstract one, and every other step maps to one of
`SharedDevice` or to a stutter.

### What stays with TLC

* Liveness under fairness (`StartFinishes`, `CallsReturn`, `NoWakeUpLost`, `EndsAtLast`,
  `CardServed`), which is beyond the prover, as are ENABLED, induction over data and
  RECURSIVE operators (the modules use none).
* The syscall adapter (`ListenersServed`), the walk of a power state change
  (`EachToldInOrder`), the message router (`MessagesOwned`), regulators (`ParentOn`),
  I3C (`OneDevicePerAddress`): checked on the instances of `Core`
  and `Platform`.
* Storage and audio (`BusExclusive`, `BusAgrees`, `CardFound`, `PowerFollowsPaths`,
  `FramesKept`). What a detection or the walk of an audio graph does to given hardware is
  a sequential computation over few values that TLC goes through completely; only
  `BusExclusive` is about any number of threads.

## 6. What is not modelled, and why

* The content of events, messages, service interfaces and registers that no later step
  looks at; sbuf encoding: data the properties do not look at.
* vnode: creation and removal of an adapter, `HDF_WRITE_READ`, read errors. Device
  manager: single list operations are atomic in the model although the code does not
  lock them (the model shows what goes wrong even if they were); a host client whose host
  cannot be started is in the list for a moment (devmgr_service.c:280, 289), in the model
  it never is; the installing loop takes the host's service once
  (devhost_service_clnt.c:30), in the model at each call, which differs only if the host is
  started again meanwhile; device objects; the user-mode build with host processes that die.
* Syscall adapter: groups of services. Service manager: listing by class, which only
  reads. Task queue: its destruction, a thread that cannot be started, want of memory. Message router: start-up, shutdown, remote nodes.
* Platform: voltages and currents of regulators; transfers of I3C; the cores of the
  other buses (GPIO, I2C, SPI, UART, PWM, MIPI and others), most of which lock a
  controller, call one of its operations and keep no state. HDMI does keep state (link
  training in `hdmi_frl.c`, HDCP authentication, the hot-plug queue of `hdmi_event.c`)
  and would repay a module; it is the next part of the plan, not done yet.
* Storage: erase, SDIO transfers and interrupts, MTD, UFS; writes, which follow reads.
  Audio: parsing, codec and DAI registers, dispatch of commands.
* Display, input, sensor, light, USB and Bluetooth models: mostly calls into hardware;
  they appear in `DevmgrService` as drivers whose callbacks succeed or fail.
* `src/tools` (compilers that run at build time), the HCS parser (a sequential reader),
  containers, and the POSIX OSAL, whose semantics the models take as given.

The map covers about 8,600 lines, some 6% of the repository's implementation. The
repository holds many systems side by side; the modules cover the core framework and,
of the models, those whose state and concurrency a checker can say something about.

## 7. Running the checks

    tlc -workers 2 -config VNodeEvents.cfg MCHdfVNodeAdapter
    tlc -workers 2 -config Platform.cfg MCPlatform
    tlapm HdfVNodeAdapterProofs.tla      (and so on for each module of proofs)

Each run needs at most about three minutes; the run's name, module and configuration are
in `PROJECT.json`.

## 8. Plan

Theorems next, in this order: `MmcCntlr`'s `BusExclusive` (the claim, and what each client
knows of it); `MessageRouter`'s `MessagesOwned`; `Regulator`'s `ParentOn` with one thread.

Models next: groups of the syscall adapter, the HDMI core with CEC, the input and sensor
managers, device objects with the allocation of node ids; the containers as operators
against reference definitions.

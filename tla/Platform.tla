------------------------------ MODULE Platform ------------------------------
(* The platform framework: events, devices, queues, regulators, DMA and I3C    *)
(* controllers, and the vibrator.  A behaviour runs one of them, on one of      *)
(* several instances; they share their variables.                               *)
EXTENDS Integers, Sequences, FiniteSets, TLC

CONSTANTS
  EventThreads, Events, Listeners, MaxCalls,  \* of events
  Owner, DEAD, MaxAdds, MaxGets,              \* of a device
  QueueClients, MaxAdded,                     \* of a queue
  VibratorClients, WorkPresets, MaxWorkStarts, \* of a vibrator,
  StopPresets, MaxStopStarts,                 \* and of one that is stopped
  DmaClients, ChannelNum, MaxTransfers,       \* of a DMA controller,
  CopyPieces, MaxCopies,                      \* and of one that copies memory
  none, t1, t2, t3, n1, n2, n3, n4            \* of the other parts

ASSUME EventAssumption ==
  /\ EventThreads \cap Listeners = {}
  /\ "none" \notin EventThreads \cup Listeners
  /\ MaxCalls \in Nat

ASSUME DeviceAssumption ==
  /\ IsFiniteSet(EventThreads) /\ Owner \in EventThreads
  /\ MaxAdds \in {0, 1} /\ MaxGets \in Nat

ASSUME QueueAssumption == IsFiniteSet(QueueClients) /\ MaxAdded \in Nat

ASSUME VibratorAssumption ==
  /\ IsFiniteSet(VibratorClients) /\ MaxWorkStarts \in Nat
  /\ {"timer", "work"} \cap (VibratorClients \cup {t1}) = {}
  /\ \A p \in WorkPresets : p.num \in Nat

\* DMAC_CHAN_NUM_MAX is 100; no piece is empty.
ASSUME DmaAssumption ==
  /\ ChannelNum \in 1..100
  /\ CopyPieces \subseteq Nat \ {0} /\ MaxCopies \in Nat

VARIABLES
  part, \* the part that runs
  eventsWord, waiters, sem, at, call, result, chosen, calls, refs, listed,
  inited, pc, adds, gets, memory, start, msgs, owner, worker, msg, client,
  waitsFor, added, handled, broken, linked, status, lock, stack, fails, mode,
  state, seq, timer, armed, pending, motor, starts, use, info, event, hw, irq,
  chan, kind, pieces, left, serial, copied, addrStatus, list, listLock,
  ibiSlot, ibi, hwIbi, dev, addr, found, requests, crashed

vars == <<part, eventsWord, waiters, sem, at, call, result, chosen, calls, refs,
          listed, inited, pc, adds, gets, memory, start, msgs, owner, worker,
          msg, client, waitsFor, added, handled, broken, linked, status, lock,
          stack, fails, mode, state, seq, timer, armed, pending, motor,
          starts, use, info, event, hw, irq, chan, kind, pieces, left, serial,
          copied, addrStatus, list, listLock, ibiSlot, ibi, hwIbi, dev, addr,
          found, requests, crashed>>

\* The value of the variables of a part that does not run.
Off == "off"

-----------------------------------------------------------------------------
(* PlatformEvent.                                                          *)

\* The part of PlatformDevice that is PlatformEvent, alone.
Event == INSTANCE PlatformDeviceProofs WITH LatePostLands <- FALSE

\* The variables of the other parts.
EventRest == <<refs, listed, inited, pc, adds, gets, memory, start, msgs,
               owner, worker, msg, client, waitsFor, added, handled, broken,
               linked, status, lock, stack, fails, mode, state, seq, timer,
               armed, pending, motor, starts, use, info, event, hw, irq, chan,
               kind, pieces, left, serial, copied, addrStatus, list, listLock,
               ibiSlot, ibi, hwIbi, dev, addr, found, requests, crashed>>
EventAlone ==
  /\ refs = Off /\ listed = Off /\ inited = Off /\ pc = Off /\ adds = Off
  /\ gets = Off /\ memory = Off /\ start = Off /\ msgs = Off /\ owner = Off
  /\ worker = Off /\ msg = Off /\ client = Off /\ waitsFor = Off
  /\ added = Off /\ handled = Off /\ broken = Off /\ linked = Off
  /\ status = Off /\ lock = Off /\ stack = Off /\ fails = Off /\ mode = Off
  /\ state = Off /\ seq = Off /\ timer = Off /\ armed = Off
  /\ pending = Off /\ motor = Off /\ starts = Off /\ use = Off
  /\ info = Off /\ event = Off /\ hw = Off /\ irq = Off /\ chan = Off
  /\ kind = Off /\ pieces = Off /\ left = Off /\ serial = Off
  /\ copied = Off /\ addrStatus = Off /\ list = Off /\ listLock = Off
  /\ ibiSlot = Off /\ ibi = Off /\ hwIbi = Off /\ dev = Off /\ addr = Off
  /\ found = Off /\ requests = Off /\ crashed = Off

\* No call returns while the waiter on its stack is in the list, whether it was
\* woken or gave up as a poster was about to wake it; a thread that was taken out
\* of the list is woken; and a wait that returns events returns only ones it asked
\* for, all of them in PLAT_EVENT_MODE_AND.  It may succeed with none: another
\* thread may take them between the wake-up and the reading (lines 134-155,
\* 174-176).  A post that comes as the waiter gives up does not reach its next wait
\* (LatePostLands = FALSE) (platform_event.c, PlatformEventWait, PlatformEventPost).
EventsDelivered == part = "event" => Event!EventsDelivered

-----------------------------------------------------------------------------
(* PlatformDevice: an owner and two users.                                 *)

Device == INSTANCE PlatformDeviceProofs WITH
  Events <- {DEAD}, Listeners <- {}, LatePostLands <- FALSE, MaxCalls <- 0

\* The variables of the other parts.
DeviceRest == <<memory, start, msgs, owner, worker, msg, client, waitsFor,
                added, handled, broken, linked, status, lock, stack, fails,
                mode, state, seq, timer, armed, pending, motor, starts, use,
                info, event, hw, irq, chan, kind, pieces, left, serial,
                copied, addrStatus, list, listLock, ibiSlot, ibi, hwIbi, dev,
                addr, found, requests, crashed>>
DeviceAlone ==
  /\ memory = Off /\ start = Off /\ msgs = Off /\ owner = Off
  /\ worker = Off /\ msg = Off /\ client = Off /\ waitsFor = Off
  /\ added = Off /\ handled = Off /\ broken = Off /\ linked = Off
  /\ status = Off /\ lock = Off /\ stack = Off /\ fails = Off /\ mode = Off
  /\ state = Off /\ seq = Off /\ timer = Off /\ armed = Off
  /\ pending = Off /\ motor = Off /\ starts = Off /\ use = Off
  /\ info = Off /\ event = Off /\ hw = Off /\ irq = Off /\ chan = Off
  /\ kind = Off /\ pieces = Off /\ left = Off /\ serial = Off
  /\ copied = Off /\ addrStatus = Off /\ list = Off /\ listLock = Off
  /\ ibiSlot = Off /\ ibi = Off /\ hwIbi = Off /\ dev = Off /\ addr = Off
  /\ found = Off /\ requests = Off /\ crashed = Off

\* The count, the event and the manager's list together do what SharedDevice
\* promises: a device that is taken out is finished off when its last user has
\* put it, and the owner is not told that it is dead while somebody has a
\* reference (platform_device.c, platform_manager.c).
ImplementsShared ==
  /\ part = "device" => Device!Shared!Init
  /\ [](part = "device" => Device!DeviceTypeOK /\ Device!DeadIsLast)
  /\ [][part = "device" => [Device!Shared!Next]_(Device!Shared!vars)]_vars

-----------------------------------------------------------------------------
(* PlatformQueue: destroyed while no client waits, and at any time.        *)

QueueQuiet == INSTANCE PlatformQueue WITH
  Clients <- QueueClients, WhenQuiet <- TRUE

QueueEnd == INSTANCE PlatformQueue WITH
  Clients <- {t1, t2}, WhenQuiet <- FALSE, MaxAdded <- 3

\* The variables of the other parts.
QueueRest == <<eventsWord, waiters, at, call, result, chosen, calls, refs,
               listed, inited, pc, adds, gets, linked, status, lock, stack,
               fails, mode, state, seq, timer, armed, pending, motor, starts,
               use, info, event, hw, irq, chan, kind, pieces, left, serial,
               copied, addrStatus, list, listLock, ibiSlot, ibi, hwIbi, dev,
               addr, found, requests, crashed>>
QueueAlone ==
  /\ eventsWord = Off /\ waiters = Off /\ at = Off /\ call = Off
  /\ result = Off /\ chosen = Off /\ calls = Off /\ refs = Off
  /\ listed = Off /\ inited = Off /\ pc = Off /\ adds = Off /\ gets = Off
  /\ linked = Off /\ status = Off /\ lock = Off /\ stack = Off
  /\ fails = Off /\ mode = Off /\ state = Off /\ seq = Off /\ timer = Off
  /\ armed = Off /\ pending = Off /\ motor = Off /\ starts = Off
  /\ use = Off /\ info = Off /\ event = Off /\ hw = Off /\ irq = Off
  /\ chan = Off /\ kind = Off /\ pieces = Off /\ left = Off /\ serial = Off
  /\ copied = Off /\ addrStatus = Off /\ list = Off /\ listLock = Off
  /\ ibiSlot = Off /\ ibi = Off /\ hwIbi = Off /\ dev = Off /\ addr = Off
  /\ found = Off /\ requests = Off /\ crashed = Off

\* Messages are handled in the order they were added, each at most once, whatever
\* the posts of several clients do between their insertions and the worker's look
\* at the list, and nobody uses a queue that was freed (platform_queue.c,
\* PlatformQueueThreadWorker, PlatformQueueDestroy).
HandledInOrder ==
  part = "queue_quiet" =>
    QueueQuiet!TypeOK /\ QueueQuiet!HandledInOrder /\ QueueQuiet!NoUseAfterFree

-----------------------------------------------------------------------------
(* Regulator: n2 and n3 below n1, n4 below n2.                             *)

Tree == (n1 :> none) @@ (n2 :> n1) @@ (n3 :> n1) @@ (n4 :> n2)

RegTree == INSTANCE Regulator WITH
  Nodes <- {n1, n2, n3, n4}, Parent <- Tree, None <- none, AlwaysOn <- {n3},
  Threads <- {t1}, Ops <- {"enable", "disable", "force"}, ParentFirst <- TRUE,
  MaxCalls <- 5, MaxFails <- 1

RegAdd == INSTANCE Regulator WITH
  Nodes <- {n1, n2, n3, n4}, Parent <- Tree, None <- none,
  AlwaysOn <- {n1, n4}, Threads <- {t1}, Ops <- {"enable", "disable"},
  ParentFirst <- FALSE, MaxCalls <- 4, MaxFails <- 0

RegTwo == INSTANCE Regulator WITH
  Nodes <- {n1, n2, n4}, Parent <- Tree, None <- none, AlwaysOn <- {},
  Threads <- {t1, t2}, Ops <- {"enable", "disable"}, ParentFirst <- TRUE,
  MaxCalls <- 3, MaxFails <- 1

\* The variables of the other parts.
RegRest == <<eventsWord, waiters, sem, at, call, chosen, refs, listed, inited,
             pc, adds, gets, memory, start, msgs, owner, worker, msg, client,
             waitsFor, handled, broken, mode, state, seq, timer, armed,
             pending, motor, starts, use, info, event, hw, irq, chan, kind,
             pieces, left, serial, copied, addrStatus, list, listLock,
             ibiSlot, ibi, hwIbi, dev, addr, found, requests, crashed>>
RegAlone ==
  /\ eventsWord = Off /\ waiters = Off /\ sem = Off /\ at = Off
  /\ call = Off /\ chosen = Off /\ refs = Off /\ listed = Off
  /\ inited = Off /\ pc = Off /\ adds = Off /\ gets = Off /\ memory = Off
  /\ start = Off /\ msgs = Off /\ owner = Off /\ worker = Off /\ msg = Off
  /\ client = Off /\ waitsFor = Off /\ handled = Off /\ broken = Off
  /\ mode = Off /\ state = Off /\ seq = Off /\ timer = Off /\ armed = Off
  /\ pending = Off /\ motor = Off /\ starts = Off /\ use = Off
  /\ info = Off /\ event = Off /\ hw = Off /\ irq = Off /\ chan = Off
  /\ kind = Off /\ pieces = Off /\ left = Off /\ serial = Off
  /\ copied = Off /\ addrStatus = Off /\ list = Off /\ listLock = Off
  /\ ibiSlot = Off /\ ibi = Off /\ hwIbi = Off /\ dev = Off /\ addr = Off
  /\ found = Off /\ requests = Off /\ crashed = Off

\* With one thread, and parents added first, no regulator is on below one that is
\* off, whatever was called and whichever drivers failed, and a forced disable that
\* succeeded left everything below the regulator off; with one thread, those that
\* are always on are on, in whatever order regulators were added; and no way out of
\* enable, disable or force leaves the mutex of a regulator locked (regulator_core.c).
\* An addition that finds no memory is left out: it returns with the tree manager's
\* mutex locked (regulator_tree_mgr.c 222-236).
ParentOn ==
  /\ part = "reg_tree" => RegTree!ParentOn /\ RegTree!ForceDisabled /\ RegTree!NoLockLeft
  /\ part = "reg_add" => RegAdd!TypeOK /\ RegAdd!AlwaysOnOn
  /\ part = "reg_two" => RegTwo!NoLockLeft

-----------------------------------------------------------------------------
(* Vibrator: several clients, and one whose vibrations come to an end.     *)

VibratorWork == INSTANCE Vibrator WITH
  Clients <- VibratorClients, Presets <- WorkPresets,
  Ops <- {"once", "preset", "stop"}, DeleteWaits <- FALSE, MaxStarts <- MaxWorkStarts

VibratorStop == INSTANCE Vibrator WITH
  Clients <- {t1}, Presets <- StopPresets, Ops <- {"once", "preset", "stop"},
  DeleteWaits <- TRUE, MaxStarts <- MaxStopStarts

\* The variables of the other parts.
VibratorRest == <<eventsWord, waiters, sem, at, call, result, chosen, calls,
                  refs, listed, inited, adds, gets, memory, start, msgs,
                  owner, worker, msg, client, waitsFor, added, handled,
                  broken, linked, status, lock, stack, fails, use, info,
                  event, hw, irq, chan, kind, pieces, left, serial, copied,
                  addrStatus, list, listLock, ibiSlot, ibi, hwIbi, dev, addr,
                  found, requests, crashed>>
VibratorAlone ==
  /\ eventsWord = Off /\ waiters = Off /\ sem = Off /\ at = Off
  /\ call = Off /\ result = Off /\ chosen = Off /\ calls = Off
  /\ refs = Off /\ listed = Off /\ inited = Off /\ adds = Off /\ gets = Off
  /\ memory = Off /\ start = Off /\ msgs = Off /\ owner = Off
  /\ worker = Off /\ msg = Off /\ client = Off /\ waitsFor = Off
  /\ added = Off /\ handled = Off /\ broken = Off /\ linked = Off
  /\ status = Off /\ lock = Off /\ stack = Off /\ fails = Off /\ use = Off
  /\ info = Off /\ event = Off /\ hw = Off /\ irq = Off /\ chan = Off
  /\ kind = Off /\ pieces = Off /\ left = Off /\ serial = Off
  /\ copied = Off /\ addrStatus = Off /\ list = Off /\ listLock = Off
  /\ ibiSlot = Off /\ ibi = Off /\ hwIbi = Off /\ dev = Off /\ addr = Off
  /\ found = Off /\ requests = Off /\ crashed = Off

\* The one work item never loses a request, whoever asks while it runs: once it
\* has nothing to do, the motor does what was asked for last.  And after a stop it is
\* off until the next start, if there is one client and the deletion of the timer
\* waits for its callback (DeleteWaits) (vibrator_driver.c, VibratorWorkEntry;
\* vibrator_haptic.c, StopHaptic).
MotorFollows ==
  /\ part = "vibrator_work" => VibratorWork!TypeOK /\ VibratorWork!MotorFollows
  /\ part = "vibrator_stop" => VibratorStop!StopSilences

-----------------------------------------------------------------------------
(* DmacCore: several clients; one that copies memory; stuck hardware.      *)

DmacPeriph == INSTANCE DmacCore WITH
  Clients <- DmaClients, NumChannels <- ChannelNum, Kinds <- {"periph"},
  Pieces <- {1}, Timeouts <- FALSE

DmacM2m == INSTANCE DmacCore WITH
  Clients <- {t1}, NumChannels <- ChannelNum, Kinds <- {"periph", "m2m"},
  Pieces <- CopyPieces, Timeouts <- FALSE, MaxTransfers <- MaxCopies

DmacStuck == INSTANCE DmacCore WITH
  Clients <- {t1}, NumChannels <- 3, Kinds <- {"m2m", "null"},
  Pieces <- {1, 2}, Timeouts <- TRUE, MaxTransfers <- 3

\* The variables of the other parts.
DmacRest == <<eventsWord, waiters, sem, at, call, chosen, refs, listed,
              inited, adds, gets, memory, start, msgs, owner, worker, msg,
              client, waitsFor, added, handled, broken, linked, status, lock,
              stack, fails, mode, state, seq, timer, armed, pending, motor,
              starts, addrStatus, list, listLock, ibiSlot, ibi, hwIbi, dev,
              addr, found, requests, crashed>>
DmacAlone ==
  /\ eventsWord = Off /\ waiters = Off /\ sem = Off /\ at = Off
  /\ call = Off /\ chosen = Off /\ refs = Off /\ listed = Off
  /\ inited = Off /\ adds = Off /\ gets = Off /\ memory = Off
  /\ start = Off /\ msgs = Off /\ owner = Off /\ worker = Off /\ msg = Off
  /\ client = Off /\ waitsFor = Off /\ added = Off /\ handled = Off
  /\ broken = Off /\ linked = Off /\ status = Off /\ lock = Off
  /\ stack = Off /\ fails = Off /\ mode = Off /\ state = Off /\ seq = Off
  /\ timer = Off /\ armed = Off /\ pending = Off /\ motor = Off
  /\ starts = Off /\ addrStatus = Off /\ list = Off /\ listLock = Off
  /\ ibiSlot = Off /\ ibi = Off /\ hwIbi = Off /\ dev = Off /\ addr = Off
  /\ found = Off /\ requests = Off /\ crashed = Off

\* Two transfers of peripherals under way never share a channel, and their
\* callbacks are called once, when they have ended; a copy of memory by one client
\* that reports success has copied all of its pieces; and a channel that nobody uses
\* is given back, whether its transfer was refused, failed or succeeded.  Of four
\* cases this says nothing: a transfer of a peripheral with both addresses null,
\* which keeps its channel (dmac_core.c 390-393); hardware that answers after the
\* timeout (193; Timeouts = FALSE); two clients that copy memory (527); and a client
\* that finds no channel (248) (dmac_core.c, DmacAllocateChannel, DmacIsr,
\* DmacM2mTransfer).
SuccessIsCopied ==
  /\ part = "dmac_periph" =>
       DmacPeriph!ChannelExclusive /\ DmacPeriph!CalledOnce /\ DmacPeriph!ChannelsBack
  /\ part = "dmac_m2m" =>
       /\ DmacM2m!TypeOK /\ DmacM2m!SuccessIsCopied
       /\ DmacM2m!CalledOnce /\ DmacM2m!ChannelsBack

-----------------------------------------------------------------------------
(* I3cCore: three devices, two of them with one identity.                  *)

AddrTwo  == (n1 :> 1) @@ (n2 :> 2) @@ (n3 :> 3)
AddrSame == (n1 :> 1) @@ (n2 :> 1)
NoDyna   == [x \in {n1, n2, n3} |-> 0]
Pids     == (n1 :> 1) @@ (n2 :> 2) @@ (n3 :> 2)

I3cBus == INSTANCE I3cCore WITH
  Actors <- {t1, t2}, Devices <- {n1, n2, n3}, addrOf <- AddrTwo,
  dynaAddrOf <- NoDyna, pidOf <- Pids, Addresses <- {1, 2, 3}, Reserved <- {},
  IbiMax <- 2, MayFail <- FALSE, MaxRequests <- 0

I3cIbi == INSTANCE I3cCore WITH
  Actors <- {t1}, Devices <- {n1, n2, n3}, addrOf <- AddrTwo,
  dynaAddrOf <- NoDyna, pidOf <- Pids, Addresses <- {1, 2, 3, 4},
  Reserved <- {}, IbiMax <- 2, MayFail <- FALSE, MaxRequests <- 3

I3cOne == INSTANCE I3cCore WITH
  Actors <- {t1}, Devices <- {n1, n2}, addrOf <- AddrSame,
  dynaAddrOf <- NoDyna, pidOf <- Pids, Addresses <- {1, 2, 3, 4},
  Reserved <- {}, IbiMax <- 2, MayFail <- TRUE, MaxRequests <- 1

\* The variables of the other parts.
I3cRest == <<eventsWord, waiters, sem, at, call, result, chosen, calls, refs,
             listed, inited, adds, gets, memory, start, msgs, owner, worker,
             msg, client, waitsFor, added, handled, broken, linked, status,
             stack, fails, mode, state, seq, timer, armed, pending, motor,
             starts, use, info, event, hw, irq, chan, kind, pieces, left,
             serial, copied>>
I3cAlone ==
  /\ eventsWord = Off /\ waiters = Off /\ sem = Off /\ at = Off
  /\ call = Off /\ result = Off /\ chosen = Off /\ calls = Off
  /\ refs = Off /\ listed = Off /\ inited = Off /\ adds = Off /\ gets = Off
  /\ memory = Off /\ start = Off /\ msgs = Off /\ owner = Off
  /\ worker = Off /\ msg = Off /\ client = Off /\ waitsFor = Off
  /\ added = Off /\ handled = Off /\ broken = Off /\ linked = Off
  /\ status = Off /\ stack = Off /\ fails = Off /\ mode = Off
  /\ state = Off /\ seq = Off /\ timer = Off /\ armed = Off
  /\ pending = Off /\ motor = Off /\ starts = Off /\ use = Off
  /\ info = Off /\ event = Off /\ hw = Off /\ irq = Off /\ chan = Off
  /\ kind = Off /\ pieces = Off /\ left = Off /\ serial = Off /\ copied = Off

\* Devices in the list have addresses and identities of their own, when devices of
\* one address are added by one thread, and are reached under them; a request is
\* in one slot as long as its device has it, and no two devices share one; and one
\* thread that is given memory leaves no lock behind.  Not claimed, because it is not
\* so: that a slot other than the first is given again (lines 648-649); that a
\* request refused for want of memory unlocks the controller (606-608); that two
\* threads cannot add devices of one address (274) (i3c_core.c, I3cDeviceAdd,
\* I3cDeviceRemove, GetDeviceByAddr, I3cCntlrRequestIbi, I3cCntlrFreeIbi).
OneDevicePerAddress ==
  /\ part = "i3c_bus" => I3cBus!OneDevicePerAddress
  /\ part = "i3c_one" => I3cOne!OneDevicePerAddress
  /\ part = "i3c_ibi" =>
       /\ I3cIbi!TypeOK /\ I3cIbi!NoLockLeft
       /\ I3cIbi!RequestInOneSlot /\ I3cIbi!ListedIsReachable

\* What was begun ends: a client of a queue that is destroyed only while nobody
\* waits gets its answer, and a queue that is destroyed at any time is freed with its
\* thread (platform_queue.c); calls of two threads that go up a tree of regulators,
\* to enable and to disable, return (regulator_core.c; a forced disable, which goes
\* down, can deadlock with them, line 457); the motor of one client is stopped
\* (vibrator_haptic.c, with DeleteWaits); and a transfer ends, of a peripheral if the
\* hardware ends it, from memory to memory also if that is stuck (dmac_core.c,
\* DmacWaitM2mSendComplete).
EndsAtLast ==
  /\ \A k \in QueueClients : []<>(part = "queue_quiet" => client[k] = "idle")
  /\ []<>(part = "queue_end" /\ owner \in {"destroy", "done"}
            => memory = "freed" /\ worker \in {"gone", "none"})
  /\ \A t \in {t1, t2} : []<>(part = "reg_two" => stack[t] = <<>>)
  /\ []<>(part = "vibrator_stop" => motor = "off")
  /\ \A k \in DmaClients : []<>(part = "dmac_periph" => pc[k] = "idle")
  /\ []<>(part = "dmac_stuck" => pc[t1] = "idle")

-----------------------------------------------------------------------------
\* One part is chosen at the start and runs on.
Init ==
  \/ part = "event" /\ EventAlone /\ Event!Init
  \/ part = "device" /\ DeviceAlone /\ Device!DeviceInit
  \/ part = "queue_quiet" /\ QueueAlone /\ QueueQuiet!Init
  \/ part = "queue_end" /\ QueueAlone /\ QueueEnd!Init
  \/ part = "reg_tree" /\ RegAlone /\ RegTree!Init
  \/ part = "reg_add" /\ RegAlone /\ RegAdd!Init
  \/ part = "reg_two" /\ RegAlone /\ RegTwo!Init
  \/ part = "vibrator_work" /\ VibratorAlone /\ VibratorWork!Init
  \/ part = "vibrator_stop" /\ VibratorAlone /\ VibratorStop!Init
  \/ part = "dmac_periph" /\ DmacAlone /\ DmacPeriph!Init
  \/ part = "dmac_m2m" /\ DmacAlone /\ DmacM2m!Init
  \/ part = "dmac_stuck" /\ DmacAlone /\ DmacStuck!Init
  \/ part = "i3c_bus" /\ I3cAlone /\ I3cBus!Init
  \/ part = "i3c_ibi" /\ I3cAlone /\ I3cIbi!Init
  \/ part = "i3c_one" /\ I3cAlone /\ I3cOne!Init

Next ==
  \/ part = "event" /\ Event!Next /\ UNCHANGED <<part, EventRest>>
  \/ part = "device" /\ Device!DeviceNext /\ UNCHANGED <<part, DeviceRest>>
  \/ part = "queue_quiet" /\ QueueQuiet!Next /\ UNCHANGED <<part, QueueRest>>
  \/ part = "queue_end" /\ QueueEnd!Next /\ UNCHANGED <<part, QueueRest>>
  \/ part = "reg_tree" /\ RegTree!Next /\ UNCHANGED <<part, RegRest>>
  \/ part = "reg_add" /\ RegAdd!Next /\ UNCHANGED <<part, RegRest>>
  \/ part = "reg_two" /\ RegTwo!Next /\ UNCHANGED <<part, RegRest>>
  \/ part = "vibrator_work" /\ VibratorWork!Next /\ UNCHANGED <<part, VibratorRest>>
  \/ part = "vibrator_stop" /\ VibratorStop!Next /\ UNCHANGED <<part, VibratorRest>>
  \/ part = "dmac_periph" /\ DmacPeriph!Next /\ UNCHANGED <<part, DmacRest>>
  \/ part = "dmac_m2m" /\ DmacM2m!Next /\ UNCHANGED <<part, DmacRest>>
  \/ part = "dmac_stuck" /\ DmacStuck!Next /\ UNCHANGED <<part, DmacRest>>
  \/ part = "i3c_bus" /\ I3cBus!Next /\ UNCHANGED <<part, I3cRest>>
  \/ part = "i3c_ibi" /\ I3cIbi!Next /\ UNCHANGED <<part, I3cRest>>
  \/ part = "i3c_one" /\ I3cOne!Next /\ UNCHANGED <<part, I3cRest>>

\* Each component's own fairness, while it runs.
Fairness ==
  /\ WF_(QueueQuiet!vars)(part = "queue_quiet" /\ QueueQuiet!OwnerStep)
  /\ WF_(QueueQuiet!vars)(part = "queue_quiet" /\ QueueQuiet!WorkerStep)
  /\ \A k \in QueueClients : WF_(QueueQuiet!vars)(part = "queue_quiet" /\ QueueQuiet!ClientStep(k))
  /\ WF_(QueueEnd!vars)(part = "queue_end" /\ QueueEnd!OwnerStep)
  /\ WF_(QueueEnd!vars)(part = "queue_end" /\ QueueEnd!WorkerStep)
  /\ \A k \in {t1, t2} : WF_(QueueEnd!vars)(part = "queue_end" /\ QueueEnd!ClientStep(k))
  /\ \A t \in {t1, t2} : WF_(RegTwo!vars)(part = "reg_two" /\ RegTwo!Step(t))
  /\ WF_(VibratorStop!vars)(part = "vibrator_stop" /\ VibratorStop!TimerStep)
  /\ WF_(VibratorStop!vars)(part = "vibrator_stop" /\ VibratorStop!WorkStep)
  /\ WF_(VibratorStop!vars)(part = "vibrator_stop" /\ VibratorStop!ClientStep(t1))
  /\ \A k \in DmaClients : WF_(DmacPeriph!vars)(part = "dmac_periph" /\ DmacPeriph!ThreadStep(k))
  /\ \A ch \in 0..(ChannelNum - 1) :
       /\ WF_(DmacPeriph!vars)(part = "dmac_periph" /\ DmacPeriph!IsrStep(ch))
       /\ WF_(DmacPeriph!vars)(part = "dmac_periph" /\ DmacPeriph!HwStep(ch))
  /\ WF_(DmacStuck!vars)(part = "dmac_stuck" /\ DmacStuck!ThreadStep(t1))

Spec == Init /\ [][Next]_vars /\ Fairness
=============================================================================

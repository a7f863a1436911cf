------------------------------ MODULE I3cCore ------------------------------
(***************************************************************************)
(* The core of the I3C bus: the devices of one controller, the status of   *)
(* the addresses, and the in-band interrupts that clients request for a    *)
(* device and that occupy the controller's few slots.                      *)
(*                                                                         *)
(* The list of devices and the controller have a lock each; the status of  *)
(* an address is read without one.                                         *)
(* Mapped code: i3c_core.c.                                                *)
(***************************************************************************)
EXTENDS Integers, Sequences, FiniteSets, FiniteSetsExt, TLC

CONSTANTS
  Actors,       \* threads that call the core
  Devices,
  addrOf,       \* the address of each device
  dynaAddrOf,   \* its dynamic address, or 0
  pidOf,        \* its identity
  Addresses,
  Reserved,     \* the addresses reserved by the standard
  IbiMax,       \* I3C_IBI_MAX
  MaxRequests,  \* bound on the interrupts requested
  MayFail       \* may the memory for a request be refused?

None == "none"
Slots == 1..IbiMax

VARIABLES
  addrStatus,   \* addrSlot: "free", "reserved" or "device"
  list,         \* g_i3cDeviceList
  listLock,     \* who holds g_listLock
  lock,         \* who holds the controller's lock
  ibiSlot,      \* the requests in the controller's slots, 0 for none
  ibi,          \* per device: its request, 0 for none
  hwIbi,        \* external: per device, does the hardware send interrupts?
  pc, dev, addr,\* per actor: where it is, and its arguments
  found,        \* per actor: what GetDeviceByAddr returned
  requests,     \* what MaxRequests bounds: the number of the next request
  crashed       \* was a request used that does not exist?

bus == <<addrStatus, list>>
slots == <<ibiSlot, ibi, hwIbi>>
vars == <<bus, listLock, lock, slots, pc, dev, addr, found, requests, crashed>>

TypeOK ==
  /\ addrStatus \in [Addresses -> {"free", "reserved", "device"}]
  /\ list \in Seq(Devices)
  /\ listLock \in Actors \cup {None} /\ lock \in Actors \cup {None}
  /\ ibiSlot \in [Slots -> 0..MaxRequests] /\ ibi \in [Devices -> 0..MaxRequests]
  /\ hwIbi \in [Devices -> BOOLEAN]
  /\ pc \in [Actors -> {"idle", "set", "insert", "unlist", "request", "slot", "free", "release"}]
  /\ dev \in [Actors -> Devices \cup {None}] /\ addr \in [Actors -> Addresses \cup {0}]
  /\ found \in [Actors -> Devices \cup {None}]
  /\ requests \in 0..MaxRequests /\ crashed \in BOOLEAN

\* I3cCntlrAdd with I3cInitAddrStatus.
Init ==
  /\ addrStatus = [a \in Addresses |-> IF a \in Reserved THEN "reserved" ELSE "free"]
  /\ list = << >> /\ listLock = None /\ lock = None
  /\ ibiSlot = [s \in Slots |-> 0] /\ ibi = [d \in Devices |-> 0]
  /\ hwIbi = [d \in Devices |-> FALSE]
  /\ pc = [t \in Actors |-> "idle"] /\ dev = [t \in Actors |-> None]
  /\ addr = [t \in Actors |-> 0] /\ found = [t \in Actors |-> None]
  /\ requests = 0 /\ crashed = FALSE

Goto(t, step) == pc' = [pc EXCEPT ![t] = step]

\* The call returns.
Return(t) ==
  /\ Goto(t, "idle") /\ dev' = [dev EXCEPT ![t] = None]
  /\ addr' = [addr EXCEPT ![t] = 0] /\ found' = [found EXCEPT ![t] = None]

-----------------------------------------------------------------------------
(* I3cDeviceAdd and I3cDeviceRemove.                                       *)

\* Mutant: the status of the address is not read.
AddUnchecked(t, d) ==
  /\ pc[t] = "idle" /\ d \notin Range(list)
  /\ \A u \in Actors : pc[u] \in {"set", "insert"} => dev[u] # d
  /\ Goto(t, "set") /\ dev' = [dev EXCEPT ![t] = d]
  /\ UNCHANGED <<bus, listLock, lock, slots, addr, found, requests, crashed>>

\* The address is free.  A device is added by one actor at a time.
I3cDeviceAdd(t, d) ==
  /\ pc[t] = "idle" /\ d \notin Range(list)
  /\ \A u \in Actors : pc[u] \in {"set", "insert"} => dev[u] # d
  /\ addrStatus[addrOf[d]] = "free"
  /\ Goto(t, "set") /\ dev' = [dev EXCEPT ![t] = d]
  /\ UNCHANGED <<bus, listLock, lock, slots, addr, found, requests, crashed>>

\* SetAddrStatus, under the controller's lock.
AddSetsStatus(t) ==
  /\ pc[t] = "set" /\ lock = None
  /\ addrStatus' = [addrStatus EXCEPT ![addrOf[dev[t]]] = "device"]
  /\ Goto(t, "insert")
  /\ UNCHANGED <<list, listLock, lock, slots, dev, addr, found, requests, crashed>>

\* Is a device of this identity in the list?
Exists(d) == \E e \in Range(list) : pidOf[e] = pidOf[d]

\* Under the lock of the list.  A device of a known identity takes its address
\* out of use.
AddInserts(t) ==
  /\ pc[t] = "insert" /\ listLock = None
  /\ IF Exists(dev[t])
     THEN /\ lock = None
          /\ addrStatus' = [addrStatus EXCEPT ![addrOf[dev[t]]] = "reserved"]
          /\ UNCHANGED list
     ELSE list' = Append(list, dev[t]) /\ UNCHANGED addrStatus
  /\ Return(t)
  /\ UNCHANGED <<listLock, lock, slots, requests, crashed>>

I3cDeviceRemove(t, d) ==
  /\ pc[t] = "idle" /\ d \in Range(list) /\ lock = None
  /\ \A u \in Actors : pc[u] = "unlist" => dev[u] # d
  /\ addrStatus' = [addrStatus EXCEPT ![addrOf[d]] = "reserved"]
  /\ Goto(t, "unlist") /\ dev' = [dev EXCEPT ![t] = d]
  /\ UNCHANGED <<list, listLock, lock, slots, addr, found, requests, crashed>>

RemoveUnlists(t) ==
  /\ pc[t] = "unlist" /\ listLock = None
  /\ list' = SelectSeq(list, LAMBDA e : e # dev[t])
  /\ Return(t)
  /\ UNCHANGED <<addrStatus, listLock, lock, slots, requests, crashed>>

-----------------------------------------------------------------------------
(* GetDeviceByAddr.                                                        *)

Matches(d, a) == dynaAddrOf[d] = a \/ (dynaAddrOf[d] = 0 /\ addrOf[d] = a)

Matching(a) == SelectSeq(list, LAMBDA d : Matches(d, a))

\* The status of the address is read; then the list is locked and searched.
\* The lock is released where a device is found, and only there.
GetDeviceByAddr(t, a, then) ==
  IF addrStatus[a] # "device" THEN Return(t) /\ UNCHANGED listLock
  ELSE /\ listLock = None
       /\ IF Matching(a) = << >> THEN Return(t) /\ listLock' = t
          ELSE /\ found' = [found EXCEPT ![t] = Head(Matching(a))] /\ Goto(t, then)
               /\ UNCHANGED <<dev, addr, listLock>>

-----------------------------------------------------------------------------
(* I3cCntlrRequestIbi and I3cCntlrFreeIbi.                                 *)

I3cCntlrRequestIbi(t, a) ==
  /\ pc[t] = "idle" /\ requests < MaxRequests
  /\ Goto(t, "request") /\ addr' = [addr EXCEPT ![t] = a]
  /\ UNCHANGED <<bus, listLock, lock, slots, dev, found, requests, crashed>>

RequestLooksUp(t) ==
  /\ pc[t] = "request"
  /\ GetDeviceByAddr(t, addr[t], "slot")
  /\ UNCHANGED <<bus, lock, slots, requests, crashed>>

FreeSlots == {s \in Slots : ibiSlot[s] = 0}

\* Under the controller's lock: the first free slot takes the request, and the
\* hardware is told; without one the request is refused.
RequestTakesSlot(t) ==
  /\ pc[t] = "slot" /\ lock = None
  /\ IF FreeSlots = {} \/ requests = MaxRequests THEN UNCHANGED <<slots, requests>>
     ELSE /\ requests' = requests + 1
          /\ ibiSlot' = Min(FreeSlots) :> (requests + 1) @@ ibiSlot
          /\ ibi' = [ibi EXCEPT ![found[t]] = requests + 1]
          /\ hwIbi' = [hwIbi EXCEPT ![found[t]] = TRUE]
  /\ Return(t)
  /\ UNCHANGED <<bus, listLock, lock, crashed>>

\* There is no memory for the request: the call returns with the controller
\* locked.
RequestOutOfMemory(t) ==
  /\ MayFail /\ pc[t] = "slot" /\ lock = None /\ FreeSlots # {}
  /\ lock' = t /\ Return(t)
  /\ UNCHANGED <<bus, listLock, slots, requests, crashed>>

I3cCntlrFreeIbi(t, a) ==
  /\ pc[t] = "idle"
  /\ Goto(t, "free") /\ addr' = [addr EXCEPT ![t] = a]
  /\ UNCHANGED <<bus, listLock, lock, slots, dev, found, requests, crashed>>

FreeLooksUp(t) ==
  /\ pc[t] = "free"
  /\ GetDeviceByAddr(t, addr[t], "release")
  /\ UNCHANGED <<bus, lock, slots, requests, crashed>>

\* The search of the slots ends with the first: it is released if it holds the
\* device's request.  No lock is taken, and the hardware is not told.
FreeReleases(t) ==
  /\ pc[t] = "release"
  /\ IF ibi[found[t]] # 0 /\ ibiSlot[1] = ibi[found[t]]
     THEN /\ ibiSlot' = [ibiSlot EXCEPT ![1] = 0]
          /\ ibi' = [ibi EXCEPT ![found[t]] = 0]
     ELSE UNCHANGED <<ibiSlot, ibi>>
  /\ Return(t)
  /\ UNCHANGED <<bus, listLock, lock, hwIbi, requests, crashed>>

\* I3cCntlrIbiCallback, from the interrupt of a device.
I3cCntlrIbiCallback(d) ==
  /\ hwIbi[d] /\ ibi[d] = 0
  /\ crashed' = TRUE
  /\ UNCHANGED <<bus, listLock, lock, slots, pc, dev, addr, found, requests>>

Next ==
  \/ \E t \in Actors, d \in Devices : I3cDeviceAdd(t, d)
  \/ \E t \in Actors : AddSetsStatus(t)
  \/ \E t \in Actors : AddInserts(t)
  \/ \E t \in Actors, d \in Devices : I3cDeviceRemove(t, d)
  \/ \E t \in Actors : RemoveUnlists(t)
  \/ \E t \in Actors, a \in Addresses : I3cCntlrRequestIbi(t, a)
  \/ \E t \in Actors : RequestLooksUp(t)
  \/ \E t \in Actors : RequestTakesSlot(t)
  \/ \E t \in Actors : RequestOutOfMemory(t)
  \/ \E t \in Actors, a \in Addresses : I3cCntlrFreeIbi(t, a)
  \/ \E t \in Actors : FreeLooksUp(t)
  \/ \E t \in Actors : FreeReleases(t)
  \/ \E d \in Devices : I3cCntlrIbiCallback(d)

Spec == Init /\ [][Next]_vars

-----------------------------------------------------------------------------
\* Devices in the list have addresses and identities of their own
\* (i3c_core.c 267-309).
OneDevicePerAddress ==
  \A d, e \in Range(list) : d # e => addrOf[d] # addrOf[e] /\ pidOf[d] # pidOf[e]

\* An actor that has returned has left no lock behind (i3c_core.c 206-244, 569-622).
NoLockLeft == \A t \in Actors : pc[t] = "idle" => listLock # t /\ lock # t

\* A request of a device is in exactly one slot (i3c_core.c 569-661).
RequestInOneSlot ==
  \A d \in Devices : ibi[d] # 0 => Cardinality({s \in Slots : ibiSlot[s] = ibi[d]}) = 1

\* A device that is in the list is reached under its address (i3c_core.c
\* 206-244, 311-325).
ListedIsReachable ==
  (\A t \in Actors : pc[t] = "idle") => \A d \in Range(list) : addrStatus[addrOf[d]] = "device"
=============================================================================

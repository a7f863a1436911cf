---------------------------- MODULE PowerNotify ----------------------------
(***************************************************************************)
(* A change of the system's power state: DevmgrServicePowerStateChange     *)
(* walks the hosts, DevHostServicePmNotify the devices of a host and       *)
(* ApplyDevicesPowerState the nodes of a device, all without a lock, while *)
(* another thread, one call at a time, adds devices to the hosts, in steps *)
(* that may fail, and deletes them.                                        *)
(*                                                                         *)
(* The lists are sequences.  A walk keeps a pointer to the device and to   *)
(* the node it is at, and reads their links when the driver's callback has *)
(* returned.                                                               *)
(***************************************************************************)
EXTENDS Integers, Sequences, SequencesExt, FiniteSets

CONSTANTS Nodes, HostOf, DeviceOf, \* the nodes, the host and the device of each
          HostList,                \* the hosts, in the order of devmgr->hosts
          Null, Freed,             \* the end of a list, and memory that has been freed
          MaxWalks, MaxDels

Devices == {DeviceOf[n] : n \in Nodes}
Host(d) == HostOf[CHOOSE n \in Nodes : DeviceOf[n] = d]

VARIABLES
    devices, \* hostService->devices, of every host
    nodes,   \* device->devNodes, of every device
    walk,    \* the walk: its state, the host's position, and the pointers
    calls,   \* the nodes it has called, in this order
    stayed,  \* the nodes that were there when it began and have been ever since
    born,    \* the devices and nodes there are, in the order in which they were inserted
    walks, dels,
    loading  \* the call of the loading thread: the node it is about, and how far it is

pnVars == <<devices, nodes, walk, calls, stayed, born, walks, dels, loading>>

NoCall == [at |-> "idle", node |-> Null]
NoWalk == [state |-> "none", host |-> 0, dev |-> Null, node |-> Null, at |-> "idle"]
Attached == UNION {ToSet(nodes[d]) : d \in Devices}

Init ==
    /\ devices = [h \in ToSet(HostList) |-> <<>>] /\ nodes = [d \in Devices |-> <<>>]
    /\ walk = NoWalk /\ calls = <<>> /\ stayed = {} /\ born = <<>> /\ walks = 0 /\ dels = 0
    /\ loading = NoCall

(***************************************************************************)
(* The lists.                                                              *)
(***************************************************************************)
Listed(d) == d \in ToSet(devices[Host(d)])
Without(s, x) == SelectSeq(s, LAMBDA y : y # x)

\* A device that is new is inserted before it has a node.
DevHostServiceQueryOrAddDevice(d) ==
    IF Listed(d) THEN UNCHANGED <<devices, born>>
    ELSE /\ devices' = [devices EXCEPT ![Host(d)] = <<d>> \o @]
         /\ born' = Append(born, d)

DevHostServiceAddDevice(n) ==
    /\ loading = NoCall /\ n \notin Attached
    /\ DevHostServiceQueryOrAddDevice(DeviceOf[n])
    /\ loading' = [at |-> "launch", node |-> n]
    /\ UNCHANGED <<nodes, walk, calls, stayed, walks, dels>>

\* The node is launched, and only then a node of the device.
HdfDeviceAttach ==
    LET n == loading.node IN
    /\ loading.at = "launch" /\ loading' = NoCall
    /\ nodes' = [nodes EXCEPT ![DeviceOf[n]] = Append(@, n)]
    /\ born' = Append(born, n)
    /\ UNCHANGED <<devices, walk, calls, stayed, walks, dels>>

\* There is no driver, or the launch fails: an empty device goes; or there is no memory
\* for a node: it stays, with no node in it.
AddDeviceFails ==
    /\ loading.at = "launch"
    /\ loading' \in {[loading EXCEPT !.at = "error"], NoCall}
    /\ UNCHANGED <<devices, nodes, walk, calls, stayed, born, walks, dels>>

\* The node leaves its list, and is freed.
DevHostServiceDelDevice(n) ==
    /\ loading = NoCall /\ n \in Attached /\ dels < MaxDels /\ dels' = dels + 1
    /\ nodes' = [nodes EXCEPT ![DeviceOf[n]] = Without(@, n)]
    /\ born' = Without(born, n)
    /\ walk' = [walk EXCEPT !.node = IF @ = n THEN Freed ELSE @]
    /\ stayed' = stayed \ {n}
    /\ loading' = [at |-> "error", node |-> n]
    /\ UNCHANGED <<devices, calls, walks>>

\* A call that failed, and one that deleted a node, frees the device when it has no node.
DevHostServiceFreeDevice ==
    LET d == DeviceOf[loading.node] IN
    /\ loading.at = "error" /\ loading' = NoCall
    /\ IF nodes[d] = <<>>
       THEN /\ devices' = [devices EXCEPT ![Host(d)] = Without(@, d)]
            /\ born' = Without(born, d)
            /\ walk' = [walk EXCEPT !.dev = IF @ = d THEN Freed ELSE @]
       ELSE UNCHANGED <<devices, born, walk>>
    /\ UNCHANGED <<nodes, calls, stayed, walks, dels>>

(***************************************************************************)
(* The walk.  At every level the first entry and the one after an entry,   *)
(* in the direction the level is walked for this state.                    *)
(***************************************************************************)
Wake == walk.state = "resume"
First(s, forward) == IF s = <<>> THEN Null ELSE IF forward THEN s[1] ELSE s[Len(s)]
Following(s, x, forward) ==
    LET i == (CHOOSE k \in 1..Len(s) : s[k] = x) + (IF forward THEN 1 ELSE -1) IN
    IF i \in 1..Len(s) THEN s[i] ELSE Null

DevmgrServicePowerStateChange(state) ==
    /\ walk.at = "idle" /\ walks < MaxWalks /\ walks' = walks + 1
    /\ walk' = [state |-> state, host |-> IF state = "resume" THEN 1 ELSE Len(HostList),
                dev |-> Null, node |-> Null, at |-> "host"]
    /\ calls' = <<>> /\ stayed' = Attached
    /\ UNCHANGED <<devices, nodes, born, dels, loading>>

Steps(to) == walk' = to /\ UNCHANGED <<devices, nodes, stayed, born, walks, dels, loading>>

\* DevHostServicePmNotify of the next host, or the end.
DevHostServicePmNotify ==
    /\ walk.at = "host" /\ UNCHANGED calls
    /\ IF walk.host \in 1..Len(HostList)
       THEN Steps([walk EXCEPT !.dev = First(devices[HostList[walk.host]], ~Wake), !.at = "dev"])
       ELSE Steps([NoWalk EXCEPT !.state = walk.state])

ApplyDevicesPowerState ==
    /\ walk.at = "dev" /\ walk.dev # Freed /\ UNCHANGED calls
    /\ IF walk.dev = Null
       THEN Steps([walk EXCEPT !.host = @ + (IF Wake THEN 1 ELSE -1), !.at = "host"])
       ELSE Steps([walk EXCEPT !.node = First(nodes[walk.dev], Wake), !.at = "node"])

\* Mutant: a driver that fails ends the walk of its device.
StopAtFailure ==
    /\ walk.at = "node" /\ walk.node \notin {Null, Freed}
    /\ \E to \in {Null, walk.node} : Steps([walk EXCEPT !.node = to, !.at = "next"])
    /\ calls' = Append(calls, walk.node)

\* The driver's callback, whatever it returns.
PowerStateChange ==
    /\ walk.at = "node" /\ walk.node \notin {Null, Freed}
    /\ Steps([walk EXCEPT !.at = "next"])
    /\ calls' = Append(calls, walk.node)

NextNode ==
    /\ walk.at = "next" /\ walk.node # Freed /\ UNCHANGED calls
    /\ Steps([walk EXCEPT !.node = IF @ = Null THEN Null ELSE Following(nodes[walk.dev], @, Wake),
                          !.at = "node"])

NextDevice ==
    /\ walk.at = "node" /\ walk.node = Null /\ walk.dev # Freed /\ UNCHANGED calls
    /\ Steps([walk EXCEPT !.dev = Following(devices[HostList[walk.host]], @, ~Wake), !.at = "dev"])

\* What is read in memory that has been freed leads anywhere: the walk is lost, and what
\* it does from then on is not modelled.
WalkLost ==
    /\ \/ walk.node = Freed /\ walk.at \in {"node", "next"}
       \/ walk.dev = Freed /\ (walk.at = "dev" \/ (walk.at = "node" /\ walk.node = Null))
    /\ Steps([NoWalk EXCEPT !.state = walk.state, !.at = "lost"]) /\ UNCHANGED calls

Next ==
    \/ HdfDeviceAttach \/ AddDeviceFails \/ DevHostServiceFreeDevice
    \/ \E n \in Nodes : DevHostServiceAddDevice(n) \/ DevHostServiceDelDevice(n)
    \/ \E s \in {"suspend", "resume"} : DevmgrServicePowerStateChange(s)
    \/ DevHostServicePmNotify \/ ApplyDevicesPowerState \/ PowerStateChange
    \/ NextNode \/ NextDevice \/ WalkLost

Spec == Init /\ [][Next]_pnVars

(***************************************************************************)
(* Properties.                                                             *)
(***************************************************************************)
\* When a walk has ended, it has called every node that was there all the time, once: a
\* driver that fails keeps no other from being told, and nor does one that is loaded, or
\* fails to load, meanwhile.  A walk does not end, but is lost, when the node or the empty
\* device it stands at is freed (devhost_service.c:107, 141, 144).
EachTold ==
    walk.at = "idle" /\ walk.state # "none" =>
        \A n \in stayed : Cardinality({i \in 1..Len(calls) : calls[i] = n}) = 1

\* The order in which nodes are woken: by host, by the age of the device in the host,
\* which counts from the first load of a node of it, and by the age of the node.
Age(x) == CHOOSE i \in 1..Len(born) : born[i] = x
HostPos(n) == CHOOSE i \in 1..Len(HostList) : HostList[i] = HostOf[n]
Before(m, n) ==
    \/ HostPos(m) < HostPos(n)
    \/ /\ HostPos(m) = HostPos(n)
       /\ \/ Age(DeviceOf[m]) < Age(DeviceOf[n])
          \/ DeviceOf[m] = DeviceOf[n] /\ Age(m) < Age(n)

\* Nodes are woken in this order, and put to sleep in the reverse order.
InOrder ==
    \A i, j \in 1..Len(calls) : i < j /\ {calls[i], calls[j]} \subseteq stayed =>
        IF walk.state = "resume" THEN Before(calls[i], calls[j]) ELSE Before(calls[j], calls[i])
=============================================================================

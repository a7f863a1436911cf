-------------------------- MODULE PlatformDevice --------------------------
(***************************************************************************)
(* The life of a platform device (platform_device.c, platform_manager.c,   *)
(* hdf_sref.c): its owner adds it to a manager and deletes it, users find  *)
(* it there and put it.  The reference count is the manager's reference    *)
(* and one for each user; who takes it to 0 posts PLAT_EVENT_DEVICE_DEAD,  *)
(* for which the owner waits in PlatformDeviceDel.  The event is the       *)
(* module PlatformEvent, whose calls are made in full.                     *)
(*                                                                         *)
(* Atomicity.  The manager's list is changed and searched under its        *)
(* spinlock.  A reference is given back in two atomic operations, a        *)
(* decrement and a read.                                                   *)
(*                                                                         *)
(* A user that is late touches a device that was uninitialised.  What it   *)
(* finds is what the last initialisation left, or the next one makes: the  *)
(* memory is not given to something else.                                  *)
(***************************************************************************)
EXTENDS PlatformEvent, FiniteSets

CONSTANTS Owner,     \* the thread that adds and deletes the device
          DEAD,      \* PLAT_EVENT_DEVICE_DEAD
          MaxAdds,   \* bound on PlatformDeviceAdd
          MaxGets    \* bound on the references users take

VARIABLES
    refs,     \* device->ref.refs
    listed,   \* whether the device is in manager->devices
    inited,   \* between PlatformDeviceInit and PlatformDeviceUninit
    pc,       \* where each thread stands in the functions of the device
    adds,     \* number of PlatformDeviceAdd
    gets      \* number of references taken by users

devVars == <<refs, listed, inited, pc, adds, gets>>
deviceVars == <<vars, devVars>>

Users == EventThreads \ {Owner}

DeviceInit ==
    /\ Init
    /\ refs = 0 /\ listed = FALSE /\ inited = FALSE
    /\ pc = [t \in EventThreads |-> "idle"]
    /\ adds = 0 /\ gets = 0

Moves(t, p) == pc' = [pc EXCEPT ![t] = p]

\* Starts a call of PlatformEvent by a thread.
Begins(t, p, tms) ==
    /\ call' = [call EXCEPT ![t] = [mask |-> {DEAD}, all |-> FALSE, tms |-> tms]]
    /\ at' = [at EXCEPT ![t] = p]
    /\ UNCHANGED <<eventsWord, waiters, sem, result, chosen, calls>>

\* Takes note that the call is over.
Ends(t) ==
    /\ call' = [call EXCEPT ![t] = NoCall]
    /\ result' = [result EXCEPT ![t] = NoResult]
    /\ at' = [at EXCEPT ![t] = "idle"]

(***************************************************************************)
(* PlatformDeviceAdd, with PlatformDeviceInit and PlatformManagerAddDevice.*)
(* Nobody knows of the device before it is in the list.  If its number is  *)
(* taken, the manager's reference is put and the device uninitialised.     *)
(***************************************************************************)
PlatformDeviceAdd(o) ==
    /\ pc[o] = "idle" /\ ~listed /\ adds < MaxAdds
    /\ adds' = adds + 1
    /\ waiters' = <<>>
    /\ \/ /\ inited' = TRUE /\ refs' = 1 /\ listed' = TRUE
          /\ eventsWord' = {}
       \/ /\ inited' = FALSE /\ refs' = 0 /\ listed' = FALSE
          /\ eventsWord' = {DEAD}
    /\ UNCHANGED <<sem, at, call, result, chosen, calls, pc, gets>>

(***************************************************************************)
(* PlatformManagerFindDevice, which takes a reference under the spinlock.  *)
(***************************************************************************)
\* Mutant: a device that is on its way out is found as well.
FindUnlisted(u) ==
    /\ pc[u] = "idle" /\ refs > 0 /\ gets < MaxGets
    /\ refs' = refs + 1
    /\ gets' = gets + 1
    /\ Moves(u, "holds")
    /\ UNCHANGED <<vars, listed, inited, adds>>

PlatformManagerFindDevice(u) ==
    /\ pc[u] = "idle" /\ listed /\ gets < MaxGets
    /\ refs' = refs + 1
    /\ gets' = gets + 1
    /\ Moves(u, "holds")
    /\ UNCHANGED <<vars, listed, inited, adds>>

(***************************************************************************)
(* PlatformDevicePut: HdfSRefRelease, and PlatformDeviceOnLastPut.  The    *)
(* owner puts the manager's reference on its way through                   *)
(* PlatformDeviceDel.                                                      *)
(***************************************************************************)
HdfSRefRelease(t) ==
    /\ \/ t \in Users /\ pc[t] = "holds"
       \/ t = Owner /\ pc[t] = "delPut"
    /\ refs' = refs - 1
    /\ Moves(t, "released")
    /\ UNCHANGED <<vars, listed, inited, adds, gets>>

AfterPut(t) == IF t = Owner THEN "delWait" ELSE "idle"

ReleaseRead(t) ==
    /\ pc[t] = "released"
    /\ \/ refs # 0 /\ Moves(t, AfterPut(t)) /\ UNCHANGED vars
       \/ refs = 0 /\ Moves(t, "posting") /\ Begins(t, "post", "none")
    /\ UNCHANGED <<refs, listed, inited, adds, gets>>

\* PlatformDeviceOnLastPut goes on to log device->name.
OnLastPutEnd(t) ==
    /\ pc[t] = "posting" /\ at[t] = "returned"
    /\ Ends(t)
    /\ Moves(t, AfterPut(t))
    /\ UNCHANGED <<eventsWord, waiters, sem, chosen, calls>>
    /\ UNCHANGED <<refs, listed, inited, adds, gets>>

(***************************************************************************)
(* PlatformDeviceDel, with PlatformManagerDelDevice.                       *)
(***************************************************************************)
PlatformDeviceDel(o) ==
    /\ pc[o] = "idle" /\ listed
    /\ listed' = FALSE
    /\ Moves(o, "delPut")
    /\ UNCHANGED <<vars, refs, inited, adds, gets>>

DelWait(o) ==
    /\ pc[o] = "delWait"
    /\ Begins(o, "read", "forever")
    /\ Moves(o, "waiting")
    /\ UNCHANGED <<refs, listed, inited, adds, gets>>

\* PlatformDeviceUninit follows whether or not the wait was a success.
DelEnd(o) ==
    /\ pc[o] = "waiting" /\ at[o] = "returned"
    /\ Ends(o)
    /\ waiters' = <<>>
    /\ inited' = FALSE
    /\ Moves(o, "idle")
    /\ UNCHANGED <<eventsWord, sem, chosen, calls, refs, listed, adds, gets>>

(***************************************************************************)
(* The steps of the calls of PlatformEvent.                                *)
(***************************************************************************)
EventStep(t) == /\ \/ PlatformEventRead(t) \/ WaiterInsert(t)
                   \/ WaiterWoken(t) \/ WaiterRead(t)
                   \/ PlatformEventPost(t) \/ PostNotify(t)
                /\ UNCHANGED <<calls, devVars>>

Runs(t) == EventStep(t) \/ HdfSRefRelease(t) \/ ReleaseRead(t) \/ OnLastPutEnd(t)
             \/ DelWait(t) \/ DelEnd(t)

DeviceNext ==
    \/ PlatformDeviceAdd(Owner) \/ PlatformDeviceDel(Owner)
    \/ DelWait(Owner) \/ DelEnd(Owner)
    \/ \E u \in Users : PlatformManagerFindDevice(u)
    \/ \E t \in EventThreads :
         EventStep(t) \/ HdfSRefRelease(t) \/ ReleaseRead(t) \/ OnLastPutEnd(t)

DeviceSpec == DeviceInit /\ [][DeviceNext]_deviceVars

\* Threads that are inside a function go on, and users give their references back.
DeviceFairSpec ==
    DeviceSpec /\ \A t \in EventThreads : WF_deviceVars(Runs(t))

(***************************************************************************)
(* Properties.                                                             *)
(***************************************************************************)
\* Type invariant.
DeviceTypeOK ==
    /\ EventTypeOK
    /\ refs \in 0..(Cardinality(EventThreads) + 1)
    /\ listed \in BOOLEAN /\ inited \in BOOLEAN
    /\ pc \in [EventThreads -> {"idle", "holds", "delPut", "released", "posting",
                                "delWait", "waiting"}]
    /\ adds \in 0..MaxAdds /\ gets \in 0..MaxGets

\* The owner is not told that the device is dead while somebody, or the manager,
\* has a reference: who read 0 was not followed by a new user.
DeadIsLast ==
    (inited /\ DEAD \in eventsWord) =>
        /\ refs = 0 /\ ~listed
        /\ \A u \in Users : pc[u] # "holds"

Shared == INSTANCE SharedDevice
            WITH phase   <- IF ~inited THEN "out" ELSE IF listed THEN "in" ELSE "leaving",
                 holders <- {u \in Users : pc[u] = "holds"}

=============================================================================

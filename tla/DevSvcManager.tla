---------------------------- MODULE DevSvcManager ----------------------------
(***************************************************************************)
(* The service manager of the kernel build (devsvc_manager.c,              *)
(* devsvc_manager_ext.c, servstat_listener_holder.c): the table of         *)
(* published services, the listeners that user processes register to be    *)
(* told of changes, and the user side of a listener (svcmgr_ioservice.c).  *)
(*                                                                         *)
(* Atomicity.  What runs under devSvcManager->mutex is one step: a search, *)
(* or the insertion or removal of a record with the notification of all    *)
(* listeners.  Between the search and the rest of a call the mutex is free,*)
(* and what a call does to the record it found is outside it.              *)
(*                                                                         *)
(* The device that publishes a service makes one call about it at a time,  *)
(* and so does the process behind a listener file; calls about different   *)
(* services, calls of different files and lookups interleave.  Objects and *)
(* service infos are numbered in the order in which they are handed over.  *)
(***************************************************************************)
EXTENDS Integers

CONSTANTS Services,      \* service names
          Removable,     \* services of devices that may be unloaded
          LookedUp,      \* services that drivers look up by name
          Readers,       \* callers of DevSvcManagerGetService
          Clients,       \* files open on the service manager's node
          Classes,       \* bits of a device class mask
          ClassOf,       \* the class of each service
          OutOfMemory,   \* whether notifying may run out of memory
          MaxVersion,    \* bound on objects and infos handed over
          MaxListeners   \* bound on the listeners of one file

ASSUME SvcMgrAssumption ==
    /\ Removable \subseteq Services /\ LookedUp \subseteq Services
    /\ ClassOf \in [Services -> Classes]
    /\ OutOfMemory \in BOOLEAN
    /\ MaxVersion \in Nat /\ MaxListeners \in Nat

VARIABLES
    record,      \* DevSvcRecord of each service: id 0 when there is none
    version,     \* number of the last object or info handed over
    own,         \* where the call about a service stands
    holder,      \* ServStatListenerHolder of each file
    listening,   \* files whose vnode client takes events
    listeners,   \* number of listeners the process has on the file
    cli,         \* where the call of a file stands
    want,        \* the class mask a call wants
    read,        \* where the lookup of a reader stands
    got,         \* answer to the last lookup of a reader
    corrupted,   \* freed memory was used
    view,        \* history: what a file was told last about a service
    unsure       \* history: services whose state a file was not told

ownVars  == <<record, version, own>>
cliVars  == <<holder, listening, listeners, cli, want>>
readVars == <<read, got>>
histVars == <<view, unsure>>
vars     == <<ownVars, cliVars, readVars, corrupted, histVars>>

Down     == -1     \* told that the service stopped, or nothing
Dangling == 0      \* an info that was freed
Garbage  == -1     \* read from a record that was freed

NoRecord == [id |-> 0, linked |-> FALSE, value |-> 0, info |-> Dangling]
NoHolder == [class |-> {}, held |-> FALSE, listed |-> FALSE]
NotReading == [at |-> "idle", svc |-> "none", id |-> 0]

OwnPlace == {"idle", "addValue", "addInsert", "updFree", "updWrite",
             "updNotify", "remNotify", "remFree"}
CliPlace == {"idle", "setClass", "regInsert", "start", "unset", "unreg", "release"}

Init ==
    /\ record = [s \in Services |-> NoRecord]
    /\ version = 0
    /\ own = [s \in Services |-> "idle"]
    /\ holder = [c \in Clients |-> NoHolder]
    /\ listening = {}
    /\ listeners = [c \in Clients |-> 0]
    /\ cli = [c \in Clients |-> "idle"]
    /\ want = [c \in Clients |-> {}]
    /\ read = [r \in Readers |-> NotReading]
    /\ got = [r \in Readers |-> 0]
    /\ corrupted = FALSE
    /\ view = [c \in Clients |-> [s \in Services |-> Down]]
    /\ unsure = [c \in Clients |-> {}]

(***************************************************************************)
(* Notification.                                                           *)
(***************************************************************************)
\* Files whose holder is linked in svcstatListeners and wants s.
Listeners(s) == {c \in Clients : holder[c].listed /\ ClassOf[s] \in holder[c].class}

\* NotifyServiceStatusLocked.  Each listener is sent an event: it is queued, it
\* is lost for want of memory for the event's data, or the send fails for want
\* of memory and the holder is unlinked and freed.  A file that does not take
\* events is sent nothing, which counts as a success.  A holder that is linked
\* but freed corrupts memory.
NotifyServiceStatusLocked(s, what) ==
    LET told == Listeners(s) IN
    \E lost \in SUBSET told : \E failed \in SUBSET (lost \cap listening) :
        /\ OutOfMemory \/ lost = {}
        /\ view' = [c \in Clients |->
                      IF c \in (told \cap listening) \ lost
                      THEN [view[c] EXCEPT ![s] = what] ELSE view[c]]
        /\ unsure' = [c \in Clients |->
                        IF c \notin told THEN unsure[c]
                        ELSE IF c \in listening \ lost THEN unsure[c] \ {s}
                        ELSE unsure[c] \cup {s}]
        /\ holder' = [c \in Clients |-> IF c \in failed THEN NoHolder ELSE holder[c]]
        /\ corrupted' = (corrupted \/ \E c \in told : ~holder[c].held)

Working == ~corrupted

(***************************************************************************)
(* The device that publishes a service.                                    *)
(***************************************************************************)
Goto(s, p) == own' = [own EXCEPT ![s] = p]

\* DevSvcManagerSearchService at the start of a call.
Found(s) == record[s].linked

NewVersion == /\ version < MaxVersion /\ version' = version + 1

DevSvcManagerAddService(s) ==
    /\ Working /\ own[s] = "idle" /\ version < MaxVersion
    /\ Goto(s, IF Found(s) THEN "addValue" ELSE "addInsert")
    /\ UNCHANGED <<record, version, cliVars, readVars, corrupted, histVars>>

\* The service exists: only the object is replaced.
AddServiceValue(s) ==
    /\ Working /\ own[s] = "addValue" /\ NewVersion
    /\ record' = [record EXCEPT ![s].value = version + 1]
    /\ Goto(s, "idle")
    /\ UNCHANGED <<cliVars, readVars, corrupted, histVars>>

\* A new record is filled in, linked and announced; there may be no memory.
AddServiceInsert(s) ==
    /\ Working /\ own[s] = "addInsert" /\ NewVersion
    /\ Goto(s, "idle")
    /\ \/ /\ record' = [record EXCEPT ![s] = [id |-> version + 1, linked |-> TRUE,
                                      value |-> version + 1, info |-> version + 1]]
          /\ NotifyServiceStatusLocked(s, version + 1)
       \/ UNCHANGED <<record, holder, corrupted, histVars>>
    /\ UNCHANGED <<listening, listeners, cli, want, readVars>>

\* Search, and the copy of the new info, for which there may be no memory.
DevSvcManagerUpdateService(s) ==
    /\ Working /\ own[s] = "idle" /\ Found(s) /\ version < MaxVersion
    /\ Goto(s, "updFree")
    /\ UNCHANGED <<record, version, cliVars, readVars, corrupted, histVars>>

\* Without the mutex: the old info is freed ...
UpdateServiceFree(s) ==
    /\ Working /\ own[s] = "updFree"
    /\ record' = [record EXCEPT ![s].info = Dangling]
    /\ Goto(s, "updWrite")
    /\ UNCHANGED <<version, cliVars, readVars, corrupted, histVars>>

\* Mutant: only the info is written, and the record keeps the old object.
UpdateServiceInfoOnly(s) ==
    /\ Working /\ own[s] = "updWrite" /\ NewVersion
    /\ record' = [record EXCEPT ![s].info = version + 1]
    /\ Goto(s, "updNotify")
    /\ UNCHANGED <<cliVars, readVars, corrupted, histVars>>

\* ... and the new object and info are written.
UpdateServiceWrite(s) ==
    /\ Working /\ own[s] = "updWrite" /\ NewVersion
    /\ record' = [record EXCEPT ![s].value = version + 1, ![s].info = version + 1]
    /\ Goto(s, "updNotify")
    /\ UNCHANGED <<cliVars, readVars, corrupted, histVars>>

\* Mutant: no CHANGE is sent.
UpdateServiceSilent(s) ==
    /\ Working /\ own[s] = "updNotify"
    /\ Goto(s, "idle")
    /\ UNCHANGED <<record, version, cliVars, readVars, corrupted, histVars>>

\* The mutex is taken for the notification.
UpdateServiceNotify(s) ==
    /\ Working /\ own[s] = "updNotify"
    /\ NotifyServiceStatusLocked(s, record[s].info)
    /\ Goto(s, "idle")
    /\ UNCHANGED <<record, version, listening, listeners, cli, want, readVars>>

DevSvcManagerRemoveService(s) ==
    /\ Working /\ s \in Removable /\ own[s] = "idle" /\ Found(s)
    /\ Goto(s, "remNotify")
    /\ UNCHANGED <<record, version, cliVars, readVars, corrupted, histVars>>

\* STOP is sent and the record unlinked under the mutex ...
RemoveServiceUnlink(s) ==
    /\ Working /\ own[s] = "remNotify"
    /\ NotifyServiceStatusLocked(s, Down)
    /\ record' = [record EXCEPT ![s].linked = FALSE]
    /\ Goto(s, "remFree")
    /\ UNCHANGED <<version, listening, listeners, cli, want, readVars>>

\* ... and then freed.
RemoveServiceFree(s) ==
    /\ Working /\ own[s] = "remFree"
    /\ record' = [record EXCEPT ![s] = NoRecord]
    /\ Goto(s, "idle")
    /\ UNCHANGED <<version, cliVars, readVars, corrupted, histVars>>

OwnerStep(s) ==
    \/ DevSvcManagerAddService(s) \/ AddServiceValue(s) \/ AddServiceInsert(s)
    \/ DevSvcManagerUpdateService(s) \/ UpdateServiceFree(s) \/ UpdateServiceWrite(s)
    \/ UpdateServiceNotify(s)
    \/ DevSvcManagerRemoveService(s) \/ RemoveServiceUnlink(s) \/ RemoveServiceFree(s)

(***************************************************************************)
(* Drivers that look up a service.                                         *)
(***************************************************************************)
\* DevSvcManagerGetObject: the search ...
DevSvcManagerGetService(r, s) ==
    /\ Working /\ read[r] = NotReading /\ s \in LookedUp
    /\ \/ /\ Found(s)
          /\ read' = [read EXCEPT ![r] = [at |-> "found", svc |-> s, id |-> record[s].id]]
          /\ UNCHANGED got
       \/ /\ ~Found(s)
          /\ got' = [got EXCEPT ![r] = 0]
          /\ UNCHANGED read
    /\ UNCHANGED <<ownVars, cliVars, corrupted, histVars>>

\* ... and, without the mutex, the object in the record that was found.
GetServiceValue(r) ==
    /\ Working /\ read[r].at = "found"
    /\ LET s == read[r].svc IN
       IF record[s].id = read[r].id
       THEN got' = [got EXCEPT ![r] = record[s].value] /\ UNCHANGED corrupted
       ELSE got' = [got EXCEPT ![r] = Garbage] /\ corrupted' = TRUE
    /\ read' = [read EXCEPT ![r] = NotReading]
    /\ UNCHANGED <<ownVars, cliVars, histVars>>

(***************************************************************************)
(* The process behind a file.                                              *)
(***************************************************************************)
At(c, p)   == cli[c] = p
Move(c, p) == cli' = [cli EXCEPT ![c] = p]

\* SvcMgrIoserviceRegSvcStatListener up to ServStatListenerHolderGet, and
\* ServStatListenerHolderCreate if there is none; when there is no memory for
\* one, nothing has changed.
SvcMgrIoserviceRegSvcStatListener(c, mask) ==
    /\ Working /\ At(c, "idle") /\ listeners[c] < MaxListeners
    /\ want' = [want EXCEPT ![c] = mask]
    /\ \/ /\ holder[c].held
          /\ Move(c, "setClass")
          /\ UNCHANGED holder
       \/ /\ ~holder[c].held
          /\ holder' = [holder EXCEPT ![c] = [class |-> mask, held |-> TRUE, listed |-> FALSE]]
          /\ Move(c, "regInsert")
    /\ UNCHANGED <<ownVars, listening, listeners, readVars, corrupted, histVars>>

\* The holder that was found gets the new mask, without any mutex.
RegisterListenerSetClass(c) ==
    /\ Working /\ At(c, "setClass")
    /\ \/ /\ holder[c].held
          /\ unsure' = [unsure EXCEPT ![c] = @ \cup
                {s \in Services : ClassOf[s] \in want[c] \ holder[c].class}]
          /\ holder' = [holder EXCEPT ![c].class = want[c]]
          /\ UNCHANGED corrupted
       \/ /\ ~holder[c].held
          /\ corrupted' = TRUE
          /\ UNCHANGED <<unsure, holder>>
    /\ Move(c, "start")
    /\ UNCHANGED <<ownVars, listening, listeners, want, readVars, view>>

\* The services a new listener is told of.
ToldOnRegister(c) == {s \in Services : Found(s) /\ ClassOf[s] \in holder[c].class}

\* DevSvcManagerRegsterServListener: link the holder and, as
\* NotifyServiceStatusOnRegisterLocked, tell it of every service it wants; an
\* event may be lost, and the result is not looked at.
DevSvcManagerRegsterServListener(c) ==
    /\ Working /\ At(c, "regInsert")
    /\ holder' = [holder EXCEPT ![c].listed = TRUE]
    /\ \E lost \in SUBSET ToldOnRegister(c) :
          LET sent == IF c \in listening THEN ToldOnRegister(c) \ lost ELSE {} IN
          /\ OutOfMemory \/ lost = {}
          /\ view' = [view EXCEPT ![c] = [s \in Services |->
                                            IF s \in sent THEN record[s].info ELSE Down]]
          /\ unsure' = [unsure EXCEPT ![c] =
                          IF c \in listening THEN lost ELSE ToldOnRegister(c)]
    /\ Move(c, "start")
    /\ UNCHANGED <<ownVars, listening, listeners, want, readVars, corrupted>>

\* HdfDeviceRegisterEventListener: the first listener starts the thread, which
\* starts to listen.
HdfDeviceRegisterEventListener(c) ==
    /\ Working /\ At(c, "start")
    /\ listening' = listening \cup {c}
    /\ listeners' = [listeners EXCEPT ![c] = @ + 1]
    /\ Move(c, "idle")
    /\ UNCHANGED <<ownVars, holder, want, readVars, corrupted, histVars>>

\* HdfIoserviceGetListenerCount() == 0 after the listener is gone.
LastListener(c) == listeners[c] = 1

\* Mutant: the listener's links are not tested.
RegisteredUntested(c) == TRUE

\* The listener is linked; the process has no other way to unregister it.
Registered(c) == listeners[c] > 0

\* SvcMgrIoserviceUnRegSvcStatListener; the last listener ends the listening.
SvcMgrIoserviceUnRegSvcStatListener(c) ==
    /\ Working /\ At(c, "idle") /\ Registered(c)
    /\ listeners' = [listeners EXCEPT ![c] = @ - 1]
    /\ listening' = IF listeners[c] = 1 THEN listening \ {c} ELSE listening
    /\ Move(c, IF LastListener(c) THEN "unset" ELSE "idle")
    /\ UNCHANGED <<ownVars, holder, want, readVars, corrupted, histVars>>

\* DeviceSvcMgrRelease: the process closes the file, or dies.
DeviceSvcMgrRelease(c) ==
    /\ Working /\ At(c, "idle") /\ listeners[c] > 0
    /\ listeners' = [listeners EXCEPT ![c] = 0]
    /\ Move(c, "unset")
    /\ UNCHANGED <<ownVars, holder, listening, want, readVars, corrupted, histVars>>

\* DevSvcManagerExtUnRegisterListener takes the mutex of DevSvcManagerExt and
\* finds the holder, or returns.
ExtMutexFree == \A c \in Clients : cli[c] \notin {"unreg", "release"}

DevSvcManagerExtUnRegisterListener(c) ==
    /\ Working /\ At(c, "unset") /\ ExtMutexFree
    /\ \/ /\ holder[c].held
          /\ Move(c, IF holder[c].listed THEN "unreg" ELSE "release")
          /\ UNCHANGED listening
       \/ /\ ~holder[c].held
          /\ Move(c, "idle")
          /\ listening' = listening \ {c}
    /\ UNCHANGED <<ownVars, holder, listeners, want, readVars, corrupted, histVars>>

\* Mutant: the holder is freed and stays linked.
UnregsterNothing(c) == holder' = holder

\* DListRemove of the holder from svcstatListeners.
UnlinkHolder(c) == holder' = [holder EXCEPT ![c].listed = FALSE]

\* DevSvcManagerUnregsterServListener of the holder that was found: a failed
\* notification may have freed it in between.
DevSvcManagerUnregsterServListener(c) ==
    /\ Working /\ At(c, "unreg")
    /\ \/ /\ holder[c].held /\ UnlinkHolder(c) /\ UNCHANGED corrupted
       \/ /\ ~holder[c].held /\ corrupted' = TRUE /\ UNCHANGED holder
    /\ Move(c, "release")
    /\ UNCHANGED <<ownVars, listening, listeners, want, readVars, histVars>>

\* ServStatListenerHolderRelease; a file that is being closed stops listening
\* when its vnode client is destroyed.
ServStatListenerHolderRelease(c) ==
    /\ Working /\ At(c, "release")
    /\ holder' = [holder EXCEPT ![c].held = FALSE]
    /\ listening' = listening \ {c}
    /\ Move(c, "idle")
    /\ UNCHANGED <<ownVars, listeners, want, readVars, corrupted, histVars>>

ClientStep(c) ==
    \/ \E mask \in SUBSET Classes \ {{}} : SvcMgrIoserviceRegSvcStatListener(c, mask)
    \/ RegisterListenerSetClass(c) \/ DevSvcManagerRegsterServListener(c)
    \/ HdfDeviceRegisterEventListener(c)
    \/ SvcMgrIoserviceUnRegSvcStatListener(c) \/ DeviceSvcMgrRelease(c)
    \/ DevSvcManagerExtUnRegisterListener(c) \/ DevSvcManagerUnregsterServListener(c)
    \/ ServStatListenerHolderRelease(c)

Next ==
    \/ \E s \in Services : OwnerStep(s)
    \/ \E r \in Readers : GetServiceValue(r)
    \/ \E r \in Readers, s \in Services : DevSvcManagerGetService(r, s)
    \/ \E c \in Clients : ClientStep(c)

Spec == Init /\ [][Next]_vars

(***************************************************************************)
(* Properties.                                                             *)
(***************************************************************************)
\* Type invariant of the service manager and its callers.
TypeOK ==
    /\ record \in [Services -> [id : Nat, linked : BOOLEAN, value : Nat, info : Nat]]
    /\ version \in 0..MaxVersion
    /\ own \in [Services -> OwnPlace]
    /\ holder \in [Clients -> [class : SUBSET Classes, held : BOOLEAN, listed : BOOLEAN]]
    /\ listening \subseteq Clients
    /\ listeners \in [Clients -> 0..MaxListeners]
    /\ cli \in [Clients -> CliPlace]
    /\ want \in [Clients -> SUBSET Classes]
    /\ read \in [Readers -> [at : {"idle", "found"}, svc : Services \cup {"none"}, id : Nat]]
    /\ got \in [Readers -> Nat \cup {Garbage}]
    /\ corrupted \in BOOLEAN
    /\ view \in [Clients -> [Services -> Nat \cup {Down}]]
    /\ unsure \in [Clients -> SUBSET Services]

\* A file that listens for a class knows the state of each service of the class:
\* the last event it was sent about a service carries the info the record now
\* has, or STOP if there is none, unless events were lost for want of memory or
\* came before the file listened.  The record is changed outside the mutex and
\* the event is sent under it (DevSvcManagerUpdateService).
LatestTold ==
    \A c \in Clients, s \in Services :
        (/\ holder[c].listed /\ ClassOf[s] \in holder[c].class
         /\ s \notin unsure[c] /\ own[s] = "idle")
            => view[c][s] = IF record[s].linked THEN record[s].info ELSE Down

\* Neither a record nor a holder is used after it was freed.
NoUseAfterFree == ~corrupted

\* What a listener was told of s agrees with the table: an object at least as new
\* as the info it was told, or none after STOP.
Agrees(told, s) ==
    IF record[s].linked THEN told \in 0..record[s].value ELSE told = Down

\* A listener can act on what it was told, at every moment and also in the middle
\* of the calls that change the table: a service it was told of is in the table,
\* with an object no older than the info it was told, and one it was told has
\* stopped is not.  The object is replaced with and without a notice, and outside
\* the mutex (DevSvcManagerAddService, DevSvcManagerUpdateService).  Excepted, as
\* in LatestTold, are services whose event was lost or came before the file
\* listened.
ToldIsFound ==
    \A c \in Clients, s \in Services :
        (holder[c].listed /\ ClassOf[s] \in holder[c].class /\ s \notin unsure[c])
            => Agrees(view[c][s], s)
=============================================================================

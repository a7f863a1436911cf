------------------------- MODULE HdfServiceObserver -------------------------
(***************************************************************************)
(* The service observer of a device host: how a driver subscribes to the   *)
(* service of another driver of its host, and is called back when that     *)
(* service is published (core/host/src/hdf_service_observer.c,             *)
(* hdf_observer_record.c, hdf_service_subscriber.c).                       *)
(*                                                                         *)
(* A call runs in a thread and is cut where the code takes or releases a   *)
(* lock: the search of the record, its insertion, the test of the          *)
(* publisher and the insertion of the subscriber are steps of their own.   *)
(* A publication is numbered; a service is published again when its device *)
(* is loaded again.  No code removes a record: HdfServiceObserverRemove-   *)
(* Record has no caller.                                                   *)
(***************************************************************************)
EXTENDS Naturals, Sequences

CONSTANTS
    Services,     \* service names
    Devices,      \* devices of the host
    Owner,        \* the device that publishes a service
    Policy,       \* the policy of a service
    Threads,
    MaxPublish,   \* bound on the publications
    MaxRecords,   \* bound on the records made
    None

VARIABLES
    services,     \* observer->services per name: record numbers, newest first
    record,       \* the records
    made,         \* records made so far
    published,    \* publications so far
    current,      \* per service, its last publication that returned
    subscription, \* per device and service: what the device has seen
    frame         \* per thread: the call it is in

vars == <<services, record, made, published, current, subscription, frame>>

Records == 1..MaxRecords
\* A record as HdfServiceObserverRecordObtain makes it
NewRecord == [publisher |-> 0, devId |-> None, policy |-> "NONE", subscribers |-> {}]
NoFrame   == [pc |-> "idle", dev |-> None, svc |-> None, rec |-> 0, pub |-> 0]
Fresh     == [state |-> "none", got |-> 0]
Pending   == [state |-> "pending", got |-> 0]
Ready(p)  == [state |-> "ready", got |-> p]

Init ==
    /\ services = [s \in Services |-> <<>>]
    /\ record = [r \in Records |-> NewRecord]
    /\ made = 0 /\ published = 0
    /\ current = [s \in Services |-> 0]
    /\ subscription = [d \in Devices |-> [s \in Services |-> Fresh]]
    /\ frame = [t \in Threads |-> NoFrame]

At(t, pc) == frame[t].pc = pc
Dev(t)    == frame[t].dev
Svc(t)    == frame[t].svc
Rec(t)    == record[frame[t].rec]
Goto(t, pc)     == frame' = [frame EXCEPT ![t].pc = pc]
Use(t, pc, r)   == frame' = [frame EXCEPT ![t].pc = pc, ![t].rec = r]
Return(t)       == frame' = [frame EXCEPT ![t] = NoFrame]

\* HdfSListSearch: the first record of the service, 0 if there is none.
SearchRecord(s) == IF services[s] = <<>> THEN 0 ELSE Head(services[s])

\* HdfServiceObserverRecordObtain and HdfSListAdd: a record goes to the head.
AddRecord(s, r) ==
    /\ made < MaxRecords
    /\ made' = made + 1
    /\ record' = [record EXCEPT ![made + 1] = r]
    /\ services' = [services EXCEPT ![s] = <<made + 1>> \o @]

(***************************************************************************)
(* HdfServiceObserverSubscribeService                                      *)
(***************************************************************************)
Subscribe(t, d, s) ==
    /\ frame[t] = NoFrame /\ subscription[d][s] = Fresh
    /\ \A u \in Threads : ~(Dev(u) = d /\ Svc(u) = s)
    /\ frame' = [frame EXCEPT ![t] = [pc |-> "search", dev |-> d, svc |-> s,
                                      rec |-> 0, pub |-> 0]]
    /\ UNCHANGED <<services, record, made, published, current, subscription>>

\* The search, and HdfServiceSubscriberObtain, which may fail.
SubscribeSearch(t) ==
    LET r == SearchRecord(Svc(t)) IN
    /\ At(t, "search")
    /\ \/ /\ Use(t, IF r = 0 THEN "add" ELSE "check", r)
          /\ subscription' = [subscription EXCEPT ![Dev(t)][Svc(t)] = Pending]
       \/ Return(t) /\ UNCHANGED subscription
    /\ UNCHANGED <<services, record, made, published, current>>

SubscribeAdd(t) ==
    /\ At(t, "add")
    /\ AddRecord(Svc(t), NewRecord) /\ Use(t, "check", made + 1)
    /\ UNCHANGED <<published, current, subscription>>

\* A service that is there is handed over unless the record says it is private
\* to another device.
MayConnect(r, d) ==
    r.publisher # 0 /\ (r.policy # "PRIVATE" \/ r.devId = d)

\* Mutant: a service that was published before is not handed over.
SubscribeNoCheck(t) ==
    /\ At(t, "check") /\ Goto(t, "insert")
    /\ UNCHANGED <<services, record, made, published, current, subscription>>

\* The test of the publisher and the callback, made without a lock.
SubscribeCheck(t) ==
    /\ At(t, "check")
    /\ subscription' = IF MayConnect(Rec(t), Dev(t))
          THEN [subscription EXCEPT ![Dev(t)][Svc(t)] = Ready(Rec(t).publisher)]
          ELSE subscription
    /\ Goto(t, "insert")
    /\ UNCHANGED <<services, record, made, published, current>>

SubscribeInsert(t) ==
    /\ At(t, "insert")
    /\ record' = [record EXCEPT ![frame[t].rec].subscribers = @ \cup {Dev(t)}]
    /\ Return(t)
    /\ UNCHANGED <<services, made, published, current, subscription>>

(***************************************************************************)
(* HdfServiceObserverPublishService                                        *)
(***************************************************************************)
Publish(t, s) ==
    /\ frame[t] = NoFrame /\ published < MaxPublish
    /\ \A u \in Threads : ~(Dev(u) = None /\ Svc(u) = s)
    /\ published' = published + 1
    /\ frame' = [frame EXCEPT ![t] = [pc |-> "find", dev |-> None, svc |-> s,
                                      rec |-> 0, pub |-> published + 1]]
    /\ UNCHANGED <<services, record, made, current, subscription>>

PublishSearch(t) ==
    LET r == SearchRecord(Svc(t)) IN
    /\ At(t, "find")
    /\ \/ Use(t, IF r = 0 THEN "create" ELSE "set", r)
       \/ r = 0 /\ Return(t)                             \* out of memory
    /\ UNCHANGED <<services, record, made, published, current, subscription>>

PublishReturn(t) ==
    /\ current' = [current EXCEPT ![Svc(t)] = frame[t].pub]
    /\ Return(t)

PublishCreate(t) ==
    /\ At(t, "create")
    /\ AddRecord(Svc(t), [publisher |-> frame[t].pub, devId |-> Owner[Svc(t)],
                          policy |-> Policy[Svc(t)], subscribers |-> {}])
    /\ PublishReturn(t)
    /\ UNCHANGED <<published, subscription>>

\* The record that is there takes the publisher and keeps its devId and policy.
PublishSet(t) ==
    /\ At(t, "set")
    /\ record' = [record EXCEPT ![frame[t].rec].publisher = frame[t].pub]
    /\ Goto(t, "notify")
    /\ UNCHANGED <<services, made, published, current, subscription>>

\* HdfServiceObserverRecordNotifySubscribers, under the record's mutex
Notified(t, d) ==
    d \in Rec(t).subscribers /\ (d = Owner[Svc(t)] \/ Policy[Svc(t)] # "PRIVATE")

PublishNotify(t) ==
    /\ At(t, "notify")
    /\ subscription' = [d \in Devices |->
          IF Notified(t, d)
          THEN [subscription[d] EXCEPT ![Svc(t)] = Ready(Rec(t).publisher)]
          ELSE subscription[d]]
    /\ PublishReturn(t)
    /\ UNCHANGED <<services, record, made, published>>

Next ==
    \/ \E t \in Threads, d \in Devices, s \in Services : Subscribe(t, d, s)
    \/ \E t \in Threads, s \in Services : Publish(t, s)
    \/ \E t \in Threads :
          \/ SubscribeSearch(t) \/ SubscribeAdd(t) \/ SubscribeCheck(t)
          \/ SubscribeInsert(t)
          \/ PublishSearch(t) \/ PublishCreate(t) \/ PublishSet(t)
          \/ PublishNotify(t)

Spec == Init /\ [][Next]_vars

(***************************************************************************)
(* Properties.                                                             *)
(***************************************************************************)
Publications == 1..MaxPublish

\* The ranges of the variables; a subscriber that is READY was called back with
\* a service, never with NULL.
TypeOK ==
    /\ services \in [Services -> Seq(Records)]
    /\ made \in 0..MaxRecords /\ published \in 0..MaxPublish
    /\ record \in [Records -> [publisher : 0..MaxPublish, devId : Devices \cup {None},
                     policy : {"NONE", "PUBLIC", "CAPACITY", "FRIENDLY", "PRIVATE"},
                     subscribers : SUBSET Devices]]
    /\ current \in [Services -> 0..MaxPublish]
    /\ subscription \in [Devices -> [Services ->
          {Fresh, Pending} \cup {Ready(p) : p \in Publications}]]
    /\ \A t \in Threads : frame[t].rec \in 0..MaxRecords

Quiet == \A t \in Threads : frame[t] = NoFrame
MaySubscribe(d, s) == Policy[s] # "PRIVATE" \/ Owner[s] = d

\* A driver that subscribed to a service it may use has its latest interface
\* once the service is published, whichever came first
\* (HdfServiceObserverSubscribeService, HdfServiceObserverPublishService).
SubscribersConnected ==
    Quiet => \A d \in Devices, s \in Services :
       subscription[d][s] # Fresh /\ current[s] # 0 /\ MaySubscribe(d, s)
          => subscription[d][s] = Ready(current[s])

\* There is one record of a service, so that subscribers and publisher meet.
OneRecordPerService == \A s \in Services : Len(services[s]) <= 1

=============================================================================

----------------------------- MODULE CoreProofs -----------------------------
(***************************************************************************)
(* Proofs about the parts of Core.                                         *)
(*                                                                         *)
(* The observer, when the calls come from one thread x, as when the        *)
(* drivers of a host are loaded one after the other: any number of         *)
(* services, devices, subscriptions and publications.  Two threads may     *)
(* each make a record of a service (run observer_race).  The inductive     *)
(* invariant says where the one call under way has come to, that a service *)
(* has one record of its own, that the record's publisher is the last      *)
(* publication, and that whoever subscribed is listed in the record and    *)
(* has that publication.                                                   *)
(*                                                                         *)
(* Power requests and the looper: what HdfPowerManagerProofs and           *)
(* HdfMessageLooperProofs prove of the components carries over to the      *)
(* behaviours of Core in which they run.                                   *)
(***************************************************************************)
EXTENDS Core, TLAPS

-----------------------------------------------------------------------------
(* The observer.                                                           *)

Policies == {"NONE", "PUBLIC", "CAPACITY", "FRIENDLY", "PRIVATE"}

ObserverNames ==
    /\ Owner \in [Services -> HostDevices] /\ Policy \in [Services -> Policies]
    /\ MaxPublish \in Nat /\ MaxRecords \in Nat

Record == [publisher : 0..MaxPublish, devId : HostDevices \cup {none}, policy : Policies,
           subscribers : SUBSET HostDevices]
Seen   == {Observer!Fresh, Observer!Pending}
    \cup {Observer!Ready(p) : p \in Observer!Publications}

SubscribePlaces == {"search", "add", "check", "insert"}
PublishPlaces   == {"find", "create", "set", "notify"}

\* The call of thread x.
CallInv(x) ==
    /\ frame \in [ObserverThreads -> [pc : {"idle"} \cup SubscribePlaces \cup PublishPlaces,
                              dev : HostDevices \cup {none}, svc : Services \cup {none},
                              rec : 0..MaxRecords, pub : 0..MaxPublish]]
    /\ Observer!At(x, "idle") => frame[x] = Observer!NoFrame
    /\ frame[x].pc \in SubscribePlaces
         => Observer!Dev(x) \in HostDevices /\ Observer!Svc(x) \in Services
    /\ frame[x].pc \in PublishPlaces
         => Observer!Svc(x) \in Services /\ frame[x].pub \in Observer!Publications
    /\ frame[x].pc \in {"add", "create"} => services[Observer!Svc(x)] = <<>>
    /\ frame[x].pc \in {"check", "insert", "set", "notify"}
         => services[Observer!Svc(x)] = <<frame[x].rec>>
    /\ Observer!At(x, "notify") => Observer!Rec(x).publisher = frame[x].pub
    /\ Observer!At(x, "search") => subscription[Observer!Dev(x)][Observer!Svc(x)] = Observer!Fresh

\* The record of a service, and what it says of the service's policy.
First(s) == Head(services[s])
Says(r, s) == r.policy = "NONE" \/ (r.policy = Policy[s] /\ r.devId = Owner[s])
RecordInv ==
    /\ \A s \in Services : \/ services[s] = <<>>
                           \/ \E r \in 1..made : services[s] = <<r>> /\ Says(record[r], s)
    /\ \A s, z \in Services : services[s] # <<>> /\ services[s] = services[z] => s = z

\* Its publisher is the last publication, unless one is under way.
Notifies(x, s) == Observer!At(x, "notify") /\ Observer!Svc(x) = s
CurrentInv(x) ==
    \A s \in Services :
        /\ services[s] = <<>> => current[s] = 0
        /\ services[s] # <<>> /\ ~Notifies(x, s) => record[First(s)].publisher = current[s]

\* Device d subscribed to s: it is listed, and has been given the publication.
Listed(x, d, s) ==
    d \in record[First(s)].subscribers
    \/ (Observer!At(x, "insert") /\ Observer!Dev(x) = d /\ Observer!Svc(x) = s)
Given(x, d, s) ==
    ~Notifies(x, s) /\ record[First(s)].publisher # 0 /\ Observer!MaySubscribe(d, s)
        => subscription[d][s] = Observer!Ready(record[First(s)].publisher)
Begun(x, d, s) == frame[x].pc \in {"add", "check"} /\ Observer!Dev(x) = d /\ Observer!Svc(x) = s
SeenInv(x) ==
    \A d \in HostDevices, s \in Services :
        subscription[d][s] # Observer!Fresh =>
            Begun(x, d, s) \/ (services[s] # <<>> /\ Listed(x, d, s) /\ Given(x, d, s))

TypeInv == Observer!TypeOK /\ record \in [Observer!Records -> Record]
    /\ subscription \in [HostDevices -> [Services -> Seen]]

ObserverInv(x) == TypeInv /\ CallInv(x) /\ RecordInv /\ CurrentInv(x) /\ SeenInv(x)

\* The initial state.
LEMMA ObserverInit ==
    ASSUME NEW x, ObserverThreads = {x}, ObserverNames, Observer!Init
    PROVE  ObserverInv(x)
<1> USE DEF Observer!Init, ObserverNames
<1>1. frame[x] = Observer!NoFrame /\ x \in ObserverThreads
  OBVIOUS
<1>2. TypeInv
  <2>1. record \in [Observer!Records -> Record]
    BY DEF Record, Observer!NewRecord, Policies
  <2>2. subscription \in [HostDevices -> [Services -> Seen]]
    BY DEF Seen
  <2>3. services \in [Services -> Seq(Observer!Records)]
    OBVIOUS
  <2>4. frame[x].rec = 0
    BY DEF Observer!NoFrame
  <2>5. QED
    BY <2>1, <2>2, <2>3, <2>4 DEF TypeInv, Observer!TypeOK, Record, Seen, Policies
<1>3. CallInv(x)
  <2>1. Observer!NoFrame \in [pc : {"idle"} \cup SubscribePlaces \cup PublishPlaces,
                     dev : HostDevices \cup {none}, svc : Services \cup {none},
                     rec : 0..MaxRecords, pub : 0..MaxPublish]
    BY DEF Observer!NoFrame
  <2>2. frame[x].pc = "idle"
    BY <1>1 DEF Observer!NoFrame
  <2>3. QED
    BY <1>1, <2>1, <2>2 DEF CallInv, SubscribePlaces, PublishPlaces, Observer!At
<1>4. RecordInv
  BY DEF RecordInv
<1>5. CurrentInv(x)
  BY DEF CurrentInv
<1>6. SeenInv(x)
  BY DEF SeenInv
<1>7. QED
  BY <1>2, <1>3, <1>4, <1>5, <1>6 DEF ObserverInv

Places == {"idle"} \cup SubscribePlaces \cup PublishPlaces
Frame  == [pc : Places, dev : HostDevices \cup {none}, svc : Services \cup {none},
           rec : 0..MaxRecords, pub : 0..MaxPublish]

\* The invariant's conjuncts about the records, of the state before a step.
LEMMA Facts ==
    ASSUME NEW x, ObserverThreads = {x}, ObserverNames, ObserverInv(x)
    PROVE  /\ x \in ObserverThreads
           /\ frame \in [ObserverThreads -> Frame] /\ frame[x] \in Frame
           /\ services \in [Services -> Seq(Observer!Records)]
           /\ made \in 0..MaxRecords /\ published \in 0..MaxPublish
           /\ record \in [Observer!Records -> Record]
           /\ current \in [Services -> 0..MaxPublish]
           /\ subscription \in [HostDevices -> [Services -> Seen]]
           /\ MaxPublish \in Nat /\ MaxRecords \in Nat
           /\ \A s \in Services : services[s] # <<>> =>
                 /\ First(s) \in 1..made /\ First(s) \in Observer!Records
                 /\ services[s] = <<First(s)>> /\ Says(record[First(s)], s)
           /\ \A s, z \in Services :
                 services[s] # <<>> /\ services[z] # <<>> /\ First(s) = First(z) => s = z
<1> USE DEF ObserverInv
<1>1. x \in ObserverThreads /\ frame \in [ObserverThreads -> Frame]
  BY DEF CallInv, Frame, Places
<1>2. frame[x] \in Frame
  BY <1>1
<1>3. Observer!TypeOK /\ MaxPublish \in Nat /\ MaxRecords \in Nat
  BY DEF TypeInv, ObserverNames
<1>4. ASSUME NEW s \in Services, services[s] # <<>>
      PROVE  /\ First(s) \in 1..made /\ First(s) \in Observer!Records
             /\ services[s] = <<First(s)>> /\ Says(record[First(s)], s)
  <2>1. PICK r \in 1..made : services[s] = <<r>> /\ Says(record[r], s)
    BY <1>4 DEF RecordInv
  <2>2. First(s) = r
    BY <2>1 DEF First
  <2>3. QED
    BY <2>1, <2>2, <1>3 DEF Observer!TypeOK, Observer!Records
<1>5. ASSUME NEW s \in Services, NEW z \in Services, services[s] # <<>>, services[z] # <<>>,
             First(s) = First(z)
      PROVE  s = z
  <2>1. services[s] = services[z]
    BY <1>4, <1>5
  <2>2. QED
    BY <2>1, <1>5 DEF RecordInv
<1>6. QED
  BY <1>1, <1>2, <1>3, <1>4, <1>5 DEF TypeInv, Observer!TypeOK

\* A step that leaves the records and what the devices have seen.
LEMMA TypeStep ==
    ASSUME NEW x, ObserverThreads = {x}, ObserverNames, ObserverInv(x),
           services' \in [Services -> Seq(Observer!Records)], made' \in 0..MaxRecords,
           published' \in 0..MaxPublish, record' \in [Observer!Records -> Record],
           current' \in [Services -> 0..MaxPublish],
           subscription' \in [HostDevices -> [Services -> Seen]],
           frame' \in [ObserverThreads -> Frame]
    PROVE  TypeInv'
<1>1. \A t \in ObserverThreads : frame'[t].rec \in 0..MaxRecords
  <2>1. \A t \in ObserverThreads : frame'[t] \in Frame
    OBVIOUS
  <2>2. QED
    BY <2>1 DEF Frame
<1>2. Observer!TypeOK'
  BY <1>1 DEF Observer!TypeOK, Record, Seen, Policies
<1>3. QED
  BY <1>2 DEF TypeInv

LEMMA SubscribeStep ==
    ASSUME NEW x, ObserverThreads = {x}, ObserverNames, ObserverInv(x),
           NEW d \in HostDevices, NEW s \in Services, Observer!Subscribe(x, d, s)
    PROVE  ObserverInv(x)'
<1> USE DEF Observer!Subscribe
<1>0. x \in ObserverThreads /\ frame \in [ObserverThreads -> Frame] /\ MaxRecords \in Nat
      /\ MaxPublish \in Nat
  BY Facts
<1> DEFINE f == [pc |-> "search", dev |-> d, svc |-> s, rec |-> 0, pub |-> 0]
<1>1. f \in Frame
  BY <1>0 DEF Frame, Places, SubscribePlaces
<1>2. frame'[x] = f /\ frame' \in [ObserverThreads -> Frame]
  BY <1>0, <1>1
<1>3. frame'[x].pc = "search" /\ frame'[x].dev = d /\ frame'[x].svc = s
  BY <1>2
<1>4. frame[x].pc = "idle"
  BY <1>0 DEF Observer!NoFrame
<1> HIDE DEF f
<1>5. TypeInv'
  BY <1>2, Facts, TypeStep
<1>6. CallInv(x)'
  BY <1>2, <1>3
     DEF CallInv, Frame, Places, Observer!At, Observer!Dev, Observer!Svc, SubscribePlaces,
         PublishPlaces
<1>7. RecordInv'
  BY DEF ObserverInv, RecordInv
<1>8. CurrentInv(x)'
  BY <1>3, <1>4 DEF ObserverInv, CurrentInv, First, Notifies, Observer!At
<1>9. SeenInv(x)'
  BY <1>3, <1>4
     DEF ObserverInv, SeenInv, Begun, Listed, Given, First, Notifies, Observer!At,
         Observer!MaySubscribe
<1>10. QED
  BY <1>5, <1>6, <1>7, <1>8, <1>9 DEF ObserverInv

LEMMA PublishStep ==
    ASSUME NEW x, ObserverThreads = {x}, ObserverNames, ObserverInv(x),
           NEW s \in Services, Observer!Publish(x, s)
    PROVE  ObserverInv(x)'
<1> USE DEF Observer!Publish
<1>0. x \in ObserverThreads /\ frame \in [ObserverThreads -> Frame] /\ MaxRecords \in Nat
      /\ MaxPublish \in Nat
      /\ published \in 0..MaxPublish
  BY Facts
<1> DEFINE f == [pc |-> "find", dev |-> none, svc |-> s, rec |-> 0, pub |-> published + 1]
<1>1. f \in Frame
  BY <1>0 DEF Frame, Places, PublishPlaces
<1>2. frame'[x] = f /\ frame' \in [ObserverThreads -> Frame]
  BY <1>0, <1>1
<1>3. frame'[x].pc = "find" /\ frame'[x].svc = s /\ frame'[x].pub \in Observer!Publications
  BY <1>0, <1>2 DEF Observer!Publications
<1>4. frame[x].pc = "idle"
  BY <1>0 DEF Observer!NoFrame
<1> HIDE DEF f
<1>5. TypeInv'
  <2>1. published' \in 0..MaxPublish
    BY <1>0
  <2>2. QED
    BY <1>2, <2>1, Facts, TypeStep
<1>6. CallInv(x)'
  BY <1>2, <1>3
     DEF CallInv, Frame, Places, Observer!At, Observer!Dev, Observer!Svc, SubscribePlaces,
         PublishPlaces
<1>7. RecordInv'
  BY DEF ObserverInv, RecordInv
<1>8. CurrentInv(x)'
  BY <1>3, <1>4 DEF ObserverInv, CurrentInv, First, Notifies, Observer!At
<1>9. SeenInv(x)'
  BY <1>3, <1>4
     DEF ObserverInv, SeenInv, Begun, Listed, Given, First, Notifies, Observer!At,
         Observer!MaySubscribe
<1>10. QED
  BY <1>5, <1>6, <1>7, <1>8, <1>9 DEF ObserverInv

\* The call that returns leaves no obligation about where it has come to.
LEMMA ReturnCall ==
    ASSUME NEW x, ObserverThreads = {x}, ObserverNames, ObserverInv(x), Observer!Return(x)
    PROVE  CallInv(x)' /\ frame'[x].pc = "idle" /\ frame' \in [ObserverThreads -> Frame]
<1>1. x \in ObserverThreads /\ frame \in [ObserverThreads -> Frame] /\ MaxRecords \in Nat
      /\ MaxPublish \in Nat
  BY Facts
<1>2. Observer!NoFrame \in Frame
  BY <1>1 DEF Observer!NoFrame, Frame, Places
<1>3. frame'[x] = Observer!NoFrame /\ frame' \in [ObserverThreads -> Frame]
  BY <1>1, <1>2 DEF Observer!Return
<1>4. frame'[x].pc = "idle"
  BY <1>3 DEF Observer!NoFrame
<1>5. QED
  BY <1>3, <1>4 DEF CallInv, Frame, Places, Observer!At, SubscribePlaces, PublishPlaces

\* The fields of the frame after Use and Goto.
LEMMA UseFrame ==
    ASSUME NEW x, ObserverThreads = {x}, ObserverNames, ObserverInv(x),
           NEW pc \in Places, NEW r \in 0..MaxRecords, Observer!Use(x, pc, r)
    PROVE  /\ frame' \in [ObserverThreads -> Frame]
           /\ frame'[x].pc = pc /\ frame'[x].rec = r /\ frame'[x].dev = Observer!Dev(x)
           /\ frame'[x].svc = Observer!Svc(x) /\ frame'[x].pub = frame[x].pub
<1>1. x \in ObserverThreads /\ frame \in [ObserverThreads -> Frame] /\ frame[x] \in Frame
  BY Facts
<1> DEFINE f == [frame[x] EXCEPT !.pc = pc, !.rec = r]
<1>2. /\ f \in Frame /\ f.pc = pc /\ f.rec = r /\ f.dev = frame[x].dev
      /\ f.svc = frame[x].svc /\ f.pub = frame[x].pub
  BY <1>1 DEF Frame
<1>3. frame' = [frame EXCEPT ![x] = f]
  BY DEF Observer!Use
<1> HIDE DEF f
<1>4. frame'[x] = f /\ frame' \in [ObserverThreads -> Frame]
  BY <1>1, <1>2, <1>3
<1>5. QED
  BY <1>2, <1>4 DEF Observer!Dev, Observer!Svc

LEMMA GotoFrame ==
    ASSUME NEW x, ObserverThreads = {x}, ObserverNames, ObserverInv(x),
           NEW pc \in Places, Observer!Goto(x, pc)
    PROVE  /\ frame' \in [ObserverThreads -> Frame]
           /\ frame'[x].pc = pc /\ frame'[x].rec = frame[x].rec /\ frame'[x].dev = Observer!Dev(x)
           /\ frame'[x].svc = Observer!Svc(x) /\ frame'[x].pub = frame[x].pub
<1>1. x \in ObserverThreads /\ frame \in [ObserverThreads -> Frame] /\ frame[x] \in Frame
  BY Facts
<1> DEFINE f == [frame[x] EXCEPT !.pc = pc]
<1>2. /\ f \in Frame /\ f.pc = pc /\ f.rec = frame[x].rec /\ f.dev = frame[x].dev
      /\ f.svc = frame[x].svc /\ f.pub = frame[x].pub
  BY <1>1 DEF Frame
<1>3. frame' = [frame EXCEPT ![x] = f]
  BY DEF Observer!Goto
<1> HIDE DEF f
<1>4. frame'[x] = f /\ frame' \in [ObserverThreads -> Frame]
  BY <1>1, <1>2, <1>3
<1>5. QED
  BY <1>2, <1>4 DEF Observer!Dev, Observer!Svc

\* What the search finds.
LEMMA Searched ==
    ASSUME NEW x, ObserverThreads = {x}, ObserverNames, ObserverInv(x), NEW s \in Services
    PROVE  /\ Observer!SearchRecord(s) \in 0..MaxRecords
           /\ Observer!SearchRecord(s) = 0 => services[s] = <<>>
           /\ Observer!SearchRecord(s) # 0 => services[s] = <<Observer!SearchRecord(s)>>
<1>1. CASE services[s] = <<>>
  BY <1>1 DEF Observer!SearchRecord, ObserverNames
<1>2. CASE services[s] # <<>>
  <2>1. Observer!SearchRecord(s) = First(s)
    BY <1>2 DEF Observer!SearchRecord, First
  <2>2. First(s) \in Observer!Records /\ services[s] = <<First(s)>>
    BY <1>2, Facts
  <2>3. QED
    BY <2>1, <2>2 DEF Observer!Records, ObserverNames
<1>3. QED
  BY <1>1, <1>2

LEMMA SubscribeSearchStep ==
    ASSUME NEW x, ObserverThreads = {x}, ObserverNames, ObserverInv(x),
           Observer!SubscribeSearch(x)
    PROVE  ObserverInv(x)'
<1> DEFINE r == Observer!SearchRecord(Observer!Svc(x))
           n == IF r = 0 THEN "add" ELSE "check"
<1>1. /\ Observer!Dev(x) \in HostDevices /\ Observer!Svc(x) \in Services /\ frame[x].pc = "search"
      /\ subscription[Observer!Dev(x)][Observer!Svc(x)] = Observer!Fresh
  BY DEF ObserverInv, CallInv, Observer!SubscribeSearch, Observer!At, SubscribePlaces
<1>2. UNCHANGED <<services, record, made, published, current>>
  BY DEF Observer!SubscribeSearch
<1>3. RecordInv'
  BY <1>2 DEF ObserverInv, RecordInv
<1>4. CASE Observer!Return(x) /\ UNCHANGED subscription
  <2>1. CallInv(x)' /\ frame'[x].pc = "idle" /\ frame' \in [ObserverThreads -> Frame]
    BY <1>4, ReturnCall
  <2>2. TypeInv'
    BY <2>1, <1>2, <1>4, Facts, TypeStep
  <2>3. CurrentInv(x)'
    BY <2>1, <1>1, <1>2 DEF ObserverInv, CurrentInv, First, Notifies, Observer!At
  <2>4. SeenInv(x)'
    BY <2>1, <1>1, <1>2, <1>4
       DEF ObserverInv, SeenInv, Begun, Listed, Given, First, Notifies, Observer!At,
           Observer!MaySubscribe
  <2>5. QED
    BY <2>1, <2>2, <2>3, <2>4, <1>3 DEF ObserverInv
<1>5. CASE /\ Observer!Use(x, n, r)
           /\ subscription' =
               [subscription EXCEPT ![Observer!Dev(x)][Observer!Svc(x)] = Observer!Pending]
  <2>1. /\ r \in 0..MaxRecords /\ (r = 0 => services[Observer!Svc(x)] = <<>>)
        /\ r # 0 => services[Observer!Svc(x)] = <<r>>
    BY <1>1, Searched
  <2>2. n \in Places /\ (n = "add" => r = 0) /\ (n = "check" => r # 0) /\ n \in {"add", "check"}
    BY DEF Places, SubscribePlaces
  <2> HIDE DEF r, n
  <2>3. /\ frame' \in [ObserverThreads -> Frame]
        /\ frame'[x].pc = n /\ frame'[x].rec = r /\ frame'[x].dev = Observer!Dev(x)
        /\ frame'[x].svc = Observer!Svc(x) /\ frame'[x].pub = frame[x].pub
    BY <1>5, <2>1, <2>2, UseFrame
  <2>4. subscription' \in [HostDevices -> [Services -> Seen]]
    BY <1>1, <1>5, Facts DEF Seen
  <2>5. TypeInv'
    BY <2>3, <2>4, <1>2, Facts, TypeStep
  <2>6. CallInv(x)'
    BY <2>1, <2>2, <2>3, <1>1, <1>2
       DEF CallInv, Frame, Places, Observer!At, Observer!Dev, Observer!Svc, SubscribePlaces,
           PublishPlaces
  <2>7. CurrentInv(x)'
    BY <2>2, <2>3, <1>1, <1>2 DEF ObserverInv, CurrentInv, First, Notifies, Observer!At
  <2>8. SeenInv(x)'
    <3> SUFFICES ASSUME NEW d \in HostDevices, NEW s \in Services,
                        subscription'[d][s] # Observer!Fresh
                 PROVE  \/ Begun(x, d, s)'
                        \/ services'[s] # <<>> /\ Listed(x, d, s)' /\ Given(x, d, s)'
      BY DEF SeenInv
    <3>1. CASE d = Observer!Dev(x) /\ s = Observer!Svc(x)
      BY <3>1, <2>2, <2>3 DEF Begun, Observer!Dev, Observer!Svc
    <3>2. CASE ~(d = Observer!Dev(x) /\ s = Observer!Svc(x))
      <4>1. subscription'[d][s] = subscription[d][s]
        BY <3>2, <1>1, <1>5, Facts
      <4>2. services[s] # <<>> /\ Listed(x, d, s) /\ Given(x, d, s)
        BY <4>1, <1>1 DEF ObserverInv, SeenInv, Begun
      <4>3. QED
        BY <4>1, <4>2, <1>1, <1>2, <2>2, <2>3
           DEF Listed, Given, First, Notifies, Observer!At, Observer!MaySubscribe
    <3>3. QED
      BY <3>1, <3>2
  <2>9. QED
    BY <2>5, <2>6, <2>7, <2>8, <1>3 DEF ObserverInv
<1>6. QED
  BY <1>4, <1>5 DEF Observer!SubscribeSearch

LEMMA PublishSearchStep ==
    ASSUME NEW x, ObserverThreads = {x}, ObserverNames, ObserverInv(x), Observer!PublishSearch(x)
    PROVE  ObserverInv(x)'
<1> DEFINE r == Observer!SearchRecord(Observer!Svc(x))
           n == IF r = 0 THEN "create" ELSE "set"
<1>1. Observer!Svc(x) \in Services /\ frame[x].pc = "find"
      /\ frame[x].pub \in Observer!Publications
  BY DEF ObserverInv, CallInv, Observer!PublishSearch, Observer!At, PublishPlaces
<1>2. UNCHANGED <<services, record, made, published, current, subscription>>
  BY DEF Observer!PublishSearch
<1>3. RecordInv'
  BY <1>2 DEF ObserverInv, RecordInv
<1>4. SUFFICES ASSUME frame' \in [ObserverThreads -> Frame], CallInv(x)',
                      frame'[x].pc \in {"idle", "create", "set"}
               PROVE  ObserverInv(x)'
  <2>1. CASE Observer!Return(x)
    BY <2>1, <1>4, ReturnCall
  <2>2. CASE Observer!Use(x, n, r)
    <3>1. /\ r \in 0..MaxRecords /\ (r = 0 => services[Observer!Svc(x)] = <<>>)
          /\ r # 0 => services[Observer!Svc(x)] = <<r>>
      BY <1>1, Searched
    <3>2. n \in Places /\ (n = "create" => r = 0) /\ (n = "set" => r # 0)
          /\ n \in {"create", "set"}
      BY DEF Places, PublishPlaces
    <3> HIDE DEF r, n
    <3>3. /\ frame' \in [ObserverThreads -> Frame]
          /\ frame'[x].pc = n /\ frame'[x].rec = r /\ frame'[x].dev = Observer!Dev(x)
          /\ frame'[x].svc = Observer!Svc(x) /\ frame'[x].pub = frame[x].pub
      BY <2>2, <3>1, <3>2, UseFrame
    <3>4. CallInv(x)'
      BY <3>1, <3>2, <3>3, <1>1, <1>2
         DEF CallInv, Frame, Places, Observer!At, Observer!Dev, Observer!Svc, SubscribePlaces,
             PublishPlaces
    <3>5. QED
      BY <3>2, <3>3, <3>4, <1>4
  <2>3. QED
    BY <2>1, <2>2 DEF Observer!PublishSearch
<1>5. TypeInv'
  BY <1>2, <1>4, Facts, TypeStep
<1>6. CurrentInv(x)'
  BY <1>1, <1>2, <1>4 DEF ObserverInv, CurrentInv, First, Notifies, Observer!At
<1>7. SeenInv(x)'
  BY <1>1, <1>2, <1>4
     DEF ObserverInv, SeenInv, Begun, Listed, Given, First, Notifies, Observer!At,
         Observer!MaySubscribe
<1>8. QED
  BY <1>3, <1>4, <1>5, <1>6, <1>7 DEF ObserverInv

\* A record is made for a service that has none; the other records stay.
LEMMA Added ==
    ASSUME NEW x, ObserverThreads = {x}, ObserverNames, ObserverInv(x),
           NEW s \in Services, services[s] = <<>>,
           NEW new \in Record, Says(new, s), Observer!AddRecord(s, new)
    PROVE  /\ services' \in [Services -> Seq(Observer!Records)]
           /\ record' \in [Observer!Records -> Record]
           /\ made' \in 0..MaxRecords /\ made + 1 \in 1..MaxRecords
           /\ services'[s] = <<made + 1>> /\ record'[made + 1] = new
           /\ \A z \in Services : z # s =>
                 /\ services'[z] = services[z]
                 /\ services[z] # <<>> => record'[Head(services[z])] = record[Head(services[z])]
           /\ RecordInv'
<1>1. /\ services \in [Services -> Seq(Observer!Records)]
      /\ record \in [Observer!Records -> Record]
      /\ made \in 0..MaxRecords /\ MaxRecords \in Nat
  BY Facts
<1>2. /\ made < MaxRecords /\ made' = made + 1 /\ record' = [record EXCEPT ![made + 1] = new]
      /\ services' = [services EXCEPT ![s] = <<made + 1>> \o @]
  BY DEF Observer!AddRecord
<1>3. made' \in 0..MaxRecords /\ made + 1 \in 1..MaxRecords /\ made + 1 \in Observer!Records
  BY <1>1, <1>2 DEF Observer!Records
<1>4. <<made + 1>> \o services[s] = <<made + 1>> /\ <<made + 1>> \in Seq(Observer!Records)
  BY <1>3
<1>5. services'[s] = <<made + 1>> /\ services' \in [Services -> Seq(Observer!Records)]
  BY <1>1, <1>2, <1>4
<1>6. record'[made + 1] = new /\ record' \in [Observer!Records -> Record]
  BY <1>1, <1>2, <1>3
<1>7. \A z \in Services : services[z] # <<>> =>
         /\ Head(services[z]) \in 1..made /\ Head(services[z]) \in Observer!Records
         /\ services[z] = <<Head(services[z])>> /\ Says(record[Head(services[z])], z)
  BY Facts DEF First
<1>8. ASSUME NEW z \in Services, z # s
      PROVE  /\ services'[z] = services[z]
             /\ services[z] # <<>> => record'[Head(services[z])] = record[Head(services[z])]
  <2>1. services'[z] = services[z]
    BY <1>1, <1>2, <1>8
  <2>2. ASSUME services[z] # <<>>
        PROVE  record'[Head(services[z])] = record[Head(services[z])]
    <3>1. Head(services[z]) # made + 1 /\ Head(services[z]) \in Observer!Records
      BY <1>1, <1>7, <2>2
    <3>2. QED
      BY <3>1, <1>1, <1>2
  <2>3. QED
    BY <2>1, <2>2
<1>9. RecordInv'
  <2>1. ASSUME NEW z \in Services, services'[z] # <<>>
        PROVE  \E r \in 1..made' : services'[z] = <<r>> /\ Says(record'[r], z)
    <3>1. CASE z = s
      BY <3>1, <1>1, <1>2, <1>5, <1>6
    <3>2. CASE z # s
      <4> DEFINE h == Head(services[z])
      <4>1. services[z] # <<>>
        BY <3>2, <2>1, <1>8
      <4>2. h \in 1..made /\ services[z] = <<h>> /\ Says(record[h], z)
        BY <4>1, <1>7
      <4>3. record'[h] = record[h] /\ services'[z] = services[z]
        BY <4>1, <1>8, <3>2
      <4>4. h \in 1..made'
        BY <4>2, <1>1, <1>2
      <4> HIDE DEF h
      <4>5. QED
        BY <4>2, <4>3, <4>4
    <3>3. QED
      BY <3>1, <3>2
  <2>2. ASSUME NEW y \in Services, NEW z \in Services, services'[y] # <<>>,
               services'[y] = services'[z]
        PROVE  y = z
    <3>1. CASE y # s /\ z # s
      BY <3>1, <2>2, <1>8 DEF ObserverInv, RecordInv
    <3>2. ASSUME NEW w \in Services, w # s, services'[w] = <<made + 1>>
          PROVE  FALSE
      <4>1. services[w] = <<made + 1>>
        BY <3>2, <1>8
      <4>2. Head(services[w]) = made + 1 /\ services[w] # <<>>
        BY <4>1
      <4>3. QED
        BY <4>2, <1>1, <1>7
    <3>3. QED
      BY <3>1, <3>2, <2>2, <1>5
  <2>3. QED
    BY <2>1, <2>2 DEF RecordInv, Says
<1>10. QED
  BY <1>3, <1>5, <1>6, <1>8, <1>9

LEMMA SubscribeAddStep ==
    ASSUME NEW x, ObserverThreads = {x}, ObserverNames, ObserverInv(x), Observer!SubscribeAdd(x)
    PROVE  ObserverInv(x)'
<1> DEFINE s == Observer!Svc(x)
<1>1. Observer!Dev(x) \in HostDevices /\ s \in Services /\ frame[x].pc = "add" /\ services[s] = <<>>
  BY DEF ObserverInv, CallInv, Observer!SubscribeAdd, Observer!At, SubscribePlaces
<1>2. /\ Observer!AddRecord(s, Observer!NewRecord) /\ Observer!Use(x, "check", made + 1)
      /\ UNCHANGED <<published, current, subscription>>
  BY DEF Observer!SubscribeAdd
<1>3. Observer!NewRecord \in Record /\ Says(Observer!NewRecord, s)
      /\ Observer!NewRecord.publisher = 0
  BY DEF Observer!NewRecord, Record, Policies, Says, ObserverNames
<1>4. /\ services' \in [Services -> Seq(Observer!Records)]
      /\ record' \in [Observer!Records -> Record]
      /\ made' \in 0..MaxRecords /\ made + 1 \in 1..MaxRecords
      /\ services'[s] = <<made + 1>> /\ record'[made + 1] = Observer!NewRecord
      /\ \A z \in Services : z # s =>
            /\ services'[z] = services[z]
            /\ services[z] # <<>> => record'[Head(services[z])] = record[Head(services[z])]
      /\ RecordInv'
  BY <1>1, <1>2, <1>3, Added
<1>5. "check" \in Places /\ made + 1 \in 0..MaxRecords
  BY <1>4 DEF Places, SubscribePlaces
<1>6. /\ frame' \in [ObserverThreads -> Frame]
      /\ frame'[x].pc = "check" /\ frame'[x].rec = made + 1 /\ frame'[x].dev = Observer!Dev(x)
      /\ frame'[x].svc = s /\ frame'[x].pub = frame[x].pub
  BY <1>2, <1>5, UseFrame
<1> HIDE DEF s
<1>7. TypeInv'
  BY <1>2, <1>4, <1>6, Facts, TypeStep
<1>8. CallInv(x)'
  BY <1>1, <1>4, <1>6
     DEF CallInv, Frame, Places, Observer!At, Observer!Dev, Observer!Svc, SubscribePlaces,
         PublishPlaces
<1>9. CurrentInv(x)'
  <2> SUFFICES ASSUME NEW z \in Services
               PROVE  /\ services'[z] = <<>> => current'[z] = 0
                      /\ services'[z] # <<>>
                           => record'[Head(services'[z])].publisher = current'[z]
    BY DEF CurrentInv, First
  <2>1. CASE z = s
    <3>1. current[z] = 0
      BY <2>1, <1>1 DEF ObserverInv, CurrentInv
    <3>2. Head(services'[z]) = made + 1 /\ services'[z] # <<>>
      BY <2>1, <1>4
    <3>3. QED
      BY <3>1, <3>2, <2>1, <1>2, <1>3, <1>4
  <2>2. CASE z # s
    BY <2>2, <1>1, <1>2, <1>4 DEF ObserverInv, CurrentInv, First, Notifies, Observer!At
  <2>3. QED
    BY <2>1, <2>2
<1>10. SeenInv(x)'
  <2> SUFFICES ASSUME NEW d \in HostDevices, NEW z \in Services, subscription'[d][z] # Observer!Fresh
               PROVE  \/ Begun(x, d, z)'
                      \/ services'[z] # <<>> /\ Listed(x, d, z)' /\ Given(x, d, z)'
    BY DEF SeenInv
  <2>1. Begun(x, d, z) \/ (services[z] # <<>> /\ Listed(x, d, z) /\ Given(x, d, z))
    BY <1>2 DEF ObserverInv, SeenInv
  <2>2. CASE z = s
    BY <2>1, <2>2, <1>1, <1>6 DEF Begun, Observer!Dev, Observer!Svc
  <2>3. CASE z # s
    <3>1. services[z] # <<>> /\ Listed(x, d, z) /\ Given(x, d, z)
      BY <2>1, <2>3 DEF Begun, s
    <3>2. services'[z] = services[z] /\ record'[Head(services[z])] = record[Head(services[z])]
      BY <3>1, <2>3, <1>4
    <3>3. QED
      BY <3>1, <3>2, <1>1, <1>2, <1>6
         DEF Listed, Given, First, Notifies, Observer!At, Observer!MaySubscribe
  <2>4. QED
    BY <2>2, <2>3
<1>11. QED
  BY <1>4, <1>7, <1>8, <1>9, <1>10 DEF ObserverInv

LEMMA PublishCreateStep ==
    ASSUME NEW x, ObserverThreads = {x}, ObserverNames, ObserverInv(x), Observer!PublishCreate(x)
    PROVE  ObserverInv(x)'
<1> DEFINE s == Observer!Svc(x)
           p == frame[x].pub
           new == [publisher |-> p, devId |-> Owner[s], policy |-> Policy[s], subscribers |-> {}]
<1>1. s \in Services /\ frame[x].pc = "create" /\ services[s] = <<>>
      /\ p \in Observer!Publications
  BY DEF ObserverInv, CallInv, Observer!PublishCreate, Observer!At, PublishPlaces
<1>2. /\ Observer!AddRecord(s, new) /\ Observer!Return(x)
      /\ current' = [current EXCEPT ![s] = p]
      /\ UNCHANGED <<published, subscription>>
  BY DEF Observer!PublishCreate, Observer!PublishReturn
<1>3. new \in Record /\ Says(new, s) /\ new.publisher = p /\ p \in 0..MaxPublish
  BY <1>1 DEF Record, Says, ObserverNames, Observer!Publications
<1>4. /\ services' \in [Services -> Seq(Observer!Records)]
      /\ record' \in [Observer!Records -> Record]
      /\ made' \in 0..MaxRecords /\ made + 1 \in 1..MaxRecords
      /\ services'[s] = <<made + 1>> /\ record'[made + 1] = new
      /\ \A z \in Services : z # s =>
            /\ services'[z] = services[z]
            /\ services[z] # <<>> => record'[Head(services[z])] = record[Head(services[z])]
      /\ RecordInv'
  <2> HIDE DEF s, new
  <2>1. QED
    BY <1>1, <1>2, <1>3, Added
<1>5. CallInv(x)' /\ frame'[x].pc = "idle" /\ frame' \in [ObserverThreads -> Frame]
  BY <1>2, ReturnCall
<1> HIDE DEF s, p, new
<1>6. current' \in [Services -> 0..MaxPublish] /\ current'[s] = p
      /\ \A z \in Services : z # s => current'[z] = current[z]
  BY <1>1, <1>2, <1>3, Facts
<1>7. TypeInv'
  BY <1>2, <1>4, <1>5, <1>6, Facts, TypeStep
<1>8. CurrentInv(x)'
  <2> SUFFICES ASSUME NEW z \in Services
               PROVE  /\ services'[z] = <<>> => current'[z] = 0
                      /\ services'[z] # <<>>
                           => record'[Head(services'[z])].publisher = current'[z]
    BY DEF CurrentInv, First
  <2>1. CASE z = s
    <3>1. Head(services'[z]) = made + 1 /\ services'[z] # <<>>
      BY <2>1, <1>4
    <3>2. QED
      BY <3>1, <2>1, <1>3, <1>4, <1>6
  <2>2. CASE z # s
    BY <2>2, <1>1, <1>6, <1>4 DEF ObserverInv, CurrentInv, First, Notifies, Observer!At
  <2>3. QED
    BY <2>1, <2>2
<1>9. SeenInv(x)'
  <2> SUFFICES ASSUME NEW d \in HostDevices, NEW z \in Services, subscription'[d][z] # Observer!Fresh
               PROVE  services'[z] # <<>> /\ Listed(x, d, z)' /\ Given(x, d, z)'
    BY DEF SeenInv
  <2>1. services[z] # <<>> /\ Listed(x, d, z) /\ Given(x, d, z)
    BY <1>1, <1>2 DEF ObserverInv, SeenInv, Begun
  <2>2. z # s
    BY <2>1, <1>1
  <2>3. services'[z] = services[z] /\ record'[Head(services[z])] = record[Head(services[z])]
    BY <2>1, <2>2, <1>4
  <2>4. QED
    BY <2>1, <2>3, <1>1, <1>2, <1>5
       DEF Listed, Given, First, Notifies, Observer!At, Observer!MaySubscribe
<1>10. QED
  BY <1>4, <1>5, <1>7, <1>8, <1>9 DEF ObserverInv

LEMMA SubscribeCheckStep ==
    ASSUME NEW x, ObserverThreads = {x}, ObserverNames, ObserverInv(x), Observer!SubscribeCheck(x)
    PROVE  ObserverInv(x)'
<1> DEFINE s == Observer!Svc(x)
           r == frame[x].rec
<1>1. Observer!Dev(x) \in HostDevices /\ s \in Services /\ frame[x].pc = "check"
      /\ services[s] = <<r>>
  BY DEF ObserverInv, CallInv, Observer!SubscribeCheck, Observer!At, SubscribePlaces
<1>2. Observer!Goto(x, "insert") /\ UNCHANGED <<services, record, made, published, current>>
  BY DEF Observer!SubscribeCheck
<1>3. subscription' = IF Observer!MayConnect(record[r], Observer!Dev(x))
         THEN [subscription EXCEPT ![Observer!Dev(x)][s] = Observer!Ready(record[r].publisher)]
         ELSE subscription
  BY DEF Observer!SubscribeCheck, Observer!Rec
<1>4. "insert" \in Places
  BY DEF Places, SubscribePlaces
<1>5. /\ frame' \in [ObserverThreads -> Frame]
      /\ frame'[x].pc = "insert" /\ frame'[x].rec = r /\ frame'[x].dev = Observer!Dev(x)
      /\ frame'[x].svc = s /\ frame'[x].pub = frame[x].pub
  BY <1>2, <1>4, GotoFrame
<1> HIDE DEF s, r
<1>6. First(s) = r /\ services[s] # <<>>
  BY <1>1 DEF First
<1>7. r \in Observer!Records /\ Says(record[r], s) /\ record[r] \in Record
  BY <1>1, <1>6, Facts
<1>8. subscription' \in [HostDevices -> [Services -> Seen]]
  <2>1. CASE Observer!MayConnect(record[r], Observer!Dev(x))
    <3>1. record[r].publisher \in Observer!Publications
      BY <1>7, <2>1 DEF Observer!MayConnect, Record, Observer!Publications, ObserverNames
    <3>2. Observer!Ready(record[r].publisher) \in Seen
      BY <3>1 DEF Seen
    <3>3. QED
      BY <3>2, <2>1, <1>1, <1>3, Facts
  <2>2. QED
    BY <2>1, <1>3, Facts
<1>9. TypeInv'
  BY <1>2, <1>5, <1>8, Facts, TypeStep
<1>10. CallInv(x)'
  BY <1>1, <1>2, <1>5
     DEF CallInv, Frame, Places, Observer!At, Observer!Dev, Observer!Svc, SubscribePlaces,
         PublishPlaces
<1>11. RecordInv'
  BY <1>2 DEF ObserverInv, RecordInv
<1>12. CurrentInv(x)'
  BY <1>1, <1>2, <1>5 DEF ObserverInv, CurrentInv, First, Notifies, Observer!At
<1>13. SeenInv(x)'
  <2> SUFFICES ASSUME NEW d \in HostDevices, NEW z \in Services, subscription'[d][z] # Observer!Fresh
               PROVE  services'[z] # <<>> /\ Listed(x, d, z)' /\ Given(x, d, z)'
    BY DEF SeenInv
  <2>1. CASE d = Observer!Dev(x) /\ z = s
    <3>1. services'[z] # <<>> /\ Listed(x, d, z)'
      BY <2>1, <1>2, <1>5, <1>6 DEF Listed, Observer!At, Observer!Dev, Observer!Svc
    <3>2. ASSUME record[r].publisher # 0, Observer!MaySubscribe(d, z)
          PROVE  subscription'[d][z] = Observer!Ready(record[r].publisher)
      <4>1. Observer!MayConnect(record[r], Observer!Dev(x))
        BY <3>2, <2>1, <1>7 DEF Observer!MayConnect, Says, Observer!MaySubscribe
      <4>2. QED
        BY <4>1, <2>1, <1>1, <1>3, Facts
    <3>3. Given(x, d, z)'
      BY <3>2, <2>1, <1>2, <1>6 DEF Given, First, Observer!MaySubscribe
    <3>4. QED
      BY <3>1, <3>3
  <2>2. CASE ~(d = Observer!Dev(x) /\ z = s)
    <3>1. subscription'[d][z] = subscription[d][z]
      BY <2>2, <1>1, <1>3, Facts
    <3>2. services[z] # <<>> /\ Listed(x, d, z) /\ Given(x, d, z)
      BY <3>1, <2>2, <1>1 DEF ObserverInv, SeenInv, Begun, s
    <3>3. QED
      BY <3>1, <3>2, <1>1, <1>2, <1>5
         DEF Listed, Given, First, Notifies, Observer!At, Observer!MaySubscribe
  <2>3. QED
    BY <2>1, <2>2
<1>14. QED
  BY <1>9, <1>10, <1>11, <1>12, <1>13 DEF ObserverInv

\* A step that writes a field of the record of service s other than its policy and devId.
LEMMA Written ==
    ASSUME NEW x, ObserverThreads = {x}, ObserverNames, ObserverInv(x),
           NEW s \in Services, NEW r, services[s] = <<r>>, NEW new \in Record,
           new.policy = record[r].policy, new.devId = record[r].devId,
           record' = [record EXCEPT ![r] = new], UNCHANGED <<services, made>>
    PROVE  /\ record' \in [Observer!Records -> Record] /\ record'[r] = new
           /\ First(s) = r /\ services[s] # <<>> /\ r \in Observer!Records
           /\ \A z \in Services : z # s /\ services[z] # <<>> =>
                 record'[First(z)] = record[First(z)]
           /\ RecordInv'
<1>1. First(s) = r /\ services[s] # <<>>
  BY DEF First
<1>2. r \in Observer!Records /\ r \in 1..made /\ Says(record[r], s)
  BY <1>1, Facts
<1>3. record' \in [Observer!Records -> Record] /\ record'[r] = new
  BY <1>2, Facts
<1>4. ASSUME NEW z \in Services, z # s, services[z] # <<>>
      PROVE  record'[First(z)] = record[First(z)]
  BY <1>1, <1>4, Facts
<1>5. Says(new, s)
  BY <1>2 DEF Says
<1>6. ASSUME NEW z \in Services, services[z] # <<>>
      PROVE  \E q \in 1..made : services[z] = <<q>> /\ Says(record'[q], z)
  <2>1. CASE z = s
    BY <2>1, <1>2, <1>3, <1>5
  <2>2. CASE z # s
    <3>1. First(z) \in 1..made /\ services[z] = <<First(z)>> /\ Says(record[First(z)], z)
      BY <1>6, Facts
    <3>2. record'[First(z)] = record[First(z)]
      BY <1>4, <1>6, <2>2
    <3>3. QED
      BY <3>1, <3>2
  <2>3. QED
    BY <2>1, <2>2
<1>7. RecordInv'
  BY <1>6 DEF ObserverInv, RecordInv, Says
<1>8. QED
  BY <1>1, <1>2, <1>3, <1>4, <1>7

LEMMA SubscribeInsertStep ==
    ASSUME NEW x, ObserverThreads = {x}, ObserverNames, ObserverInv(x),
           Observer!SubscribeInsert(x)
    PROVE  ObserverInv(x)'
<1> DEFINE s == Observer!Svc(x)
           r == frame[x].rec
           new == [record[r] EXCEPT !.subscribers = @ \cup {Observer!Dev(x)}]
<1>1. Observer!Dev(x) \in HostDevices /\ s \in Services /\ frame[x].pc = "insert"
      /\ services[s] = <<r>>
  BY DEF ObserverInv, CallInv, Observer!SubscribeInsert, Observer!At, SubscribePlaces
<1>2. /\ Observer!Return(x) /\ UNCHANGED <<services, made, published, current, subscription>>
      /\ record' = [record EXCEPT ![r] = new]
  BY DEF Observer!SubscribeInsert
<1> HIDE DEF s, r
<1>3. r \in Observer!Records /\ record[r] \in Record
  <2>1. First(s) = r /\ services[s] # <<>>
    BY <1>1 DEF First
  <2>2. QED
    BY <2>1, <1>1, Facts
<1>4. /\ new \in Record /\ new.policy = record[r].policy /\ new.devId = record[r].devId
      /\ new.publisher = record[r].publisher
      /\ new.subscribers = record[r].subscribers \cup {Observer!Dev(x)}
  BY <1>1, <1>3 DEF Record
<1> HIDE DEF new
<1>5. /\ record' \in [Observer!Records -> Record] /\ record'[r] = new
      /\ First(s) = r /\ services[s] # <<>>
      /\ \A z \in Services : z # s /\ services[z] # <<>> =>
            record'[First(z)] = record[First(z)]
      /\ RecordInv'
  BY <1>1, <1>2, <1>4, Written
<1>6. CallInv(x)' /\ frame'[x].pc = "idle" /\ frame' \in [ObserverThreads -> Frame]
  BY <1>2, ReturnCall
<1>7. TypeInv'
  BY <1>2, <1>5, <1>6, Facts, TypeStep
<1>8. \A z \in Services : services[z] # <<>> =>
         /\ record'[First(z)].publisher = record[First(z)].publisher
         /\ record[First(z)].subscribers \subseteq record'[First(z)].subscribers
  BY <1>4, <1>5
<1>9. \A z \in Services : First(z)' = First(z)
  BY <1>2 DEF First
<1>10. CurrentInv(x)'
  BY <1>1, <1>2, <1>6, <1>8, <1>9 DEF ObserverInv, CurrentInv, Notifies, Observer!At
<1>11. SeenInv(x)'
  <2> SUFFICES ASSUME NEW d \in HostDevices, NEW z \in Services, subscription'[d][z] # Observer!Fresh
               PROVE  services'[z] # <<>> /\ Listed(x, d, z)' /\ Given(x, d, z)'
    BY DEF SeenInv
  <2>1. services[z] # <<>> /\ Listed(x, d, z) /\ Given(x, d, z)
    BY <1>1, <1>2 DEF ObserverInv, SeenInv, Begun
  <2>2. d \in record'[First(z)].subscribers
    <3>1. CASE d \in record[First(z)].subscribers
      BY <3>1, <2>1, <1>8
    <3>2. CASE Observer!Dev(x) = d /\ Observer!Svc(x) = z
      BY <3>2, <1>4, <1>5 DEF s
    <3>3. QED
      BY <3>1, <3>2, <2>1 DEF Listed
  <2>3. Given(x, d, z)'
    BY <2>1, <1>1, <1>2, <1>6, <1>8, <1>9 DEF Given, Notifies, Observer!At, Observer!MaySubscribe
  <2>4. QED
    BY <2>1, <2>2, <2>3, <1>2, <1>9 DEF Listed
<1>12. QED
  BY <1>5, <1>6, <1>7, <1>10, <1>11 DEF ObserverInv

LEMMA PublishSetStep ==
    ASSUME NEW x, ObserverThreads = {x}, ObserverNames, ObserverInv(x), Observer!PublishSet(x)
    PROVE  ObserverInv(x)'
<1> DEFINE s == Observer!Svc(x)
           r == frame[x].rec
           p == frame[x].pub
           new == [record[r] EXCEPT !.publisher = p]
<1>1. s \in Services /\ frame[x].pc = "set" /\ services[s] = <<r>> /\ p \in Observer!Publications
  BY DEF ObserverInv, CallInv, Observer!PublishSet, Observer!At, PublishPlaces
<1>2. /\ Observer!Goto(x, "notify")
      /\ UNCHANGED <<services, made, published, current, subscription>>
      /\ record' = [record EXCEPT ![r] = new]
  BY DEF Observer!PublishSet
<1>3. "notify" \in Places
  BY DEF Places, PublishPlaces
<1>4. /\ frame' \in [ObserverThreads -> Frame]
      /\ frame'[x].pc = "notify" /\ frame'[x].rec = r /\ frame'[x].dev = Observer!Dev(x)
      /\ frame'[x].svc = s /\ frame'[x].pub = p
  BY <1>2, <1>3, GotoFrame
<1> HIDE DEF s, r, p
<1>5. r \in Observer!Records /\ record[r] \in Record
  <2>1. First(s) = r /\ services[s] # <<>>
    BY <1>1 DEF First
  <2>2. QED
    BY <2>1, <1>1, Facts
<1>6. /\ new \in Record /\ new.policy = record[r].policy /\ new.devId = record[r].devId
      /\ new.publisher = p /\ new.subscribers = record[r].subscribers
  BY <1>1, <1>5 DEF Record, Observer!Publications, ObserverNames
<1> HIDE DEF new
<1>7. /\ record' \in [Observer!Records -> Record] /\ record'[r] = new
      /\ First(s) = r /\ services[s] # <<>>
      /\ \A z \in Services : z # s /\ services[z] # <<>> =>
            record'[First(z)] = record[First(z)]
      /\ RecordInv'
  BY <1>1, <1>2, <1>6, Written
<1>8. TypeInv'
  BY <1>2, <1>4, <1>7, Facts, TypeStep
<1>9. CallInv(x)'
  <2>1. Observer!Rec(x)'.publisher = p
    BY <1>4, <1>6, <1>7 DEF Observer!Rec
  <2>2. QED
    BY <2>1, <1>1, <1>2, <1>4
       DEF CallInv, Frame, Places, Observer!At, Observer!Dev, Observer!Svc, SubscribePlaces,
           PublishPlaces
<1>10. \A z \in Services : First(z)' = First(z)
  BY <1>2 DEF First
<1>11. \A z \in Services : Notifies(x, z)' <=> z = s
  BY <1>4 DEF Notifies, Observer!At, Observer!Svc
<1>12. CurrentInv(x)'
  <2> SUFFICES ASSUME NEW z \in Services
               PROVE  /\ services'[z] = <<>> => current'[z] = 0
                      /\ services'[z] # <<>> /\ ~Notifies(x, z)' =>
                            record'[First(z)'].publisher = current'[z]
    BY DEF CurrentInv
  <2>1. ~Notifies(x, z)
    BY <1>1 DEF Notifies, Observer!At
  <2>2. QED
    BY <2>1, <1>2, <1>7, <1>10, <1>11 DEF ObserverInv, CurrentInv
<1>13. SeenInv(x)'
  <2> SUFFICES ASSUME NEW d \in HostDevices, NEW z \in Services, subscription'[d][z] # Observer!Fresh
               PROVE  services'[z] # <<>> /\ Listed(x, d, z)' /\ Given(x, d, z)'
    BY DEF SeenInv
  <2>1. services[z] # <<>> /\ Listed(x, d, z) /\ Given(x, d, z)
    BY <1>1, <1>2 DEF ObserverInv, SeenInv, Begun
  <2>2. d \in record[First(z)].subscribers /\ ~Notifies(x, z)
    BY <2>1, <1>1 DEF Listed, Observer!At, Notifies
  <2>3. d \in record'[First(z)].subscribers
    BY <2>1, <2>2, <1>6, <1>7
  <2>4. Given(x, d, z)'
    <3>1. CASE z = s
      BY <3>1, <1>11 DEF Given
    <3>2. CASE z # s
      <4>1. record'[First(z)'] = record[First(z)]
        BY <3>2, <2>1, <1>7, <1>10
      <4>2. QED
        BY <4>1, <2>1, <2>2, <1>2 DEF Given, Observer!MaySubscribe
    <3>3. QED
      BY <3>1, <3>2
  <2>5. QED
    BY <2>1, <2>3, <2>4, <1>2, <1>10 DEF Listed
<1>14. QED
  BY <1>7, <1>8, <1>9, <1>12, <1>13 DEF ObserverInv

LEMMA PublishNotifyStep ==
    ASSUME NEW x, ObserverThreads = {x}, ObserverNames, ObserverInv(x), Observer!PublishNotify(x)
    PROVE  ObserverInv(x)'
<1> DEFINE s == Observer!Svc(x)
           r == frame[x].rec
           p == frame[x].pub
<1>1. /\ s \in Services /\ frame[x].pc = "notify" /\ services[s] = <<r>>
      /\ p \in Observer!Publications
      /\ record[r].publisher = p
  BY DEF ObserverInv, CallInv, Observer!PublishNotify, Observer!At, PublishPlaces, Observer!Rec
<1>2. /\ Observer!Return(x) /\ UNCHANGED <<services, record, made, published>>
      /\ current' = [current EXCEPT ![s] = p]
  BY DEF Observer!PublishNotify, Observer!PublishReturn
<1>3. subscription' = [d \in HostDevices |-> IF Observer!Notified(x, d)
                          THEN [subscription[d] EXCEPT ![s] = Observer!Ready(p)]
                          ELSE subscription[d]]
  BY <1>1 DEF Observer!PublishNotify, Observer!Rec
<1>4. \A d : Observer!Notified(x, d) <=>
         d \in record[r].subscribers /\ (d = Owner[s] \/ Policy[s] # "PRIVATE")
  BY DEF Observer!Notified, Observer!Rec
<1>5. CallInv(x)' /\ frame'[x].pc = "idle" /\ frame' \in [ObserverThreads -> Frame]
  BY <1>2, ReturnCall
<1> HIDE DEF s, r, p
<1>6. First(s) = r /\ services[s] # <<>>
  BY <1>1 DEF First
<1>7. Observer!Ready(p) \in Seen /\ p \in 0..MaxPublish
  BY <1>1 DEF Seen, Observer!Publications, ObserverNames
<1>8. ASSUME NEW d \in HostDevices
      PROVE  /\ subscription'[d] \in [Services -> Seen]
             /\ Observer!Notified(x, d) => subscription'[d][s] = Observer!Ready(p)
             /\ ~Observer!Notified(x, d) => subscription'[d][s] = subscription[d][s]
             /\ \A z \in Services : z # s => subscription'[d][z] = subscription[d][z]
  <2>1. subscription[d] \in [Services -> Seen]
    BY Facts
  <2>2. QED
    BY <2>1, <1>1, <1>3, <1>7
<1>9. subscription' \in [HostDevices -> [Services -> Seen]]
  BY <1>3, <1>8
<1>10. current' \in [Services -> 0..MaxPublish] /\ current'[s] = p
       /\ \A z \in Services : z # s => current'[z] = current[z]
  BY <1>1, <1>2, <1>7, Facts
<1>11. TypeInv'
  BY <1>2, <1>5, <1>9, <1>10, Facts, TypeStep
<1>12. RecordInv'
  BY <1>2 DEF ObserverInv, RecordInv
<1>13. \A z \in Services : First(z)' = First(z)
  BY <1>2 DEF First
<1>14. \A z \in Services : z # s => ~Notifies(x, z)
  BY DEF Notifies, s
<1>15. CurrentInv(x)'
  <2> SUFFICES ASSUME NEW z \in Services
               PROVE  /\ services'[z] = <<>> => current'[z] = 0
                      /\ services'[z] # <<>> => record'[First(z)'].publisher = current'[z]
    BY DEF CurrentInv
  <2>1. CASE z = s
    BY <2>1, <1>1, <1>2, <1>6, <1>10, <1>13
  <2>2. CASE z # s
    BY <2>2, <1>2, <1>10, <1>13, <1>14 DEF ObserverInv, CurrentInv
  <2>3. QED
    BY <2>1, <2>2
<1>16. SeenInv(x)'
  <2> SUFFICES ASSUME NEW d \in HostDevices, NEW z \in Services, subscription'[d][z] # Observer!Fresh
               PROVE  services'[z] # <<>> /\ Listed(x, d, z)' /\ Given(x, d, z)'
    BY DEF SeenInv
  <2>1. ASSUME subscription[d][z] # Observer!Fresh
        PROVE  services[z] # <<>> /\ d \in record[First(z)].subscribers /\ Given(x, d, z)
    BY <2>1, <1>1 DEF ObserverInv, SeenInv, Begun, Listed, Observer!At
  <2>2. CASE z # s
    <3>1. subscription[d][z] = subscription'[d][z]
      BY <2>2, <1>8
    <3>2. services[z] # <<>> /\ d \in record[First(z)].subscribers /\ Given(x, d, z)
      BY <3>1, <2>1
    <3>3. Given(x, d, z)'
      BY <3>1, <3>2, <2>2, <1>2, <1>13, <1>14 DEF Given, Observer!MaySubscribe
    <3>4. QED
      BY <3>2, <3>3, <1>2, <1>13 DEF Listed
  <2>3. CASE z = s
    <3>1. d \in record[r].subscribers
      BY <2>1, <2>3, <1>4, <1>6, <1>8
    <3>2. Observer!MaySubscribe(d, s) => subscription'[d][s] = Observer!Ready(p)
      BY <3>1, <1>4, <1>8 DEF Observer!MaySubscribe
    <3>3. Given(x, d, z)'
      BY <3>2, <2>3, <1>1, <1>2, <1>6, <1>13 DEF Given, Observer!MaySubscribe
    <3>4. QED
      BY <3>1, <3>3, <2>3, <1>2, <1>6, <1>13 DEF Listed
  <2>4. QED
    BY <2>2, <2>3
<1>17. QED
  BY <1>5, <1>11, <1>12, <1>15, <1>16 DEF ObserverInv

LEMMA ObserverStutter ==
    ASSUME NEW x, ObserverThreads = {x}, ObserverNames, ObserverInv(x), UNCHANGED Observer!vars
    PROVE  ObserverInv(x)'
<1> USE DEF Observer!vars, ObserverInv
<1>1. TypeInv'
  BY Facts, TypeStep
<1>2. CallInv(x)'
  BY DEF CallInv, Observer!At, Observer!Dev, Observer!Svc, Observer!Rec
<1>3. RecordInv' /\ CurrentInv(x)'
  BY DEF RecordInv, CurrentInv, Notifies, First, Observer!At, Observer!Svc
<1>4. SeenInv(x)'
  BY DEF SeenInv, Begun, Listed, Given, First, Notifies, Observer!At, Observer!Dev, Observer!Svc,
     Observer!MaySubscribe
<1>5. QED
  BY <1>1, <1>2, <1>3, <1>4

\* Every step keeps the invariant.
LEMMA ObserverStep ==
    ASSUME NEW x, ObserverThreads = {x}, ObserverNames, ObserverInv(x),
           [Observer!Next]_(Observer!vars)
    PROVE  ObserverInv(x)'
<1>1. CASE Observer!Next
  BY <1>1, SubscribeStep, PublishStep, SubscribeSearchStep, SubscribeAddStep,
     SubscribeCheckStep, SubscribeInsertStep, PublishSearchStep, PublishCreateStep,
     PublishSetStep, PublishNotifyStep DEF Observer!Next
<1>2. CASE UNCHANGED Observer!vars
  BY <1>2, ObserverStutter
<1>3. QED
  BY <1>1, <1>2

\* Between the calls, whoever subscribed is listed and has the last publication.
LEMMA InvConnected ==
    ASSUME NEW x, ObserverThreads = {x}, ObserverNames, ObserverInv(x)
    PROVE  Observer!TypeOK /\ Observer!SubscribersConnected /\ Observer!OneRecordPerService
<1>1. Observer!TypeOK
  BY DEF ObserverInv, TypeInv
<1>2. Observer!SubscribersConnected
  <2> SUFFICES ASSUME Observer!Quiet, NEW d \in HostDevices, NEW s \in Services,
                      subscription[d][s] # Observer!Fresh, current[s] # 0,
                      Observer!MaySubscribe(d, s)
               PROVE  subscription[d][s] = Observer!Ready(current[s])
    BY DEF Observer!SubscribersConnected
  <2>1. frame[x].pc = "idle"
    BY DEF Observer!Quiet, Observer!NoFrame
  <2>2. services[s] # <<>> /\ Given(x, d, s) /\ ~Notifies(x, s)
    BY <2>1 DEF ObserverInv, SeenInv, Begun, Notifies, Observer!At
  <2>3. record[First(s)].publisher = current[s]
    BY <2>2 DEF ObserverInv, CurrentInv
  <2>4. QED
    BY <2>2, <2>3 DEF Given
<1>3. Observer!OneRecordPerService
  <2> SUFFICES ASSUME NEW s \in Services PROVE Len(services[s]) <= 1
    BY DEF Observer!OneRecordPerService
  <2>1. CASE services[s] = <<>>
    BY <2>1
  <2>2. CASE services[s] # <<>>
    <3>1. PICK r \in 1..made : services[s] = <<r>>
      BY <2>2 DEF ObserverInv, RecordInv
    <3>2. QED
      BY <3>1
  <2>3. QED
    BY <2>1, <2>2
<1>4. QED
  BY <1>1, <1>2, <1>3

\* When one thread makes the calls, a service has one record at most, and a
\* driver that subscribed to a service it may use has the interface of its last
\* publication, whichever of HdfServiceObserverSubscribeService and
\* HdfServiceObserverPublishService came first.
THEOREM ConnectedThm ==
    ASSUME NEW x, ObserverThreads = {x}, ObserverNames
    PROVE  Observer!Spec => [](/\ Observer!TypeOK /\ Observer!SubscribersConnected
                               /\ Observer!OneRecordPerService)
<1>1. Observer!Init => ObserverInv(x)
  BY ObserverInit
<1>2. ObserverInv(x) /\ [Observer!Next]_(Observer!vars) => ObserverInv(x)'
  BY ObserverStep
<1>3. ObserverInv(x)
        => Observer!TypeOK /\ Observer!SubscribersConnected /\ Observer!OneRecordPerService
  BY InvConnected
<1>4. QED
  BY <1>1, <1>2, <1>3, PTL DEF Observer!Spec

\* What the choice of the observer at the start means.
LEMMA ObserverRuns ==
    /\ Init /\ part = "observer" => Observer!Init
    /\ part = "observer" /\ [Next]_vars
         => part' = "observer" /\ [Observer!Next]_(Observer!vars)
    /\ part # "observer" /\ [Next]_vars => part' # "observer"
<1>1. Init /\ part = "observer" => Observer!Init
  BY DEF Init
<1>2. part = "observer" /\ Next => part' = "observer" /\ Observer!Next
  BY DEF Next
<1>3. UNCHANGED vars => UNCHANGED <<part, Observer!vars>>
  BY DEF vars, Observer!vars
<1>4. part # "observer" /\ [Next]_vars => part' # "observer"
  BY DEF Next, vars
<1>5. QED
  BY <1>1, <1>2, <1>3, <1>4

\* The same, of the behaviours of Core in which the observer runs.
THEOREM SubscribersConnectedThm == Spec => []SubscribersConnected
<1>1. PICK x \in ObserverThreads : ObserverThreads = {x}
  BY ObserverAssumption
<1>2. ObserverNames
  BY ObserverAssumption DEF ObserverNames, Policies
<1>3. Observer!Spec => [](/\ Observer!TypeOK /\ Observer!SubscribersConnected
                          /\ Observer!OneRecordPerService)
  BY <1>1, <1>2, ConnectedThm
<1> DEFINE Runs == part = "observer"
<1>4. /\ Init /\ Runs => Observer!Init
      /\ Runs /\ [Next]_vars => Runs' /\ [Observer!Next]_(Observer!vars)
      /\ ~Runs /\ [Next]_vars => ~Runs'
  BY ObserverRuns
<1>5. (Runs => /\ Observer!TypeOK /\ Observer!SubscribersConnected
               /\ Observer!OneRecordPerService)
         => SubscribersConnected
  BY DEF SubscribersConnected
<1> HIDE DEF Runs
<1>6. QED
  BY <1>3, <1>4, <1>5, PTL DEF Spec, Observer!Spec

-----------------------------------------------------------------------------
(* The power requests.                                                      *)

\* The invariants of the two parts, each while it runs.
PowerRuns == /\ part = "power_queue" => PowerQueue!PowerInv
             /\ part = "power_mixed" => PowerMixed!MixedInv

LEMMA PowerNames ==
    /\ MaxRequests \in Nat /\ PowerQueue!IsFiniteSet(Callers)
    /\ PowerQueue!Worker \notin Callers
    /\ PowerMixed!MixedNames
  BY PowerAssumption DEF IsFiniteSet, PowerQueue!IsFiniteSet, PowerQueue!Worker,
     PowerMixed!Worker, PowerMixed!MixedNames

\* What the choice of one of them at the start means.
LEMMA PowerParts ==
    /\ part = "power_queue" /\ [Next]_vars
         => part' = part /\ [PowerQueue!Next]_(PowerQueue!vars)
    /\ part = "power_mixed" /\ [Next]_vars
         => part' = part /\ [PowerMixed!Next]_(PowerMixed!vars)
    /\ [Next]_vars => part' = part
<1>1. part = "power_queue" /\ Next => PowerQueue!Next
  BY DEF Next
<1>2. part = "power_mixed" /\ Next => PowerMixed!Next
  BY DEF Next
<1>3. UNCHANGED vars => UNCHANGED <<part, PowerQueue!vars, PowerMixed!vars>>
  BY DEF vars, PowerQueue!vars, PowerQueue!tokenVars, PowerQueue!queueVars,
     PowerMixed!vars, PowerMixed!tokenVars, PowerMixed!queueVars
<1>4. Next => part' = part
  BY DEF Next
<1>5. QED
  BY <1>1, <1>2, <1>3, <1>4 DEF vars

LEMMA PowerInit == ASSUME Init PROVE PowerRuns
<1>1. ASSUME part = "power_queue" PROVE PowerQueue!PowerInv
  <2>1. PowerQueue!Init
    BY <1>1 DEF Init
  <2>2. QED
    BY <2>1, PowerNames, PowerQueue!InitInv
<1>2. ASSUME part = "power_mixed" PROVE PowerMixed!MixedInv
  <2>1. PowerMixed!Init
    BY <1>2 DEF Init
  <2>2. QED
    BY <2>1, PowerNames, PowerMixed!MixedInit
<1>3. QED
  BY <1>1, <1>2 DEF PowerRuns

LEMMA PowerStep == ASSUME PowerRuns, [Next]_vars PROVE PowerRuns'
<1>1. ASSUME part' = "power_queue" PROVE PowerQueue!PowerInv'
  <2>1. PowerQueue!PowerInv /\ [PowerQueue!Next]_(PowerQueue!vars)
    BY <1>1, PowerParts DEF PowerRuns
  <2>2. QED
    BY <2>1, PowerNames, PowerQueue!NextInv
<1>2. ASSUME part' = "power_mixed" PROVE PowerMixed!MixedInv'
  <2>1. PowerMixed!MixedInv /\ [PowerMixed!Next]_(PowerMixed!vars)
    BY <1>2, PowerParts DEF PowerRuns
  <2>2. QED
    BY <2>1, PowerNames, PowerMixed!MixedNext
<1>3. QED
  BY <1>1, <1>2 DEF PowerRuns

\* Of the behaviours of Core in which power requests are made: a device about
\* which none is under way is powered exactly if it is held; and, with direct
\* requests among the queued ones, the count is what was asked for, if callers
\* release only what they acquired (HdfPmAcquireDevice, HdfPmReleaseDevice,
\* HdfTaskEnqueue, PowerStateTokenReleaseWakeLock).
THEOREM HeldIsPoweredThm == Spec => []HeldIsPowered
<1>1. Init => PowerRuns
  BY PowerInit
<1>2. PowerRuns /\ [Next]_vars => PowerRuns'
  BY PowerStep
<1>3. PowerRuns => HeldIsPowered
  BY PowerNames, PowerQueue!PowerConsequences, PowerMixed!MixedCounts
     DEF PowerRuns, HeldIsPowered
<1>4. QED
  BY <1>1, <1>2, <1>3, PTL DEF Spec

-----------------------------------------------------------------------------
(* The message looper.                                                      *)

\* The invariant of the part, while it runs.
LooperRuns == part = "looper_order" => LooperOrder!LooperInv

LEMMA LooperNamed == LooperOrder!LooperNames
  BY LooperAssumption DEF IsFiniteSet, LooperOrder!LooperNames, LooperOrder!IsFiniteSet,
     LooperOrder!Looper

\* What its choice at the start means.
LEMMA LooperPart ==
    /\ part = "looper_order" /\ [Next]_vars
         => part' = part /\ [LooperOrder!Next]_(LooperOrder!vars)
    /\ [Next]_vars => part' = part
<1>1. part = "looper_order" /\ Next => LooperOrder!Next
  BY DEF Next
<1>2. UNCHANGED vars => UNCHANGED <<part, LooperOrder!vars>>
  BY DEF vars, LooperOrder!vars, LooperOrder!queueVars, LooperOrder!history
<1>3. Next => part' = part
  BY DEF Next
<1>4. QED
  BY <1>1, <1>2, <1>3 DEF vars

\* Of the behaviours of Core in which a looper runs: it dispatches what each sender
\* queued with one delay in the order of sending, and before it stops all that was
\* in its list to be dispatched at once (HdfMessageTaskSendMessage,
\* HdfMessageQueueEnqueue, HdfMessageQueueNext, HdfMessageLooperStop).
THEOREM LooperInOrderThm == Spec => []LooperInOrder
<1>1. Init => LooperRuns
  <2> SUFFICES ASSUME Init, part = "looper_order" PROVE LooperOrder!LooperInv
    BY DEF LooperRuns
  <2>1. LooperOrder!Init
    BY DEF Init
  <2>2. QED
    BY <2>1, LooperNamed, LooperOrder!LooperInit
<1>2. LooperRuns /\ [Next]_vars => LooperRuns'
  <2> SUFFICES ASSUME LooperRuns, [Next]_vars, part' = "looper_order" PROVE LooperOrder!LooperInv'
    BY DEF LooperRuns
  <2>1. LooperOrder!LooperInv /\ [LooperOrder!Next]_(LooperOrder!vars)
    BY LooperPart DEF LooperRuns
  <2>2. QED
    BY <2>1, LooperNamed, LooperOrder!LooperNext
<1>3. LooperRuns => LooperInOrder
  BY LooperNamed, LooperOrder!LooperSafe DEF LooperRuns, LooperInOrder
<1>4. QED
  BY <1>1, <1>2, <1>3, PTL DEF Spec
=============================================================================

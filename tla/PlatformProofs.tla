--------------------------- MODULE PlatformProofs ---------------------------
(***************************************************************************)
(* Proofs about the parts of Platform.  A behaviour of Platform in which a *)
(* component runs is a behaviour of that component: the theorems about the *)
(* component, proved in a module of its own, carry over to it.             *)
(***************************************************************************)
EXTENDS Platform, FiniteSetTheorems, TLAPS

-----------------------------------------------------------------------------
(* Events.                                                                 *)

\* What the choice of the events at the start means: PlatformEvent runs on, or never.
LEMMA EventRuns ==
    /\ Init /\ part = "event" => Event!Init
    /\ part = "event" /\ [Next]_vars => part' = "event" /\ [Event!Next]_(Event!vars)
    /\ part # "event" /\ [Next]_vars => part' # "event"
<1>1. Init /\ part = "event" => Event!Init
  BY DEF Init
<1>2. part = "event" /\ Next => part' = "event" /\ Event!Next
  BY DEF Next
<1>3. UNCHANGED vars => UNCHANGED <<part, Event!vars>>
  BY DEF vars, Event!vars, Event!eventVars
<1>4. part # "event" /\ [Next]_vars => part' # "event"
  BY DEF Next, vars
<1>5. QED
  BY <1>1, <1>2, <1>3, <1>4

\* In the instance of Platform, whose late posts do not reach the thread's next wait
\* (LatePostLands = FALSE): no waiter on the stack of a call that has returned is in
\* the list, a waiter that was taken out of it is woken, and a wait that returns
\* events returns only ones it asked for, all of them in PLAT_EVENT_MODE_AND; it may
\* succeed with none (PlatformEventWait, PlatformEventPost).
THEOREM EventsDeliveredThm == Spec => []EventsDelivered
<1>1. Event!Spec => []Event!EventsDelivered
  <2>1. Event!EventNames /\ ~FALSE
    BY EventAssumption DEF Event!EventNames
  <2>2. QED
    BY <2>1, Event!EventsDeliveredThm
<1> DEFINE Runs == part = "event"
<1>2. /\ Init /\ Runs => Event!Init
      /\ Runs /\ [Next]_vars => Runs' /\ [Event!Next]_(Event!vars)
      /\ ~Runs /\ [Next]_vars => ~Runs'
  BY EventRuns
<1>3. (Runs => Event!EventsDelivered) => EventsDelivered
  BY DEF EventsDelivered
<1> HIDE DEF Runs
<1>4. QED
  BY <1>1, <1>2, <1>3, PTL DEF Spec, Event!Spec

-----------------------------------------------------------------------------
(* Devices.                                                                *)

\* What the choice of the device at the start means.
LEMMA DeviceRuns ==
    /\ Init /\ part = "device" => Device!DeviceInit
    /\ part = "device" /\ [Next]_vars
         => part' = "device" /\ [Device!DeviceNext]_(Device!deviceVars)
    /\ part # "device" /\ [Next]_vars => part' # "device"
<1>1. Init /\ part = "device" => Device!DeviceInit
  BY DEF Init
<1>2. part = "device" /\ Next => part' = "device" /\ Device!DeviceNext
  BY DEF Next
<1>3. UNCHANGED vars => UNCHANGED <<part, Device!deviceVars>>
  BY DEF vars, Device!deviceVars, Device!devVars, Device!vars, Device!eventVars
<1>4. part # "device" /\ [Next]_vars => part' # "device"
  BY DEF Next, vars
<1>5. QED
  BY <1>1, <1>2, <1>3, <1>4

\* A device that is added once implements SharedDevice, for any number of users: it is
\* found only between PlatformDeviceAdd and PlatformDeviceDel, which ends when nobody
\* holds it; and the owner is told that it is dead by the last PlatformDevicePut.
THEOREM ImplementsSharedThm == Spec => ImplementsShared
<1>1. Device!DeviceSpec => /\ Device!Shared!Spec
                           /\ [](Device!DeviceTypeOK /\ Device!DeadIsLast)
  <2>1. Device!DeviceNames
    BY EventAssumption, DeviceAssumption
       DEF Device!DeviceNames, Device!EventNames, IsFiniteSet, Device!IsFiniteSet
  <2>2. QED
    BY <2>1, Device!ImplementsSharedThm
<1> DEFINE Runs == part = "device"
<1>2. /\ Init /\ Runs => Device!DeviceInit
      /\ Runs /\ [Next]_vars => Runs' /\ [Device!DeviceNext]_(Device!deviceVars)
      /\ ~Runs /\ [Next]_vars => ~Runs'
  BY DeviceRuns
<1> HIDE DEF Runs
<1>3. Spec => /\ Runs => Device!Shared!Init
              /\ [](Runs => Device!DeviceTypeOK /\ Device!DeadIsLast)
              /\ [][Runs => [Device!Shared!Next]_(Device!Shared!vars)]_vars
  BY <1>1, <1>2, PTL DEF Spec, Device!DeviceSpec, Device!Shared!Spec
<1>4. QED
  BY <1>3 DEF Runs, ImplementsShared

-----------------------------------------------------------------------------
(* Queues.                                                                 *)

\* The facts about sequences the steps of the queue need.
LEMMA QueueAppendFacts ==
  ASSUME NEW S, NEW s \in Seq(S), NEW e \in S
  PROVE  /\ Append(s, e) \in Seq(S)
         /\ Len(Append(s, e)) = Len(s) + 1
         /\ \A k \in 1..Len(s) : Append(s, e)[k] = s[k]
         /\ Append(s, e)[Len(s) + 1] = e
  OBVIOUS

LEMMA QueueTailFacts ==
  ASSUME NEW S, NEW s \in Seq(S), s # << >>
  PROVE  /\ Tail(s) \in Seq(S)
         /\ Len(Tail(s)) = Len(s) - 1 /\ Len(s) > 0
         /\ Head(s) \in S /\ Head(s) = s[1]
         /\ \A k \in 1..(Len(s) - 1) : Tail(s)[k] = s[k + 1]
  OBVIOUS

\* The worker finds the list empty, or takes its first message.
LEMMA QueueTakeFacts ==
  ASSUME QueueQuiet!Take
  PROVE  \/ msgs = << >> /\ msg' = 0 /\ msgs' = msgs
         \/ msgs # << >> /\ msg' = Head(msgs) /\ msgs' = Tail(msgs)
  BY Zenon DEF QueueQuiet!Take

(* Type correctness.                                                       *)

\* Every step of the owner, the clients and the worker keeps the types.
LEMMA QueueTypeStep ==
  ASSUME MaxAdded \in Nat, QueueQuiet!TypeOK, [QueueQuiet!Next]_(QueueQuiet!vars)
  PROVE  QueueQuiet!TypeOK'
<1> USE DEF QueueQuiet!queue, QueueQuiet!clients, QueueQuiet!Uses
<1>1. CASE QueueQuiet!PlatformQueueCreate
  BY <1>1 DEF QueueQuiet!PlatformQueueCreate, QueueQuiet!TypeOK
<1>2. CASE QueueQuiet!ThreadStart
  BY <1>2 DEF QueueQuiet!ThreadStart, QueueQuiet!TypeOK
<1>3. CASE QueueQuiet!StartFails
  BY <1>3 DEF QueueQuiet!StartFails, QueueQuiet!TypeOK
<1>4. CASE QueueQuiet!SetStart
  BY <1>4 DEF QueueQuiet!SetStart, QueueQuiet!TypeOK
<1>5. CASE QueueQuiet!PlatformQueueDestroy
  BY <1>5 DEF QueueQuiet!PlatformQueueDestroy, QueueQuiet!TypeOK
<1>6. CASE QueueQuiet!DestroyPosts
  BY <1>6 DEF QueueQuiet!DestroyPosts, QueueQuiet!TypeOK
<1>7. ASSUME NEW k \in QueueClients, QueueQuiet!PlatformQueueAddMsg(k) PROVE QueueQuiet!TypeOK'
  <2>1. added + 1 \in 1..MaxAdded /\ msgs \in Seq(1..MaxAdded)
    BY <1>7 DEF QueueQuiet!PlatformQueueAddMsg, QueueQuiet!TypeOK
  <2>2. msgs' \in Seq(1..MaxAdded)
    BY <1>7, <2>1, QueueAppendFacts DEF QueueQuiet!PlatformQueueAddMsg
  <2>3. QED
    BY <1>7, <2>1, <2>2 DEF QueueQuiet!PlatformQueueAddMsg, QueueQuiet!TypeOK
<1>8. ASSUME NEW k \in QueueClients, QueueQuiet!AddPosts(k) PROVE QueueQuiet!TypeOK'
  BY <1>8 DEF QueueQuiet!AddPosts, QueueQuiet!TypeOK
<1>9. ASSUME NEW k \in QueueClients, QueueQuiet!Returns(k) PROVE QueueQuiet!TypeOK'
  BY <1>9 DEF QueueQuiet!Returns, QueueQuiet!TypeOK
<1>10. CASE QueueQuiet!SemWait
  BY <1>10 DEF QueueQuiet!SemWait, QueueQuiet!TypeOK
<1>11. CASE QueueQuiet!Look
  BY <1>11 DEF QueueQuiet!Look, QueueQuiet!TypeOK
<1>12. CASE QueueQuiet!Take
  <2>1. msg' \in 0..MaxAdded /\ msgs' \in Seq(1..MaxAdded)
    <3>1. CASE msgs = << >> /\ msg' = 0 /\ msgs' = msgs
      BY <3>1 DEF QueueQuiet!TypeOK
    <3>2. CASE msgs # << >> /\ msg' = Head(msgs) /\ msgs' = Tail(msgs)
      BY <3>2, QueueTailFacts DEF QueueQuiet!TypeOK
    <3>3. QED
      BY <1>12, <3>1, <3>2, QueueTakeFacts
  <2>2. QED
    BY <1>12, <2>1 DEF QueueQuiet!Take, QueueQuiet!TypeOK
<1>13. CASE QueueQuiet!Handle
  <2>1. msg # 0 => Append(handled, msg) \in Seq(1..MaxAdded)
    BY QueueAppendFacts DEF QueueQuiet!TypeOK
  <2>2. QED
    BY <1>13, <2>1 DEF QueueQuiet!Handle, QueueQuiet!TypeOK
<1>14. CASE UNCHANGED QueueQuiet!vars
  BY <1>14 DEF QueueQuiet!vars, QueueQuiet!TypeOK
<1>15. QED
  BY <1>1, <1>2, <1>3, <1>4, <1>5, <1>6, <1>7, <1>8, <1>9, <1>10, <1>11, <1>12,
     <1>13, <1>14 DEF QueueQuiet!Next

\* The ranges of the queue's state, for any number of clients and messages
\* (PlatformQueueAddMsg, PlatformQueueThreadWorker).
THEOREM QueueTypeThm ==
  ASSUME MaxAdded \in Nat
  PROVE  QueueQuiet!Spec => []QueueQuiet!TypeOK
<1>1. QueueQuiet!Init => QueueQuiet!TypeOK
  <2>1. << >> \in Seq(1..MaxAdded) /\ 0 \in 0..MaxAdded
    OBVIOUS
  <2>2. QueueQuiet!Init => start \in BOOLEAN /\ broken \in BOOLEAN /\ msgs \in Seq(1..MaxAdded)
                 /\ handled \in Seq(1..MaxAdded)
    BY <2>1, Zenon DEF QueueQuiet!Init
  <2>3. QED
    BY <2>2 DEF QueueQuiet!Init, QueueQuiet!TypeOK
<1>2. QueueQuiet!TypeOK /\ [QueueQuiet!Next]_(QueueQuiet!vars) => QueueQuiet!TypeOK'
  BY QueueTypeStep
<1>3. QED
  BY <1>1, <1>2, PTL DEF QueueQuiet!Spec

-----------------------------------------------------------------------------
(* The order of the messages.                                              *)

\* The messages taken out of the list so far.
QueueInHand == worker = "handle" /\ msg # 0
QueueTaken  == IF QueueInHand THEN Len(handled) + 1 ELSE Len(handled)

QueueOrderInv ==
  /\ \A i \in DOMAIN handled : handled[i] = i
  /\ QueueInHand => msg = Len(handled) + 1
  /\ added = QueueTaken + Len(msgs)
  /\ \A j \in 1..Len(msgs) : msgs[j] = QueueTaken + j

\* There is no worker before PlatformQueueStart.
QueueStartInv == owner \in {"create", "start"} => worker = "none"

LEMMA QueueStartStep ==
  ASSUME QueueStartInv, [QueueQuiet!Next]_(QueueQuiet!vars)
  PROVE  QueueStartInv'
  BY DEF QueueStartInv, QueueQuiet!Next, QueueQuiet!PlatformQueueCreate, QueueQuiet!ThreadStart,
     QueueQuiet!StartFails, QueueQuiet!SetStart,
         QueueQuiet!PlatformQueueDestroy, QueueQuiet!DestroyPosts, QueueQuiet!SemWait,
         QueueQuiet!Look, QueueQuiet!AddPosts, QueueQuiet!Returns,
         QueueQuiet!PlatformQueueAddMsg, QueueQuiet!Take, QueueQuiet!Handle, QueueQuiet!vars,
         QueueQuiet!queue

\* The steps that touch neither the list nor what was taken out of it.
LEMMA QueueOrderKept ==
  ASSUME QueueOrderInv, UNCHANGED <<msgs, msg, handled, added>>,
         worker = "handle" <=> worker' = "handle"
  PROVE  QueueOrderInv'
<1>1. QueueInHand' <=> QueueInHand
  BY DEF QueueInHand
<1>2. QueueTaken' = QueueTaken
  BY <1>1 DEF QueueTaken
<1>3. QED
  BY <1>1, <1>2 DEF QueueOrderInv

\* Insertions go to the end of the list, the worker takes its head, and what it
\* took is handled before it takes another.
LEMMA QueueOrderStep ==
  ASSUME MaxAdded \in Nat, QueueQuiet!TypeOK, QueueStartInv, QueueOrderInv,
         [QueueQuiet!Next]_(QueueQuiet!vars)
  PROVE  QueueOrderInv'
<1> USE DEF QueueQuiet!queue, QueueQuiet!clients
<1>0. /\ msgs \in Seq(1..MaxAdded) /\ handled \in Seq(1..MaxAdded)
      /\ Len(msgs) \in Nat /\ Len(handled) \in Nat /\ added \in Nat /\ QueueTaken \in Nat
  BY DEF QueueQuiet!TypeOK, QueueTaken
<1>1. CASE \/ QueueQuiet!PlatformQueueCreate \/ QueueQuiet!ThreadStart
           \/ QueueQuiet!StartFails \/ QueueQuiet!SetStart
           \/ QueueQuiet!PlatformQueueDestroy \/ QueueQuiet!DestroyPosts
           \/ QueueQuiet!SemWait \/ QueueQuiet!Look
           \/ (\E k \in QueueClients : QueueQuiet!AddPosts(k) \/ QueueQuiet!Returns(k))
           \/ UNCHANGED QueueQuiet!vars
  <2>1. UNCHANGED <<msgs, msg, handled, added>>
    BY <1>1 DEF QueueQuiet!PlatformQueueCreate, QueueQuiet!ThreadStart, QueueQuiet!StartFails,
       QueueQuiet!SetStart,
         QueueQuiet!PlatformQueueDestroy, QueueQuiet!DestroyPosts, QueueQuiet!SemWait,
         QueueQuiet!Look, QueueQuiet!AddPosts, QueueQuiet!Returns, QueueQuiet!vars
  <2>2. worker = "handle" <=> worker' = "handle"
    <3>1. CASE QueueQuiet!ThreadStart \/ QueueQuiet!SemWait \/ QueueQuiet!Look
      <4>1. worker' # "handle"
        BY <3>1 DEF QueueQuiet!ThreadStart, QueueQuiet!SemWait, QueueQuiet!Look
      <4>2. QED
        BY <3>1, <4>1
           DEF QueueQuiet!ThreadStart, QueueQuiet!SemWait, QueueQuiet!Look, QueueStartInv
    <3>2. CASE ~(QueueQuiet!ThreadStart \/ QueueQuiet!SemWait \/ QueueQuiet!Look)
      BY <1>1, <3>2
         DEF QueueQuiet!PlatformQueueCreate, QueueQuiet!StartFails, QueueQuiet!SetStart,
           QueueQuiet!PlatformQueueDestroy, QueueQuiet!DestroyPosts, QueueQuiet!AddPosts,
           QueueQuiet!Returns, QueueQuiet!vars
    <3>3. QED
      BY <3>1, <3>2
  <2>3. QED
    BY <2>1, <2>2, QueueOrderKept
<1>2. ASSUME NEW k \in QueueClients, QueueQuiet!PlatformQueueAddMsg(k) PROVE QueueOrderInv'
  <2>1. /\ msgs' = Append(msgs, added + 1) /\ added' = added + 1
        /\ UNCHANGED <<worker, msg, handled>> /\ added + 1 \in 1..MaxAdded
    BY <1>0, <1>2 DEF QueueQuiet!PlatformQueueAddMsg, QueueQuiet!TypeOK
  <2>2. QueueTaken' = QueueTaken /\ (QueueInHand' <=> QueueInHand)
    BY <2>1 DEF QueueTaken, QueueInHand
  <2>3. /\ Len(msgs') = Len(msgs) + 1
        /\ \A j \in 1..Len(msgs) : msgs'[j] = msgs[j]
        /\ msgs'[Len(msgs) + 1] = added + 1
    BY <1>0, <2>1, QueueAppendFacts
  <2>4. added' = QueueTaken' + Len(msgs')
    BY <1>0, <2>1, <2>2, <2>3 DEF QueueOrderInv
  <2>5. \A j \in 1..Len(msgs') : msgs'[j] = QueueTaken' + j
    <3> SUFFICES ASSUME NEW j \in 1..(Len(msgs) + 1) PROVE msgs'[j] = QueueTaken + j
      BY <2>2, <2>3
    <3>1. CASE j \in 1..Len(msgs)
      BY <2>3, <3>1 DEF QueueOrderInv
    <3>2. CASE j = Len(msgs) + 1
      BY <1>0, <2>3, <3>2 DEF QueueOrderInv
    <3>3. QED
      BY <1>0, <3>1, <3>2
  <2>6. QED
    BY <2>1, <2>2, <2>4, <2>5 DEF QueueOrderInv
<1>3. CASE QueueQuiet!Take
  <2>1. /\ worker = "take" /\ worker' = "handle" /\ UNCHANGED <<handled, added>>
        /\ ~QueueInHand /\ QueueTaken = Len(handled)
    BY <1>3 DEF QueueQuiet!Take, QueueInHand, QueueTaken
  <2>2. CASE msgs = << >> /\ msg' = 0 /\ msgs' = msgs
    <3>1. ~QueueInHand' /\ QueueTaken' = QueueTaken
      BY <2>1, <2>2 DEF QueueInHand, QueueTaken
    <3>2. QED
      BY <2>1, <2>2, <3>1 DEF QueueOrderInv
  <2>3. CASE msgs # << >> /\ msg' = Head(msgs) /\ msgs' = Tail(msgs)
    <3>1. /\ Len(msgs) > 0 /\ Len(msgs') = Len(msgs) - 1 /\ msg' = msgs[1]
          /\ \A k \in 1..(Len(msgs) - 1) : msgs'[k] = msgs[k + 1]
      BY <1>0, <2>3, QueueTailFacts
    <3>2. msg' = Len(handled) + 1
      BY <1>0, <2>1, <3>1 DEF QueueOrderInv
    <3>3. QueueInHand' /\ QueueTaken' = QueueTaken + 1
      BY <1>0, <2>1, <3>2 DEF QueueInHand, QueueTaken
    <3>4. ASSUME NEW j \in 1..Len(msgs') PROVE msgs'[j] = QueueTaken' + j
      <4>1. j + 1 \in 1..Len(msgs) /\ msgs'[j] = msgs[j + 1]
        BY <1>0, <3>1
      <4>2. QED
        BY <1>0, <3>3, <4>1 DEF QueueOrderInv
    <3>5. added' = QueueTaken' + Len(msgs')
      BY <1>0, <2>1, <3>1, <3>3 DEF QueueOrderInv
    <3>6. QED
      BY <2>1, <3>2, <3>3, <3>4, <3>5 DEF QueueOrderInv
  <2>4. QED
    BY <1>3, <2>2, <2>3, QueueTakeFacts
<1>4. CASE QueueQuiet!Handle
  <2>1. /\ worker = "handle" /\ worker' = "wait" /\ UNCHANGED <<msgs, added>>
        /\ ~QueueInHand'
    BY <1>4 DEF QueueQuiet!Handle, QueueInHand
  <2>2. CASE msg = 0
    <3>1. handled' = handled /\ ~QueueInHand
      BY <1>4, <2>2 DEF QueueQuiet!Handle, QueueInHand
    <3>2. QueueTaken' = QueueTaken
      BY <2>1, <3>1 DEF QueueTaken
    <3>3. QED
      BY <2>1, <3>1, <3>2 DEF QueueOrderInv
  <2>3. CASE msg # 0
    <3>1. handled' = Append(handled, msg) /\ QueueInHand /\ msg = Len(handled) + 1
      BY <1>4, <2>1, <2>3 DEF QueueQuiet!Handle, QueueInHand, QueueOrderInv
    <3>2. /\ Len(handled') = Len(handled) + 1 /\ DOMAIN handled' = 1..(Len(handled) + 1)
          /\ \A i \in 1..Len(handled) : handled'[i] = handled[i]
          /\ handled'[Len(handled) + 1] = Len(handled) + 1
      <4>1. msg \in 1..MaxAdded
        BY <2>3 DEF QueueQuiet!TypeOK
      <4>2. QED
        BY <1>0, <3>1, <4>1, QueueAppendFacts
    <3>3. QueueTaken' = QueueTaken
      BY <2>1, <3>1, <3>2 DEF QueueTaken
    <3>4. \A i \in DOMAIN handled' : handled'[i] = i
      <4>1. DOMAIN handled = 1..Len(handled)
        BY <1>0
      <4>2. ASSUME NEW i \in 1..(Len(handled) + 1) PROVE handled'[i] = i
        <5>1. CASE i \in 1..Len(handled)
          BY <3>2, <4>1, <5>1 DEF QueueOrderInv
        <5>2. QED
          BY <1>0, <3>2, <5>1
      <4>3. QED
        BY <3>2, <4>2
    <3>5. QED
      BY <2>1, <3>3, <3>4 DEF QueueOrderInv
  <2>4. QED
    BY <2>2, <2>3
<1>5. QED
  BY <1>1, <1>2, <1>3, <1>4 DEF QueueQuiet!Next

\* The messages of any number of clients are handled in the order of their
\* insertions, each at most once, however the posts of the clients, the worker
\* and the end of the queue interleave (PlatformQueueThreadWorker).
THEOREM QueueHandledInOrderThm ==
  ASSUME MaxAdded \in Nat
  PROVE  QueueQuiet!Spec => []QueueQuiet!HandledInOrder
<1>1. QueueQuiet!Init => QueueStartInv /\ QueueOrderInv
  BY DEF QueueQuiet!Init, QueueStartInv, QueueOrderInv, QueueInHand, QueueTaken
<1>2. QueueQuiet!TypeOK /\ QueueStartInv /\ QueueOrderInv /\ [QueueQuiet!Next]_(QueueQuiet!vars)
         => (QueueStartInv /\ QueueOrderInv)'
  BY QueueStartStep, QueueOrderStep
<1>3. QueueOrderInv => QueueQuiet!HandledInOrder
  BY DEF QueueOrderInv, QueueQuiet!HandledInOrder
<1>4. QED
  BY <1>1, <1>2, <1>3, QueueTypeThm, PTL DEF QueueQuiet!Spec

-----------------------------------------------------------------------------
(* The end of the queue.                                                   *)

\* The clients that have inserted a message and not posted yet, and the post
\* the worker has taken without having taken a message.
QueueAdders   == {k \in QueueClients : client[k] = "add"}
QueueInFlight == IF worker \in {"look", "take"} THEN 1 ELSE 0

\* While the queue runs, each message in the list has a post of its own ...
QueuePostInv == owner = "running" => Len(msgs) = sem + QueueInFlight + Cardinality(QueueAdders)

\* ... and each message that is not handled a client that waits for it.
QueueWaitedInv ==
  owner = "running" =>
    \A m \in (Len(handled) + 1)..added :
      \E k \in QueueClients : client[k] # "idle" /\ waitsFor[k] = m

\* The queue lives until the owner's last post, and the worker, which frees it
\* when it finds the flag down, does not look at the flag before.
QueueLifeInv ==
  /\ owner \in {"start", "started", "running", "destroy"} => memory = "live"
  /\ owner \in {"create", "start", "started"} =>
       added = 0 /\ sem = 0 /\ worker \in {"none", "wait"}
  /\ owner = "running" => start
  /\ owner # "running" => \A k \in QueueClients : client[k] = "idle"
  /\ owner = "destroy" => sem = 0 /\ worker # "look"
  /\ ~ broken

QueueEndInv == QueuePostInv /\ QueueWaitedInv /\ QueueLifeInv

\* The number of clients that are about to post, as clients insert and post.
LEMMA QueueAdderFacts ==
  ASSUME IsFiniteSet(QueueClients), QueueQuiet!TypeOK
  PROVE  /\ Cardinality(QueueAdders) \in Nat
         /\ (\A k \in QueueClients : client[k] = "idle") => Cardinality(QueueAdders) = 0
         /\ \A k \in QueueClients : client[k] = "idle" /\ client' = [client EXCEPT ![k] = "add"]
              => Cardinality(QueueAdders') = Cardinality(QueueAdders) + 1
         /\ \A k \in QueueClients : client[k] = "add" /\ client' = [client EXCEPT ![k] = "wait"]
              => Cardinality(QueueAdders') = Cardinality(QueueAdders) - 1
         /\ \A k \in QueueClients : client[k] = "wait" /\ client' = [client EXCEPT ![k] = "idle"]
              => QueueAdders' = QueueAdders
         /\ client' = client => QueueAdders' = QueueAdders
<1>1. IsFiniteSet(QueueAdders) /\ Cardinality(QueueAdders) \in Nat
  BY FS_Subset, FS_CardinalityType DEF QueueAdders
<1>2. (\A k \in QueueClients : client[k] = "idle") => QueueAdders = {}
  BY DEF QueueAdders
<1>3. ASSUME NEW k \in QueueClients, client[k] = "idle", client' = [client EXCEPT ![k] = "add"]
      PROVE  Cardinality(QueueAdders') = Cardinality(QueueAdders) + 1
  <2>1. QueueAdders' = QueueAdders \cup {k} /\ k \notin QueueAdders
    BY <1>3 DEF QueueAdders, QueueQuiet!TypeOK
  <2>2. QED
    BY <1>1, <2>1, FS_AddElement
<1>4. ASSUME NEW k \in QueueClients, client[k] = "add", client' = [client EXCEPT ![k] = "wait"]
      PROVE  Cardinality(QueueAdders') = Cardinality(QueueAdders) - 1
  <2>1. QueueAdders' = QueueAdders \ {k} /\ k \in QueueAdders
    BY <1>4 DEF QueueAdders, QueueQuiet!TypeOK
  <2>2. QED
    BY <1>1, <2>1, FS_RemoveElement
<1>5. ASSUME NEW k \in QueueClients, client[k] = "wait", client' = [client EXCEPT ![k] = "idle"]
      PROVE  QueueAdders' = QueueAdders
  BY <1>5 DEF QueueAdders, QueueQuiet!TypeOK
<1>6. client' = client => QueueAdders' = QueueAdders
  BY DEF QueueAdders
<1>7. QED
  BY <1>1, <1>2, <1>3, <1>4, <1>5, <1>6, FS_EmptySet

\* Each message in the list keeps its own post.
LEMMA QueuePostStep ==
  ASSUME MaxAdded \in Nat, IsFiniteSet(QueueClients), QueueQuiet!TypeOK, QueueOrderInv,
         QueueEndInv, [QueueQuiet!Next]_(QueueQuiet!vars)
  PROVE  QueuePostInv'
<1> USE DEF QueueQuiet!queue, QueueQuiet!clients
<1>0. /\ msgs \in Seq(1..MaxAdded) /\ Len(msgs) \in Nat /\ sem \in Nat /\ added \in Nat
      /\ Len(handled) \in Nat /\ Cardinality(QueueAdders) \in Nat /\ QueueTaken \in Nat
      /\ QueueInFlight \in Nat
  BY QueueAdderFacts DEF QueueQuiet!TypeOK, QueueTaken, QueueInFlight
<1>1. CASE \/ QueueQuiet!PlatformQueueCreate \/ QueueQuiet!ThreadStart \/ QueueQuiet!StartFails
           \/ QueueQuiet!PlatformQueueDestroy \/ QueueQuiet!DestroyPosts
  BY <1>1 DEF QueueQuiet!PlatformQueueCreate, QueueQuiet!ThreadStart, QueueQuiet!StartFails,
     QueueQuiet!PlatformQueueDestroy,
       QueueQuiet!DestroyPosts, QueuePostInv
<1>2. CASE QueueQuiet!SetStart
  <2>1. /\ added = 0 /\ sem = 0 /\ worker \in {"none", "wait"}
        /\ \A k \in QueueClients : client[k] = "idle"
        /\ UNCHANGED <<sem, msgs, worker, client>>
    BY <1>2 DEF QueueQuiet!SetStart, QueueEndInv, QueueLifeInv
  <2>2. Len(msgs) = 0
    BY <1>0, <2>1 DEF QueueOrderInv
  <2>3. QueueInFlight' = 0 /\ Cardinality(QueueAdders') = 0
    BY <2>1, QueueAdderFacts DEF QueueInFlight
  <2>4. QED
    BY <2>1, <2>2, <2>3 DEF QueuePostInv
<1>3. ASSUME NEW k \in QueueClients, QueueQuiet!PlatformQueueAddMsg(k) PROVE QueuePostInv'
  <2>1. Cardinality(QueueAdders') = Cardinality(QueueAdders) + 1
    BY <1>3, QueueAdderFacts DEF QueueQuiet!PlatformQueueAddMsg
  <2>2. Len(msgs') = Len(msgs) + 1 /\ UNCHANGED <<sem, owner>>
        /\ QueueInFlight' = QueueInFlight
    BY <1>0, <1>3 DEF QueueQuiet!PlatformQueueAddMsg, QueueInFlight
  <2>3. QED
    BY <1>0, <2>1, <2>2 DEF QueuePostInv, QueueEndInv
<1>4. ASSUME NEW k \in QueueClients, QueueQuiet!AddPosts(k) PROVE QueuePostInv'
  <2>1. Cardinality(QueueAdders') = Cardinality(QueueAdders) - 1
    BY <1>4, QueueAdderFacts DEF QueueQuiet!AddPosts
  <2>2. sem' = sem + 1 /\ UNCHANGED <<msgs, owner>> /\ QueueInFlight' = QueueInFlight
    BY <1>4 DEF QueueQuiet!AddPosts, QueueInFlight
  <2>3. QED
    BY <1>0, <2>1, <2>2 DEF QueuePostInv, QueueEndInv
<1>5. ASSUME NEW k \in QueueClients, QueueQuiet!Returns(k) PROVE QueuePostInv'
  <2>1. QueueAdders' = QueueAdders
    BY <1>5, QueueAdderFacts DEF QueueQuiet!Returns
  <2>2. UNCHANGED <<sem, msgs, worker, owner>>
    BY <1>5 DEF QueueQuiet!Returns
  <2>3. QED
    BY <2>1, <2>2 DEF QueuePostInv, QueueEndInv, QueueInFlight
<1>6. CASE QueueQuiet!SemWait
  <2>1. QueueAdders' = QueueAdders /\ QueueInFlight = 0 /\ QueueInFlight' = 1
    BY <1>6, QueueAdderFacts DEF QueueQuiet!SemWait, QueueInFlight
  <2>2. sem' = sem - 1 /\ UNCHANGED <<msgs, owner>>
    BY <1>6 DEF QueueQuiet!SemWait
  <2>3. QED
    BY <1>0, <2>1, <2>2 DEF QueuePostInv, QueueEndInv
<1>7. CASE QueueQuiet!Look
  <2>1. QueueAdders' = QueueAdders /\ UNCHANGED <<sem, msgs, owner>>
    BY <1>7, QueueAdderFacts DEF QueueQuiet!Look
  <2>2. owner = "running" => QueueInFlight' = QueueInFlight
    BY <1>7 DEF QueueQuiet!Look, QueueInFlight, QueueEndInv, QueueLifeInv
  <2>3. QED
    BY <2>1, <2>2 DEF QueuePostInv, QueueEndInv
<1>8. CASE QueueQuiet!Take
  <2> SUFFICES ASSUME owner = "running"
               PROVE  Len(msgs') = sem' + QueueInFlight' + Cardinality(QueueAdders')
    BY <1>8 DEF QueuePostInv, QueueQuiet!Take
  <2>1. QueueAdders' = QueueAdders /\ QueueInFlight = 1 /\ QueueInFlight' = 0 /\ sem' = sem
    BY <1>8, QueueAdderFacts DEF QueueQuiet!Take, QueueInFlight
  <2>2. Len(msgs) > 0
    BY <1>0, <2>1 DEF QueuePostInv, QueueEndInv
  <2>3. msgs # << >>
    BY <2>2
  <2>4. Len(msgs') = Len(msgs) - 1
    BY <1>0, <1>8, <2>3, QueueTakeFacts, QueueTailFacts
  <2>5. QED
    BY <1>0, <2>1, <2>4 DEF QueuePostInv, QueueEndInv
<1>9. CASE QueueQuiet!Handle \/ UNCHANGED QueueQuiet!vars
  <2>1. QueueAdders' = QueueAdders /\ QueueInFlight' = QueueInFlight
        /\ UNCHANGED <<sem, msgs, owner>>
    BY <1>9, QueueAdderFacts DEF QueueQuiet!Handle, QueueQuiet!vars, QueueInFlight
  <2>2. QED
    BY <2>1 DEF QueuePostInv, QueueEndInv
<1>10. QED
  BY <1>1, <1>2, <1>3, <1>4, <1>5, <1>6, <1>7, <1>8, <1>9 DEF QueueQuiet!Next

\* A message has a client that waits for it until it is handled.
LEMMA QueueWaitedStep ==
  ASSUME MaxAdded \in Nat, QueueQuiet!TypeOK, QueueStartInv, QueueOrderInv, QueueOrderInv',
         QueueEndInv, [QueueQuiet!Next]_(QueueQuiet!vars)
  PROVE  QueueWaitedInv'
<1> USE DEF QueueQuiet!queue, QueueQuiet!clients
<1>0. /\ added \in Nat /\ Len(handled) \in Nat /\ handled \in Seq(1..MaxAdded)
      /\ client \in [QueueClients -> {"idle", "add", "wait"}]
      /\ waitsFor \in [QueueClients -> 0..MaxAdded]
  BY DEF QueueQuiet!TypeOK
<1>1. CASE \/ QueueQuiet!PlatformQueueCreate \/ QueueQuiet!ThreadStart \/ QueueQuiet!StartFails
           \/ QueueQuiet!PlatformQueueDestroy \/ QueueQuiet!DestroyPosts
  BY <1>1 DEF QueueQuiet!PlatformQueueCreate, QueueQuiet!ThreadStart, QueueQuiet!StartFails,
     QueueQuiet!PlatformQueueDestroy,
       QueueQuiet!DestroyPosts, QueueWaitedInv
<1>2. CASE QueueQuiet!SetStart
  <2>1. added = 0 /\ UNCHANGED <<added, handled>>
    BY <1>2 DEF QueueQuiet!SetStart, QueueEndInv, QueueLifeInv
  <2>2. QED
    BY <1>0, <2>1 DEF QueueWaitedInv
<1>3. ASSUME NEW k \in QueueClients, QueueQuiet!PlatformQueueAddMsg(k) PROVE QueueWaitedInv'
  <2>1. /\ client[k] = "idle" /\ owner = "running" /\ added' = added + 1
        /\ waitsFor' = [waitsFor EXCEPT ![k] = added + 1]
        /\ client' = [client EXCEPT ![k] = "add"] /\ UNCHANGED <<handled, owner>>
    BY <1>3 DEF QueueQuiet!PlatformQueueAddMsg
  <2>2. ASSUME NEW m \in (Len(handled) + 1)..(added + 1)
        PROVE  \E c \in QueueClients : client'[c] # "idle" /\ waitsFor'[c] = m
    <3>1. CASE m = added + 1
      BY <1>0, <2>1, <3>1
    <3>2. CASE m \in (Len(handled) + 1)..added
      <4>1. PICK c \in QueueClients : client[c] # "idle" /\ waitsFor[c] = m
        BY <2>1, <3>2 DEF QueueEndInv, QueueWaitedInv
      <4>2. QED
        BY <1>0, <2>1, <4>1
    <3>3. QED
      BY <1>0, <3>1, <3>2
  <2>3. QED
    BY <2>1, <2>2 DEF QueueWaitedInv
<1>4. ASSUME NEW k \in QueueClients, QueueQuiet!AddPosts(k) PROVE QueueWaitedInv'
  <2>1. /\ client' = [client EXCEPT ![k] = "wait"]
        /\ UNCHANGED <<waitsFor, added, handled, owner>>
    BY <1>4 DEF QueueQuiet!AddPosts
  <2>2. \A c \in QueueClients : client[c] # "idle" => client'[c] # "idle"
    BY <1>0, <2>1
  <2>3. QED
    BY <2>1, <2>2 DEF QueueEndInv, QueueWaitedInv
<1>5. ASSUME NEW k \in QueueClients, QueueQuiet!Returns(k) PROVE QueueWaitedInv'
  <2>1. /\ client' = [client EXCEPT ![k] = "idle"]
        /\ UNCHANGED <<waitsFor, added, handled, owner>>
    BY <1>5 DEF QueueQuiet!Returns
  <2>2. PICK i \in DOMAIN handled : handled[i] = waitsFor[k]
    BY <1>5 DEF QueueQuiet!Returns
  <2>3. waitsFor[k] \in 1..Len(handled)
    BY <1>0, <2>2 DEF QueueOrderInv
  <2>4. ASSUME owner = "running", NEW m \in (Len(handled) + 1)..added
        PROVE  \E c \in QueueClients : client'[c] # "idle" /\ waitsFor[c] = m
    <3>1. PICK c \in QueueClients : client[c] # "idle" /\ waitsFor[c] = m
      BY <2>4 DEF QueueEndInv, QueueWaitedInv
    <3>2. c # k
      BY <1>0, <2>3, <2>4, <3>1
    <3>3. QED
      BY <1>0, <2>1, <3>1, <3>2
  <2>5. QED
    BY <2>1, <2>4 DEF QueueWaitedInv
<1>6. CASE QueueQuiet!SemWait \/ QueueQuiet!Look \/ QueueQuiet!Take \/ UNCHANGED QueueQuiet!vars
  <2>1. UNCHANGED <<client, waitsFor, added, handled, owner>>
    BY <1>6 DEF QueueQuiet!SemWait, QueueQuiet!Look, QueueQuiet!Take, QueueQuiet!vars
  <2>2. QED
    BY <2>1 DEF QueueEndInv, QueueWaitedInv
<1>7. CASE QueueQuiet!Handle
  <2>1. /\ UNCHANGED <<client, waitsFor, added, owner>>
        /\ handled' = handled \/ (msg # 0 /\ handled' = Append(handled, msg))
    BY <1>7, Zenon DEF QueueQuiet!Handle
  <2>2. Len(handled') \in Nat /\ Len(handled') >= Len(handled)
    <3>1. msg # 0 => msg \in 1..MaxAdded
      BY DEF QueueQuiet!TypeOK
    <3>2. QED
      BY <1>0, <2>1, <3>1, QueueAppendFacts
  <2>3. (Len(handled') + 1)..added \subseteq (Len(handled) + 1)..added
    BY <1>0, <2>2
  <2>4. QED
    BY <2>1, <2>3 DEF QueueEndInv, QueueWaitedInv
<1>8. QED
  BY <1>1, <1>2, <1>3, <1>4, <1>5, <1>6, <1>7 DEF QueueQuiet!Next

\* If nobody waits, the worker has no post and no message.
LEMMA QueueQuietFacts ==
  ASSUME MaxAdded \in Nat, IsFiniteSet(QueueClients), QueueQuiet!TypeOK, QueueOrderInv,
         QueueEndInv,
         owner = "running", \A k \in QueueClients : client[k] = "idle"
  PROVE  sem = 0 /\ worker \notin {"look", "take"}
<1>1. /\ added \in Nat /\ Len(handled) \in Nat /\ sem \in Nat /\ Len(msgs) \in Nat
      /\ QueueInFlight \in {0, 1} /\ QueueTaken \in Nat /\ QueueTaken >= Len(handled)
  BY DEF QueueQuiet!TypeOK, QueueTaken, QueueInFlight
<1>2. Len(handled) >= added
  <2>1. SUFFICES ASSUME Len(handled) < added PROVE FALSE
    BY <1>1
  <2>2. added \in (Len(handled) + 1)..added
    BY <1>1, <2>1
  <2>3. \A m \in (Len(handled) + 1)..added : \E k \in QueueClients : client[k] # "idle"
    BY DEF QueueEndInv, QueueWaitedInv
  <2>4. QED
    BY <2>2, <2>3
<1>3. Len(msgs) = 0
  BY <1>1, <1>2 DEF QueueOrderInv
<1>4. Cardinality(QueueAdders) = 0
  BY QueueAdderFacts
<1>5. sem = 0 /\ QueueInFlight = 0
  BY <1>1, <1>3, <1>4 DEF QueueEndInv, QueuePostInv
<1>6. QED
  BY <1>5 DEF QueueInFlight

\* The worker frees the queue only after the owner's last use of it.
LEMMA QueueLifeStep ==
  ASSUME MaxAdded \in Nat, IsFiniteSet(QueueClients), QueueQuiet!TypeOK, QueueStartInv,
         QueueOrderInv,
         QueueEndInv, [QueueQuiet!Next]_(QueueQuiet!vars)
  PROVE  QueueLifeInv'
<1> USE DEF QueueQuiet!queue, QueueQuiet!clients, QueueQuiet!Uses
<1>0. /\ memory \in {"none", "live", "freed"} /\ QueueLifeInv
      /\ client \in [QueueClients -> {"idle", "add", "wait"}]
  BY DEF QueueQuiet!TypeOK, QueueEndInv
<1>1. CASE QueueQuiet!PlatformQueueCreate
  BY <1>0, <1>1 DEF QueueQuiet!PlatformQueueCreate, QueueLifeInv
<1>2. CASE QueueQuiet!ThreadStart
  BY <1>0, <1>2 DEF QueueQuiet!ThreadStart, QueueLifeInv
<1>3. CASE QueueQuiet!StartFails
  BY <1>0, <1>3 DEF QueueQuiet!StartFails, QueueLifeInv
<1>4. CASE QueueQuiet!SetStart
  BY <1>0, <1>4 DEF QueueQuiet!SetStart, QueueLifeInv
<1>5. CASE QueueQuiet!PlatformQueueDestroy
  <2>1. \A k \in QueueClients : client[k] = "idle"
    BY <1>5 DEF QueueQuiet!PlatformQueueDestroy
  <2>2. sem = 0 /\ worker # "look"
    BY <1>5, <2>1, QueueQuietFacts DEF QueueQuiet!PlatformQueueDestroy
  <2>3. QED
    BY <1>0, <1>5, <2>1, <2>2 DEF QueueQuiet!PlatformQueueDestroy, QueueLifeInv
<1>6. CASE QueueQuiet!DestroyPosts
  BY <1>0, <1>6 DEF QueueQuiet!DestroyPosts, QueueLifeInv
<1>7. ASSUME NEW k \in QueueClients, QueueQuiet!PlatformQueueAddMsg(k) PROVE QueueLifeInv'
  BY <1>0, <1>7 DEF QueueQuiet!PlatformQueueAddMsg, QueueLifeInv
<1>8. ASSUME NEW k \in QueueClients, QueueQuiet!AddPosts(k) PROVE QueueLifeInv'
  <2>1. owner = "running"
    BY <1>8, <1>0 DEF QueueQuiet!AddPosts, QueueLifeInv
  <2>2. QED
    BY <1>0, <1>8, <2>1 DEF QueueQuiet!AddPosts, QueueLifeInv
<1>9. ASSUME NEW k \in QueueClients, QueueQuiet!Returns(k) PROVE QueueLifeInv'
  <2>1. owner = "running"
    BY <1>9, <1>0 DEF QueueQuiet!Returns, QueueLifeInv
  <2>2. QED
    BY <1>0, <1>9, <2>1 DEF QueueQuiet!Returns, QueueLifeInv
<1>10. CASE QueueQuiet!SemWait
  BY <1>0, <1>10 DEF QueueQuiet!SemWait, QueueLifeInv
<1>11. CASE QueueQuiet!Look
  BY <1>0, <1>11 DEF QueueQuiet!Look, QueueLifeInv
<1>12. CASE QueueQuiet!Take
  <2>1. UNCHANGED <<memory, start, sem, owner, client, added, broken>>
        /\ worker = "take" /\ worker' = "handle"
    BY <1>12 DEF QueueQuiet!Take
  <2>2. QED
    BY <1>0, <2>1 DEF QueueLifeInv
<1>13. CASE QueueQuiet!Handle
  <2>1. UNCHANGED <<memory, start, sem, owner, client, added, broken>>
        /\ worker = "handle" /\ worker' = "wait"
    BY <1>13 DEF QueueQuiet!Handle
  <2>2. QED
    BY <1>0, <2>1 DEF QueueLifeInv
<1>14. CASE UNCHANGED QueueQuiet!vars
  BY <1>0, <1>14 DEF QueueQuiet!vars, QueueLifeInv
<1>15. QED
  BY <1>1, <1>2, <1>3, <1>4, <1>5, <1>6, <1>7, <1>8, <1>9, <1>10, <1>11, <1>12,
     <1>13, <1>14 DEF QueueQuiet!Next

\* If the queue is destroyed while no client waits for an answer, as the
\* controllers that own one do, neither the owner nor a client uses it after the
\* worker has freed it (PlatformQueueDestroy, PlatformQueueThreadWorker).
THEOREM QueueNoUseAfterFreeThm ==
  ASSUME MaxAdded \in Nat, IsFiniteSet(QueueClients)
  PROVE  QueueQuiet!Spec => []QueueQuiet!NoUseAfterFree
<1> DEFINE Inv == QueueStartInv /\ QueueOrderInv /\ QueueEndInv
<1>1. QueueQuiet!Init => Inv
  <2>1. QueueQuiet!Init => QueueStartInv /\ QueueOrderInv
    BY DEF QueueQuiet!Init, QueueStartInv, QueueOrderInv, QueueInHand, QueueTaken
  <2>2. QueueQuiet!Init => QueueEndInv
    BY DEF QueueQuiet!Init, QueueEndInv, QueuePostInv, QueueWaitedInv, QueueLifeInv
  <2>3. QED
    BY <2>1, <2>2
<1>2. QueueQuiet!TypeOK /\ Inv /\ [QueueQuiet!Next]_(QueueQuiet!vars) => Inv'
  BY QueueStartStep, QueueOrderStep, QueuePostStep, QueueWaitedStep, QueueLifeStep DEF QueueEndInv
<1>3. Inv => QueueQuiet!NoUseAfterFree
  BY DEF QueueEndInv, QueueLifeInv, QueueQuiet!NoUseAfterFree
<1> HIDE DEF Inv
<1>4. QED
  BY <1>1, <1>2, <1>3, QueueTypeThm, PTL DEF QueueQuiet!Spec

\* What the choice of the queue that is destroyed while it is quiet means.
LEMMA QueueRuns ==
    /\ Init /\ part = "queue_quiet" => QueueQuiet!Init
    /\ part = "queue_quiet" /\ [Next]_vars
         => part' = "queue_quiet" /\ [QueueQuiet!Next]_(QueueQuiet!vars)
    /\ part # "queue_quiet" /\ [Next]_vars => part' # "queue_quiet"
<1>1. Init /\ part = "queue_quiet" => QueueQuiet!Init
  BY DEF Init
<1>2. part = "queue_quiet" /\ Next => part' = "queue_quiet" /\ QueueQuiet!Next
  BY DEF Next
<1>3. UNCHANGED vars => UNCHANGED <<part, QueueQuiet!vars>>
  BY DEF vars, QueueQuiet!vars, QueueQuiet!queue, QueueQuiet!clients
<1>4. part # "queue_quiet" /\ [Next]_vars => part' # "queue_quiet"
  BY DEF Next, vars
<1>5. QED
  BY <1>1, <1>2, <1>3, <1>4

\* Messages are handled in the order they were added, each at most once, and nobody
\* uses a queue that was freed, for any number of clients and messages
\* (PlatformQueueAddMsg, PlatformQueueThreadWorker, PlatformQueueDestroy).
THEOREM HandledInOrderThm == Spec => []HandledInOrder
<1>1. QueueQuiet!Spec => /\ []QueueQuiet!TypeOK
                         /\ []QueueQuiet!HandledInOrder
                         /\ []QueueQuiet!NoUseAfterFree
  <2>1. MaxAdded \in Nat /\ IsFiniteSet(QueueClients)
    BY QueueAssumption
  <2>2. QED
    BY <2>1, QueueTypeThm, QueueHandledInOrderThm, QueueNoUseAfterFreeThm
<1> DEFINE Runs == part = "queue_quiet"
<1>2. /\ Init /\ Runs => QueueQuiet!Init
      /\ Runs /\ [Next]_vars => Runs' /\ [QueueQuiet!Next]_(QueueQuiet!vars)
      /\ ~Runs /\ [Next]_vars => ~Runs'
  BY QueueRuns
<1>3. (Runs => QueueQuiet!TypeOK /\ QueueQuiet!HandledInOrder /\ QueueQuiet!NoUseAfterFree)
         => HandledInOrder
  BY DEF HandledInOrder
<1> HIDE DEF Runs
<1>4. QED
  BY <1>1, <1>2, <1>3, PTL DEF Spec, QueueQuiet!Spec

-----------------------------------------------------------------------------
(* The vibrator.                                                           *)

\* Where the clients C, the callback of the timer and the work queue are.
MotorClientAt == {"idle", "once", "preset", "seqOnce", "seqPreset", "create", "loop",
                  "stop", "delete", "quiet", "add", "added"}
MotorTimerAt == {"idle", "entry", "add", "next", "delete", "rearm"}
MotorWorkAt  == {"idle", "start", "stop"}

MotorAt(C) ==
  /\ {"timer", "work"} \cap C = {}
  /\ pc \in [C \cup {"timer", "work"} -> MotorClientAt \cup MotorTimerAt \cup MotorWorkAt]
  /\ \A c \in C : pc[c] \in MotorClientAt
  /\ pc["timer"] \in MotorTimerAt /\ pc["work"] \in MotorWorkAt

MotorAdding(C) == \E a \in C \cup {"timer", "work"} : pc[a] = "add"

\* What the motor was asked for last is done, or is still to be read by the work item:
\* one that is queued, or about to be, or one that runs and has not come to it.
MotorAsked(C) ==
  /\ state = "START_TIMER" /\ motor # "on"
       => pending \/ MotorAdding(C) \/ pc["work"] = "start"
  /\ state = "STOP" /\ motor # "off"
       => pending \/ MotorAdding(C) \/ pc["work"] \in {"start", "stop"}

MotorInv(C) == MotorAt(C) /\ MotorAsked(C)

MotorGoes(a, from, to) == pc[a] = from /\ pc' = [pc EXCEPT ![a] = to]

\* A step of one of them leaves the others where they are.
LEMMA MotorMoved ==
  ASSUME NEW C, MotorAt(C), NEW a \in C \cup {"timer", "work"}, NEW from, NEW to,
         MotorGoes(a, from, to),
         \/ a \in C /\ to \in MotorClientAt
         \/ a = "timer" /\ to \in MotorTimerAt
         \/ a = "work" /\ to \in MotorWorkAt
  PROVE  /\ MotorAt(C)' /\ pc[a] = from /\ pc'[a] = to
         /\ \A b \in C \cup {"timer", "work"} : b # a => pc'[b] = pc[b]
  BY DEF MotorAt, MotorGoes

\* Clients and the timer forget no request, and hand a new one to the work queue.
LEMMA MotorAsks ==
  ASSUME NEW C, MotorInv(C), NEW a \in C \cup {"timer"}, NEW from, NEW to,
         MotorGoes(a, from, to), a \in C => to \in MotorClientAt,
         a = "timer" => to \in MotorTimerAt, UNCHANGED motor,
         \/ from # "add" /\ UNCHANGED <<state, pending>>
         \/ to = "add" \/ state' = "SET_EFFECT"
         \/ pending' /\ UNCHANGED state
  PROVE  MotorInv(C)'
<1>1. /\ a \in C \cup {"timer", "work"}
      /\ \/ a \in C /\ to \in MotorClientAt
         \/ a = "timer" /\ to \in MotorTimerAt
  OBVIOUS
<1>2. /\ MotorAt(C)' /\ pc[a] = from /\ pc'[a] = to
      /\ \A b \in C \cup {"timer", "work"} : b # a => pc'[b] = pc[b]
  BY <1>1, MotorMoved DEF MotorInv
<1>3. pc'["work"] = pc["work"]
  BY <1>2 DEF MotorInv, MotorAt
<1>4. CASE from # "add" /\ UNCHANGED <<state, pending>>
  <2>1. MotorAdding(C) => MotorAdding(C)'
    BY <1>2, <1>4 DEF MotorAdding
  <2>2. QED
    BY <1>2, <1>3, <1>4, <2>1 DEF MotorInv, MotorAsked
<1>5. CASE to = "add" \/ state' = "SET_EFFECT" \/ (pending' /\ UNCHANGED state)
  <2>1. to = "add" => MotorAdding(C)'
    BY <1>1, <1>2 DEF MotorAdding
  <2>2. QED
    BY <1>2, <1>5, <2>1 DEF MotorInv, MotorAsked
<1>6. QED
  BY <1>4, <1>5

\* The work item reads the state after it was taken from the queue, so that one
\* that is queued while it runs is not lost.
LEMMA MotorWorks ==
  ASSUME NEW C, MotorInv(C), UNCHANGED state,
         \/ MotorGoes("work", "idle", "start") /\ UNCHANGED motor
         \/ /\ MotorGoes("work", "start", "stop") /\ UNCHANGED pending
            /\ motor' = IF state = "START_TIMER" THEN "on" ELSE motor
         \/ /\ MotorGoes("work", "stop", "idle") /\ UNCHANGED pending
            /\ motor' = IF state = "STOP" THEN "off" ELSE motor
  PROVE  MotorInv(C)'
<1>1. PICK from, to : MotorGoes("work", from, to) /\ to \in MotorWorkAt /\ from # "add"
  BY DEF MotorWorkAt
<1>2. /\ MotorAt(C)' /\ pc["work"] = from /\ pc'["work"] = to
      /\ \A b \in C \cup {"timer", "work"} : b # "work" => pc'[b] = pc[b]
  BY <1>1, MotorMoved DEF MotorInv
<1>3. MotorAdding(C) => MotorAdding(C)'
  BY <1>1, <1>2 DEF MotorAdding
<1>4. QED
  BY <1>2, <1>3 DEF MotorInv, MotorAsked, MotorGoes, MotorAt

-----------------------------------------------------------------------------
(* Several clients.                                                        *)

\* The steps of this instance, for the motor.
LEMMA WorkMotorStep ==
  ASSUME MotorInv(VibratorClients), [VibratorWork!Next]_(VibratorWork!vars)
  PROVE  MotorInv(VibratorClients)'
<1> USE DEF VibratorWork!Goes, MotorGoes, MotorClientAt, MotorTimerAt
<1>1. ASSUME NEW c \in VibratorClients,
             \/ VibratorWork!StartCheck(c, "once") \/ VibratorWork!StartCheck(c, "preset")
             \/ VibratorWork!StopCheck(c) \/ VibratorWork!ClientStep(c)
      PROVE  MotorInv(VibratorClients)'
  <2>1. PICK from, to :
          /\ MotorGoes(c, from, to) /\ to \in MotorClientAt /\ UNCHANGED motor
          /\ \/ from # "add" /\ UNCHANGED <<state, pending>>
             \/ to = "add" \/ (pending' /\ UNCHANGED state)
    BY <1>1 DEF VibratorWork!StartCheck, VibratorWork!StopCheck, VibratorWork!ClientStep,
       VibratorWork!StartMode, VibratorWork!GetHapticSeqByEffect, VibratorWork!OsalTimerCreate,
       VibratorWork!OsalTimerStartLoop, VibratorWork!StopTimer, VibratorWork!StopDelete,
       VibratorWork!StopVibrator, VibratorWork!StopAdd, VibratorWork!HdfAddWork,
       VibratorWork!StopMode
  <2>2. QED
    BY <2>1, MotorAsks DEF MotorInv, MotorAt
<1>2. CASE VibratorWork!TimerStep
  <2>1. PICK from, to :
          /\ MotorGoes("timer", from, to) /\ to \in MotorTimerAt /\ UNCHANGED motor
          /\ \/ from # "add" /\ UNCHANGED <<state, pending>>
             \/ to = "add" \/ state' = "SET_EFFECT" \/ (pending' /\ UNCHANGED state)
    BY <1>2 DEF VibratorWork!TimerStep, VibratorWork!TimerFires, VibratorWork!TimerTime,
       VibratorWork!TimerAdd, VibratorWork!HdfAddWork, VibratorWork!TimerNext,
       VibratorWork!TimerEffect, VibratorWork!TimerEnd, VibratorWork!TimerRearm,
       VibratorWork!TimerDelete
  <2>2. QED
    BY <2>1, MotorAsks DEF MotorInv, MotorAt
<1>3. CASE VibratorWork!WorkStep
  BY <1>3, MotorWorks
     DEF VibratorWork!WorkStep, VibratorWork!WorkTaken, VibratorWork!WorkStart,
         VibratorWork!WorkStop
<1>4. CASE UNCHANGED VibratorWork!vars
  BY <1>4 DEF VibratorWork!vars, MotorInv, MotorAt, MotorAsked, MotorAdding
<1>5. QED
  BY <1>1, <1>2, <1>3, <1>4 DEF VibratorWork!Next

\* Clients that have started and still have to create a timer.
WorkCreating ==
        {c \in VibratorClients : pc[c] \in {"once", "preset", "seqOnce", "seqPreset", "create"}}

\* The timers there are: the one that is known and those that were forgotten.
WorkTimers == (armed \cup {timer}) \ {0}

WorkRangeInv ==
  /\ mode \in {"BUTT", "ONCE", "PRESET"}
  /\ state \in {"IDLE", "START_TIMER", "STOP", "SET_EFFECT"}
  /\ motor \in {"on", "off"}
  /\ timer \in 0..MaxWorkStarts /\ armed \subseteq 1..MaxWorkStarts
  /\ starts \in 0..MaxWorkStarts

\* The callback goes one step past the end of the sequence, not further: a new
\* sequence that comes under its feet starts at 0.
WorkSeqInv ==
  /\ seq = [type |-> seq.type, num |-> seq.num, index |-> seq.index]
  /\ seq.num \in Nat /\ seq.index \in Nat
  /\ seq.index <= seq.num + 1
  /\ pc["timer"] \in {"add", "next"} => seq.index <= seq.num

\* Every start makes one timer at most.
WorkTimersInv == Cardinality(WorkTimers) + Cardinality(WorkCreating) <= starts

WorkInv == MotorInv(VibratorClients) /\ WorkRangeInv /\ WorkSeqInv /\ WorkTimersInv

\* A driver that was just initialised has nothing to do.
LEMMA WorkInitInv ==
  ASSUME VibratorWork!Init
  PROVE  WorkInv
<1>1. WorkTimers = {} /\ WorkCreating = {}
  BY DEF VibratorWork!Init, WorkTimers, WorkCreating, VibratorWork!Actors
<1>2. WorkTimersInv
  BY <1>1, FS_EmptySet DEF WorkTimersInv, VibratorWork!Init
<1>3. MotorInv(VibratorClients)
  BY VibratorAssumption
     DEF VibratorWork!Init, VibratorWork!Actors, MotorInv, MotorAt, MotorAsked, MotorClientAt,
         MotorTimerAt, MotorWorkAt
<1>4. WorkRangeInv /\ WorkSeqInv
  BY VibratorAssumption DEF VibratorWork!Init, WorkRangeInv, WorkSeqInv, VibratorWork!Actors
<1>5. QED
  BY <1>2, <1>3, <1>4 DEF WorkInv

\* The counts are of finite sets.
LEMMA WorkCounts ==
  ASSUME WorkInv
  PROVE  /\ IsFiniteSet(WorkTimers) /\ IsFiniteSet(WorkCreating)
         /\ Cardinality(WorkTimers) \in Nat /\ Cardinality(WorkCreating) \in Nat
<1>1. WorkTimers \subseteq 1..MaxWorkStarts /\ IsFiniteSet(1..MaxWorkStarts)
  BY FS_Interval, VibratorAssumption DEF WorkTimers, WorkInv, WorkRangeInv
<1>2. WorkCreating \subseteq VibratorClients
  BY DEF WorkCreating
<1>3. QED
  BY <1>1, <1>2, FS_Subset, FS_CardinalityType, VibratorAssumption

\* A step that moves nobody in or out of Creating, and forgets timers at most.
LEMMA WorkTimersKept ==
  ASSUME WorkInv, WorkTimers' \subseteq WorkTimers, WorkCreating' \subseteq WorkCreating,
         starts' = starts
  PROVE  WorkTimersInv'
<1>1. PICK T \in SUBSET WorkTimers : T = WorkTimers'
  OBVIOUS
<1>2. PICK C \in SUBSET WorkCreating : C = WorkCreating'
  OBVIOUS
<1>3. /\ Cardinality(T) <= Cardinality(WorkTimers) /\ Cardinality(C) <= Cardinality(WorkCreating)
      /\ Cardinality(T) \in Nat /\ Cardinality(C) \in Nat
  BY WorkCounts, FS_Subset, FS_CardinalityType
<1>4. QED
  BY <1>1, <1>2, <1>3, WorkCounts DEF WorkTimersInv, WorkInv, WorkRangeInv

\* Only a client that starts begins to create a timer.
LEMMA WorkCreatingKept ==
  ASSUME MotorAt(VibratorClients), NEW a \in VibratorWork!Actors, NEW from, NEW to,
         VibratorWork!Goes(a, from, to),
         to \notin {"once", "preset", "seqOnce", "seqPreset", "create"}
  PROVE  WorkCreating' \subseteq WorkCreating
  BY DEF MotorAt, VibratorWork!Actors, VibratorWork!Goes, WorkCreating

\* Nor does a step of a client that is already creating one.
LEMMA WorkCreatingMoved ==
  ASSUME MotorAt(VibratorClients), NEW c \in VibratorClients, NEW from, NEW to,
         VibratorWork!Goes(c, from, to),
         from \in {"once", "preset", "seqOnce", "seqPreset", "create"}
  PROVE  WorkCreating' \subseteq WorkCreating
  BY DEF MotorAt, VibratorWork!Actors, VibratorWork!Goes, WorkCreating

\* Every start creates one timer, so that one is left to create.
LEMMA WorkTimerCreated ==
  ASSUME WorkInv, NEW c \in VibratorClients, VibratorWork!OsalTimerCreate(c), timer' # timer
  PROVE  /\ timer' \in 1..MaxWorkStarts
         /\ WorkTimers' \subseteq WorkTimers \cup {timer'}
         /\ WorkCreating' = WorkCreating \ {c} /\ c \in WorkCreating
         /\ starts' = starts
<1> DEFINE i == CHOOSE i \in 1..MaxWorkStarts : i \notin armed \cup {timer}
<1>1. timer' = i /\ armed' = armed /\ VibratorWork!Goes(c, "create", "loop") /\ starts' = starts
  BY DEF VibratorWork!OsalTimerCreate
<1>2. c \in WorkCreating /\ WorkCreating' = WorkCreating \ {c}
  BY <1>1 DEF VibratorWork!Goes, WorkCreating, VibratorWork!Actors, WorkInv, MotorInv, MotorAt
<1>3. Cardinality(WorkTimers) < MaxWorkStarts
  <2>1. Cardinality(WorkCreating) # 0
    BY <1>2, WorkCounts, FS_EmptySet
  <2>2. QED
    BY <2>1, WorkCounts, VibratorAssumption DEF WorkInv, WorkTimersInv, WorkRangeInv
<1>4. \E n \in 1..MaxWorkStarts : n \notin armed \cup {timer}
  <2>1. SUFFICES ASSUME 1..MaxWorkStarts \subseteq armed \cup {timer} PROVE FALSE
    OBVIOUS
  <2>2. 1..MaxWorkStarts \in SUBSET WorkTimers
    BY <2>1, VibratorAssumption DEF WorkTimers
  <2>3. Cardinality(1..MaxWorkStarts) = MaxWorkStarts
    BY FS_Interval, VibratorAssumption
  <2>4. QED
    BY <1>3, <2>2, <2>3, WorkCounts, FS_Subset, VibratorAssumption
<1>5. i \in 1..MaxWorkStarts
  BY <1>4
<1> HIDE DEF i
<1>6. QED
  BY <1>1, <1>2, <1>5 DEF WorkTimers

\* The steps of the clients, the timer and the work keep the ranges.
LEMMA WorkOthersStep ==
  ASSUME WorkInv, [VibratorWork!Next]_(VibratorWork!vars), MotorInv(VibratorClients)',
         WorkTimersInv'
  PROVE  WorkInv'
<1> USE DEF WorkInv, VibratorWork!Actors
<1>1. ASSUME NEW c \in VibratorClients,
             \/ VibratorWork!StartCheck(c, "once") \/ VibratorWork!StartCheck(c, "preset")
             \/ VibratorWork!StopCheck(c)
      PROVE  WorkInv'
  BY <1>1, VibratorAssumption
     DEF VibratorWork!StartCheck, VibratorWork!StopCheck, VibratorWork!Goes, MotorInv, MotorAt,
         WorkRangeInv, WorkSeqInv
<1>2. ASSUME NEW c \in VibratorClients,
             \/ VibratorWork!StartMode(c) \/ VibratorWork!GetHapticSeqByEffect(c)
      PROVE  WorkInv'
  <2>1. pc'["timer"] = pc["timer"]
    BY <1>2 DEF VibratorWork!StartMode, VibratorWork!GetHapticSeqByEffect, VibratorWork!Goes,
       MotorInv, MotorAt
  <2>2. CASE VibratorWork!StartMode(c)
    BY <2>1, <2>2 DEF VibratorWork!StartMode, WorkRangeInv, WorkSeqInv
  <2>3. CASE VibratorWork!GetHapticSeqByEffect(c)
    <3>1. UNCHANGED <<mode, state, timer, armed, pending, motor, starts>>
      BY <2>3 DEF VibratorWork!GetHapticSeqByEffect
    <3>2. \/ seq' = [type |-> VibratorWork!Once.type, num |-> VibratorWork!Once.num, index |-> 0]
          \/ \E p \in WorkPresets : seq' = [type |-> p.type, num |-> p.num, index |-> 0]
          \/ seq' = [seq EXCEPT !.num = 0, !.index = 0]
      BY <2>3 DEF VibratorWork!GetHapticSeqByEffect
    <3>3. WorkSeqInv'
      <4>1. CASE \E p \in WorkPresets : seq' = [type |-> p.type, num |-> p.num, index |-> 0]
        BY <4>1, VibratorAssumption DEF WorkSeqInv
      <4>2. CASE seq' =
                [type |-> VibratorWork!Once.type, num |-> VibratorWork!Once.num, index |-> 0]
        BY <4>2 DEF WorkSeqInv, VibratorWork!Once
      <4>3. CASE seq' = [seq EXCEPT !.num = 0, !.index = 0]
        <5>1. PICK t, n, i : seq = [type |-> t, num |-> n, index |-> i]
          BY DEF WorkSeqInv
        <5>2. seq' = [type |-> t, num |-> 0, index |-> 0]
          BY <4>3, <5>1
        <5>3. QED
          BY <5>2 DEF WorkSeqInv
      <4>4. QED
        BY <3>2, <4>1, <4>2, <4>3
    <3>4. QED
      BY <3>1, <3>3 DEF WorkRangeInv
  <2>4. QED
    BY <1>2, <2>2, <2>3
<1>3. ASSUME NEW c \in VibratorClients,
             \/ VibratorWork!OsalTimerStartLoop(c) \/ VibratorWork!StopTimer(c)
             \/ VibratorWork!StopDelete(c) \/ VibratorWork!StopVibrator(c)
             \/ VibratorWork!StopAdd(c) \/ VibratorWork!StopMode(c)
      PROVE  WorkInv'
  BY <1>3, VibratorAssumption
     DEF VibratorWork!OsalTimerStartLoop, VibratorWork!StopTimer, VibratorWork!StopDelete,
         VibratorWork!StopVibrator, VibratorWork!StopAdd, VibratorWork!HdfAddWork,
         VibratorWork!StopMode, VibratorWork!Goes, MotorInv, MotorAt, WorkRangeInv, WorkSeqInv
<1>4. ASSUME NEW c \in VibratorClients, VibratorWork!OsalTimerCreate(c)
      PROVE  WorkInv'
  <2>1. CASE timer' = timer
    BY <1>4, <2>1, VibratorAssumption
       DEF VibratorWork!OsalTimerCreate, VibratorWork!Goes, MotorInv, MotorAt, WorkRangeInv,
           WorkSeqInv
  <2>2. CASE timer' # timer
    <3>1. timer' \in 1..MaxWorkStarts
      BY <1>4, <2>2, WorkTimerCreated
    <3>2. /\ UNCHANGED <<mode, state, seq, armed, pending, motor, starts>>
          /\ pc'["timer"] = pc["timer"]
      BY <1>4 DEF VibratorWork!OsalTimerCreate, VibratorWork!Goes, MotorInv, MotorAt
    <3>3. QED
      BY <3>1, <3>2, VibratorAssumption DEF WorkRangeInv, WorkSeqInv
  <2>3. QED
    BY <2>1, <2>2
<1>5. CASE VibratorWork!TimerStep
  BY <1>5, VibratorAssumption
     DEF VibratorWork!TimerStep, VibratorWork!TimerFires, VibratorWork!TimerTime,
         VibratorWork!TimerAdd, VibratorWork!HdfAddWork, VibratorWork!TimerNext,
         VibratorWork!TimerEffect, VibratorWork!TimerEnd, VibratorWork!AtEnd,
         VibratorWork!TimerRearm, VibratorWork!TimerDelete, VibratorWork!Goes, MotorInv, MotorAt,
         WorkRangeInv, WorkSeqInv
<1>6. CASE VibratorWork!WorkStep
  BY <1>6, VibratorAssumption
     DEF VibratorWork!WorkStep, VibratorWork!WorkTaken, VibratorWork!WorkStart,
         VibratorWork!WorkStop, VibratorWork!Goes, MotorInv, MotorAt, WorkRangeInv, WorkSeqInv
<1>7. CASE UNCHANGED VibratorWork!vars
  BY <1>7 DEF VibratorWork!vars, MotorInv, MotorAt, WorkRangeInv, WorkSeqInv
<1>8. QED
  BY <1>1, <1>2, <1>3, <1>4, <1>5, <1>6, <1>7 DEF VibratorWork!Next, VibratorWork!ClientStep

\* No more timers exist, and are about to, than vibrations were started.
LEMMA WorkTimersStep ==
  ASSUME WorkInv, [VibratorWork!Next]_(VibratorWork!vars)
  PROVE  WorkTimersInv'
<1> USE DEF VibratorWork!Actors
<1>0. MotorAt(VibratorClients) /\ WorkTimersInv /\ WorkRangeInv /\ WorkSeqInv
  BY DEF WorkInv, MotorInv
<1>1. ASSUME NEW c \in VibratorClients,
             \/ VibratorWork!StartCheck(c, "once") \/ VibratorWork!StartCheck(c, "preset")
      PROVE  WorkTimersInv'
  <2>1. starts' = starts + 1 /\ WorkTimers' = WorkTimers
    BY <1>1 DEF VibratorWork!StartCheck, WorkTimers
  <2>2. WorkCreating' = WorkCreating \cup {c}
    BY <1>0, <1>1 DEF VibratorWork!StartCheck, VibratorWork!Goes, WorkCreating, MotorAt
  <2>3. Cardinality(WorkCreating \cup {c}) <= Cardinality(WorkCreating) + 1
        /\ Cardinality(WorkCreating \cup {c}) \in Nat
    <3>1. IsFiniteSet(WorkCreating) /\ Cardinality(WorkCreating) \in Nat
      BY WorkCounts
    <3>2. \/ Cardinality(WorkCreating \cup {c}) = Cardinality(WorkCreating)
          \/ Cardinality(WorkCreating \cup {c}) = Cardinality(WorkCreating) + 1
      BY <3>1, FS_AddElement
    <3>3. QED
      BY <3>1, <3>2
  <2>4. QED
    BY <1>0, <2>1, <2>2, <2>3, WorkCounts, VibratorAssumption DEF WorkTimersInv, WorkRangeInv
<1>2. ASSUME NEW c \in VibratorClients, VibratorWork!OsalTimerCreate(c) PROVE WorkTimersInv'
  <2>1. CASE timer' = timer
    <3>1. WorkTimers' = WorkTimers /\ starts' = starts /\ VibratorWork!Goes(c, pc[c], pc'[c])
          /\ pc[c] = "create"
      BY <1>0, <1>2, <2>1 DEF VibratorWork!OsalTimerCreate, WorkTimers, VibratorWork!Goes, MotorAt
    <3>2. WorkCreating' \subseteq WorkCreating
      BY <1>0, <3>1, WorkCreatingMoved
    <3>3. QED
      BY <3>1, <3>2, WorkTimersKept
  <2>2. CASE timer' # timer
    <3>1. /\ WorkTimers' \subseteq WorkTimers \cup {timer'} /\ starts' = starts
          /\ WorkCreating' = WorkCreating \ {c} /\ c \in WorkCreating
      BY <1>0, <1>2, <2>2, WorkTimerCreated
    <3>2. PICK T : T = WorkTimers'
      OBVIOUS
    <3>3. PICK t : t = timer'
      OBVIOUS
    <3>4. /\ IsFiniteSet(WorkTimers \cup {t}) /\ T \in SUBSET (WorkTimers \cup {t})
          /\ Cardinality(WorkTimers \cup {t}) <= Cardinality(WorkTimers) + 1
          /\ Cardinality(WorkTimers \cup {t}) \in Nat
      <4>1. T \subseteq WorkTimers \cup {t}
        BY <3>1, <3>2, <3>3
      <4>2. IsFiniteSet(WorkTimers) /\ Cardinality(WorkTimers) \in Nat
        BY WorkCounts
      <4>3. /\ IsFiniteSet(WorkTimers \cup {t})
            /\ \/ Cardinality(WorkTimers \cup {t}) = Cardinality(WorkTimers)
               \/ Cardinality(WorkTimers \cup {t}) = Cardinality(WorkTimers) + 1
        BY <4>2, FS_AddElement
      <4>4. QED
        BY <4>1, <4>2, <4>3
    <3>5. Cardinality(T) <= Cardinality(WorkTimers \cup {t}) /\ Cardinality(T) \in Nat
      BY <3>4, FS_Subset, FS_CardinalityType
    <3>6. Cardinality(WorkCreating \ {c}) = Cardinality(WorkCreating) - 1
      BY <3>1, WorkCounts, FS_RemoveElement
    <3>7. Cardinality(WorkTimers') <= Cardinality(WorkTimers) + 1
          /\ Cardinality(WorkTimers') \in Nat
      BY <3>2, <3>4, <3>5, WorkCounts
    <3>8. Cardinality(WorkCreating') = Cardinality(WorkCreating) - 1
      BY <3>1, <3>6
    <3>9. QED
      BY <1>0, <3>1, <3>7, <3>8, WorkCounts DEF WorkTimersInv, WorkRangeInv
  <2>3. QED
    BY <2>1, <2>2
<1>3. ASSUME NEW c \in VibratorClients,
             \/ VibratorWork!StartMode(c) \/ VibratorWork!GetHapticSeqByEffect(c)
      PROVE  WorkTimersInv'
  <2>1. WorkTimers' = WorkTimers /\ starts' = starts
    BY <1>3 DEF VibratorWork!StartMode, VibratorWork!GetHapticSeqByEffect, WorkTimers
  <2>2. PICK from, to : /\ VibratorWork!Goes(c, from, to)
                        /\ from \in {"once", "preset", "seqOnce", "seqPreset", "create"}
    BY <1>3 DEF VibratorWork!StartMode, VibratorWork!GetHapticSeqByEffect
  <2>3. WorkCreating' \subseteq WorkCreating
    BY <1>0, <2>2, WorkCreatingMoved
  <2>4. QED
    BY <2>1, <2>3, WorkTimersKept
<1>4. ASSUME NEW c \in VibratorClients,
             \/ VibratorWork!StopCheck(c) \/ VibratorWork!OsalTimerStartLoop(c)
             \/ VibratorWork!StopTimer(c) \/ VibratorWork!StopDelete(c)
             \/ VibratorWork!StopVibrator(c) \/ VibratorWork!StopAdd(c)
             \/ VibratorWork!StopMode(c)
      PROVE WorkTimersInv'
  <2>1. WorkTimers' \subseteq WorkTimers /\ starts' = starts
    BY <1>4 DEF VibratorWork!StopCheck, VibratorWork!OsalTimerStartLoop, VibratorWork!StopTimer,
       VibratorWork!StopDelete, VibratorWork!StopVibrator, VibratorWork!StopAdd,
       VibratorWork!HdfAddWork, VibratorWork!StopMode, WorkTimers
  <2>2. PICK from, to : /\ VibratorWork!Goes(c, from, to)
                        /\ to \notin {"once", "preset", "seqOnce", "seqPreset", "create"}
    BY <1>4 DEF VibratorWork!StopCheck, VibratorWork!OsalTimerStartLoop, VibratorWork!StopTimer,
       VibratorWork!StopDelete, VibratorWork!StopVibrator, VibratorWork!StopAdd,
       VibratorWork!HdfAddWork, VibratorWork!StopMode
  <2>3. WorkCreating' \subseteq WorkCreating
    BY <1>0, <2>2, WorkCreatingKept
  <2>4. QED
    BY <2>1, <2>3, WorkTimersKept
<1>5. CASE VibratorWork!TimerStep
  <2>1. WorkTimers' \subseteq WorkTimers /\ starts' = starts
    BY <1>5 DEF VibratorWork!TimerStep, VibratorWork!TimerFires, VibratorWork!TimerTime,
       VibratorWork!TimerAdd, VibratorWork!HdfAddWork, VibratorWork!TimerNext,
       VibratorWork!TimerEffect, VibratorWork!TimerEnd, VibratorWork!TimerRearm,
       VibratorWork!TimerDelete, WorkTimers
  <2>2. PICK from, to : /\ VibratorWork!Goes("timer", from, to)
                        /\ to \notin {"once", "preset", "seqOnce", "seqPreset", "create"}
    BY <1>5 DEF VibratorWork!TimerStep, VibratorWork!TimerFires, VibratorWork!TimerTime,
       VibratorWork!TimerAdd, VibratorWork!HdfAddWork, VibratorWork!TimerNext,
       VibratorWork!TimerEffect, VibratorWork!TimerEnd, VibratorWork!TimerRearm,
       VibratorWork!TimerDelete
  <2>3. WorkCreating' \subseteq WorkCreating
    BY <1>0, <2>2, WorkCreatingKept
  <2>4. QED
    BY <2>1, <2>3, WorkTimersKept
<1>6. CASE VibratorWork!WorkStep
  <2>1. WorkTimers' \subseteq WorkTimers /\ starts' = starts
    BY <1>6 DEF VibratorWork!WorkStep, VibratorWork!WorkTaken, VibratorWork!WorkStart,
       VibratorWork!WorkStop, WorkTimers
  <2>2. PICK from, to : /\ VibratorWork!Goes("work", from, to)
                        /\ to \notin {"once", "preset", "seqOnce", "seqPreset", "create"}
    BY <1>6 DEF VibratorWork!WorkStep, VibratorWork!WorkTaken, VibratorWork!WorkStart,
       VibratorWork!WorkStop
  <2>3. WorkCreating' \subseteq WorkCreating
    BY <1>0, <2>2, WorkCreatingKept
  <2>4. QED
    BY <2>1, <2>3, WorkTimersKept
<1>7. CASE UNCHANGED VibratorWork!vars
  BY <1>0, <1>7 DEF VibratorWork!vars, WorkTimersInv, WorkTimers, WorkCreating
<1>8. QED
  BY <1>1, <1>2, <1>3, <1>4, <1>5, <1>6, <1>7 DEF VibratorWork!Next, VibratorWork!ClientStep

\* Every step keeps the invariant.
LEMMA WorkStepInv ==
  ASSUME WorkInv, [VibratorWork!Next]_(VibratorWork!vars)
  PROVE  WorkInv'
<1>1. MotorInv(VibratorClients)'
  BY WorkMotorStep DEF WorkInv
<1>2. QED
  BY <1>1, WorkTimersStep, WorkOthersStep

\* The work item with nothing to do has done what was asked for last.
LEMMA WorkFollows ==
  ASSUME WorkInv
  PROVE  VibratorWork!TypeOK /\ VibratorWork!MotorFollows
<1>1. VibratorWork!TypeOK
  BY VibratorAssumption DEF WorkInv, WorkRangeInv, WorkSeqInv, VibratorWork!TypeOK
<1>2. VibratorWork!MotorFollows
  BY DEF WorkInv, MotorInv, MotorAt, MotorAsked, MotorAdding, VibratorWork!MotorFollows,
     VibratorWork!NobodyAdds, MotorWorkAt, VibratorWork!Actors
<1>3. QED
  BY <1>1, <1>2

-----------------------------------------------------------------------------
(* One client, whose deletion of a timer waits for its callback.           *)

\* The same for this instance.
LEMMA StopMotorStep ==
  ASSUME MotorInv({t1}), [VibratorStop!Next]_(VibratorStop!vars)
  PROVE  MotorInv({t1})'
<1> USE DEF VibratorStop!Goes, MotorGoes, MotorClientAt, MotorTimerAt
<1>1. ASSUME NEW c \in {t1},
             \/ VibratorStop!StartCheck(c, "once") \/ VibratorStop!StartCheck(c, "preset")
             \/ VibratorStop!StopCheck(c) \/ VibratorStop!ClientStep(c)
      PROVE  MotorInv({t1})'
  <2>1. PICK from, to :
          /\ MotorGoes(c, from, to) /\ to \in MotorClientAt /\ UNCHANGED motor
          /\ \/ from # "add" /\ UNCHANGED <<state, pending>>
             \/ to = "add" \/ (pending' /\ UNCHANGED state)
    BY <1>1 DEF VibratorStop!StartCheck, VibratorStop!StopCheck, VibratorStop!ClientStep,
       VibratorStop!StartMode, VibratorStop!GetHapticSeqByEffect, VibratorStop!OsalTimerCreate,
       VibratorStop!OsalTimerStartLoop, VibratorStop!StopTimer, VibratorStop!StopDelete,
       VibratorStop!StopVibrator, VibratorStop!StopAdd, VibratorStop!HdfAddWork,
       VibratorStop!StopMode
  <2>2. QED
    BY <2>1, MotorAsks DEF MotorInv, MotorAt
<1>2. CASE VibratorStop!TimerStep
  <2>1. PICK from, to :
          /\ MotorGoes("timer", from, to) /\ to \in MotorTimerAt /\ UNCHANGED motor
          /\ \/ from # "add" /\ UNCHANGED <<state, pending>>
             \/ to = "add" \/ state' = "SET_EFFECT" \/ (pending' /\ UNCHANGED state)
    BY <1>2 DEF VibratorStop!TimerStep, VibratorStop!TimerFires, VibratorStop!TimerTime,
       VibratorStop!TimerAdd, VibratorStop!HdfAddWork, VibratorStop!TimerNext,
       VibratorStop!TimerEffect, VibratorStop!TimerEnd, VibratorStop!TimerRearm,
       VibratorStop!TimerDelete
  <2>2. QED
    BY <2>1, MotorAsks DEF MotorInv, MotorAt
<1>3. CASE VibratorStop!WorkStep
  BY <1>3, MotorWorks
     DEF VibratorStop!WorkStep, VibratorStop!WorkTaken, VibratorStop!WorkStart,
         VibratorStop!WorkStop
<1>4. CASE UNCHANGED VibratorStop!vars
  BY <1>4 DEF VibratorStop!vars, MotorInv, MotorAt, MotorAsked, MotorAdding
<1>5. QED
  BY <1>1, <1>2, <1>3, <1>4 DEF VibratorStop!Next

\* A vibration that was stopped has no timer and the callback is over, so that
\* nothing changes the state any more: it is STOP when the client has asked for it.
StopSilent ==
    /\ armed \subseteq {timer} /\ 0 \notin armed
    /\ pc["timer"] # "idle" => timer # 0
    /\ pc[t1] \in {"once", "preset", "seqOnce", "seqPreset", "create", "quiet", "add", "added"}
         => timer = 0
    /\ mode = "BUTT" => /\ pc[t1] \in {"idle", "once", "preset"} /\ timer = 0
                        /\ state \in {"IDLE", "STOP"}
    /\ pc[t1] \in {"add", "added"} => state = "STOP"
    /\ state = "IDLE" => motor = "off"

\* Every step keeps what a stopped vibration promises.
LEMMA StopSilentStep ==
  ASSUME MotorInv({t1}), StopSilent, [VibratorStop!Next]_(VibratorStop!vars)
  PROVE  StopSilent'
<1> USE DEF VibratorStop!Actors, VibratorStop!Goes, StopSilent, MotorInv, MotorAt
<1>1. CASE VibratorStop!StartCheck(t1, "once") \/ VibratorStop!StartCheck(t1, "preset")
      \/ VibratorStop!StopCheck(t1)
  BY <1>1 DEF VibratorStop!StartCheck, VibratorStop!StopCheck
<1>2. CASE VibratorStop!StartMode(t1) \/ VibratorStop!GetHapticSeqByEffect(t1)
  BY <1>2 DEF VibratorStop!StartMode, VibratorStop!GetHapticSeqByEffect
<1>3. CASE VibratorStop!OsalTimerCreate(t1) \/ VibratorStop!OsalTimerStartLoop(t1)
  BY <1>3 DEF VibratorStop!OsalTimerCreate, VibratorStop!OsalTimerStartLoop
<1>4. CASE VibratorStop!StopTimer(t1) \/ VibratorStop!StopDelete(t1)
  BY <1>4 DEF VibratorStop!StopTimer, VibratorStop!StopDelete
<1>5. CASE VibratorStop!StopVibrator(t1) \/ VibratorStop!StopAdd(t1) \/ VibratorStop!StopMode(t1)
  BY <1>5 DEF VibratorStop!StopVibrator, VibratorStop!StopAdd, VibratorStop!HdfAddWork,
     VibratorStop!StopMode
<1>6. CASE VibratorStop!TimerFires \/ VibratorStop!TimerAdd \/ VibratorStop!TimerNext
  BY <1>6 DEF VibratorStop!TimerFires, VibratorStop!TimerAdd, VibratorStop!HdfAddWork,
     VibratorStop!TimerNext
<1>7. CASE VibratorStop!TimerTime
  BY <1>7 DEF VibratorStop!TimerTime
<1>8. CASE VibratorStop!TimerEffect \/ VibratorStop!TimerEnd \/ VibratorStop!TimerRearm
      \/ VibratorStop!TimerDelete
  BY <1>8 DEF VibratorStop!TimerEffect, VibratorStop!TimerEnd, VibratorStop!TimerRearm,
     VibratorStop!TimerDelete
<1>9. CASE VibratorStop!WorkStep
  BY <1>9 DEF VibratorStop!WorkStep, VibratorStop!WorkTaken, VibratorStop!WorkStart,
     VibratorStop!WorkStop
<1>10. CASE UNCHANGED VibratorStop!vars
  BY <1>10 DEF VibratorStop!vars
<1>11. QED
  BY <1>1, <1>2, <1>3, <1>4, <1>5, <1>6, <1>7, <1>8, <1>9, <1>10
     DEF VibratorStop!Next, VibratorStop!ClientStep, VibratorStop!TimerStep

\* No vibration was started yet.
LEMMA StopSilentInit ==
  ASSUME VibratorStop!Init
  PROVE  StopSilent /\ MotorInv({t1})
<1>1. StopSilent
  BY DEF VibratorStop!Init, StopSilent, VibratorStop!Actors
<1>2. MotorInv({t1})
  BY VibratorAssumption
     DEF VibratorStop!Init, VibratorStop!Actors, MotorInv, MotorAt, MotorAsked, MotorClientAt,
         MotorTimerAt, MotorWorkAt
<1>3. QED
  BY <1>1, <1>2

\* With the work done, the motor is off.
LEMMA StopSilentFollows ==
  ASSUME StopSilent, MotorInv({t1})
  PROVE  VibratorStop!StopSilences
  BY DEF StopSilent, VibratorStop!StopSilences, MotorInv, MotorAsked, MotorAdding,
     VibratorStop!Actors

-----------------------------------------------------------------------------
\* What the choice of a vibrator at the start means.
LEMMA VibratorRuns ==
    /\ Init /\ part = "vibrator_work" => VibratorWork!Init
    /\ part = "vibrator_work" /\ [Next]_vars
         => part' = "vibrator_work" /\ [VibratorWork!Next]_(VibratorWork!vars)
    /\ part # "vibrator_work" /\ [Next]_vars => part' # "vibrator_work"
    /\ Init /\ part = "vibrator_stop" => VibratorStop!Init
    /\ part = "vibrator_stop" /\ [Next]_vars
         => part' = "vibrator_stop" /\ [VibratorStop!Next]_(VibratorStop!vars)
    /\ part # "vibrator_stop" /\ [Next]_vars => part' # "vibrator_stop"
<1>1. /\ Init /\ part = "vibrator_work" => VibratorWork!Init
      /\ Init /\ part = "vibrator_stop" => VibratorStop!Init
  BY DEF Init
<1>2. /\ part = "vibrator_work" /\ Next => part' = "vibrator_work" /\ VibratorWork!Next
      /\ part = "vibrator_stop" /\ Next => part' = "vibrator_stop" /\ VibratorStop!Next
  BY DEF Next
<1>3. UNCHANGED vars => UNCHANGED <<part, VibratorWork!vars, VibratorStop!vars>>
  BY DEF vars, VibratorWork!vars, VibratorStop!vars
<1>4. /\ part # "vibrator_work" /\ [Next]_vars => part' # "vibrator_work"
      /\ part # "vibrator_stop" /\ [Next]_vars => part' # "vibrator_stop"
  BY DEF Next, vars
<1>5. QED
  BY <1>1, <1>2, <1>3, <1>4

\* The one work item never loses a request, whoever asks while it runs: once it has
\* nothing to do, the motor does what was asked for last, for any number of clients,
\* presets and starts; and after a stop it is off until the next start
\* (VibratorWorkEntry, StopHaptic).
THEOREM MotorFollowsThm == Spec => []MotorFollows
<1> DEFINE WorkRuns == part = "vibrator_work" => WorkInv
           StopRuns == part = "vibrator_stop" => StopSilent /\ MotorInv({t1})
<1>1. Init => WorkRuns /\ StopRuns
  BY VibratorRuns, WorkInitInv, StopSilentInit
<1>2. WorkRuns /\ StopRuns /\ [Next]_vars => (WorkRuns /\ StopRuns)'
  BY VibratorRuns, WorkStepInv, StopSilentStep, StopMotorStep
<1>3. WorkRuns /\ StopRuns => MotorFollows
  BY WorkFollows, StopSilentFollows DEF MotorFollows
<1> HIDE DEF WorkRuns, StopRuns
<1>4. QED
  BY <1>1, <1>2, <1>3, PTL DEF Spec

-----------------------------------------------------------------------------
(* DMA controllers.                                                        *)

\* A set of numbers below N has a least one: the number of its lower bounds tells which.
LEMMA LeastExists ==
  ASSUME NEW N \in Nat, NEW S \in SUBSET (0..(N - 1)), S # {}
  PROVE  \E x \in S : \A y \in S : x <= y
<1> DEFINE D == {d \in 0..N : \A y \in S : d <= y}
           m == Cardinality(D)
<1>1. IsFiniteSet(0..N) /\ D \in SUBSET (0..N)
  BY FS_Interval
<1>2. IsFiniteSet(D) /\ m \in Nat
  BY <1>1, FS_Subset, FS_CardinalityType
<1>3. \A d \in D, e \in 0..N : e <= d => e \in D
  OBVIOUS
<1>4. 0 \in D /\ N \notin D
  <2>1. PICK y \in S : TRUE
    OBVIOUS
  <2>2. y < N
    OBVIOUS
  <2>3. QED
    BY <2>2
<1>5. D # {} /\ m # 0
  BY <1>2, <1>4, FS_EmptySet
<1> HIDE DEF D, m
<1>6. m \notin D
  <2>1. SUFFICES ASSUME m \in D PROVE FALSE
    OBVIOUS
  <2>2. 0..m \in SUBSET D /\ Cardinality(D) = m
    BY <1>1, <1>2, <1>3, <2>1 DEF m
  <2>3. Cardinality(0..m) = m + 1
    BY <1>2, FS_Interval
  <2>4. QED
    BY <1>2, <2>2, <2>3, FS_Subset
<1>7. m <= N
  <2>1. D \in SUBSET (0..(N - 1))
    BY <1>1, <1>4
  <2>2. IsFiniteSet(0..(N - 1)) /\ Cardinality(0..(N - 1)) = N
    BY FS_Interval
  <2>3. QED
    BY <2>1, <2>2, FS_Subset DEF m
<1>8. m - 1 \in D
  <2>1. SUFFICES ASSUME m - 1 \notin D PROVE FALSE
    OBVIOUS
  <2>2. m - 1 \in 0..N
    BY <1>2, <1>5, <1>7
  <2>3. D \in SUBSET (0..(m - 2))
    BY <1>1, <1>2, <1>3, <2>1, <2>2
  <2>4. IsFiniteSet(0..(m - 2)) /\ Cardinality(0..(m - 2)) = m - 1
    <3>1. m - 2 \in Int /\ 0 \in Int
      BY <1>2
    <3>2. /\ IsFiniteSet(0..(m - 2))
          /\ Cardinality(0..(m - 2)) = IF 0 > m - 2 THEN 0 ELSE m - 2 - 0 + 1
      BY <3>1, FS_Interval
    <3>3. QED
      BY <1>2, <1>5, <3>2
  <2>5. m <= m - 1
    <3>1. Cardinality(D) <= Cardinality(0..(m - 2))
      BY <2>3, <2>4, FS_Subset
    <3>2. QED
      BY <2>4, <3>1 DEF m
  <2>6. QED
    BY <1>2, <2>5
<1>9. PICK y \in S : y < m
  BY <1>2, <1>6, <1>7 DEF D
<1>10. \A z \in S : m - 1 <= z
  BY <1>8 DEF D
<1>11. y = m - 1
  BY <1>2, <1>9, <1>10
<1>12. QED
  BY <1>10, <1>11

-----------------------------------------------------------------------------
(* Transfers of peripherals, of several clients.                           *)

LEMMA PeriphMinFacts ==
  ASSUME NEW N \in Nat, NEW S \in SUBSET (0..(N - 1)), S # {}
  PROVE  DmacPeriph!Min(S) \in S
  BY LeastExists DEF DmacPeriph!Min

\* Nothing goes on in a channel.
PeriphQuiet(c) == hw[c] = DmacPeriph!NoTransfer /\ irq[c] = DmacPeriph!None /\ info[c].lli = FALSE

\* What the core can know of a channel.
PeriphInfos ==
  [type : {"periph", DmacPeriph!None}, cb : DmaClients \cup {DmacPeriph!None}, lli : BOOLEAN]

PeriphTypes ==
  /\ use \in [DmacPeriph!Channels -> {"vacant", "allocated"}]
  /\ info \in [DmacPeriph!Channels -> PeriphInfos]
  /\ hw \in [DmacPeriph!Channels -> (DmaClients \X Nat) \cup {DmacPeriph!NoTransfer}]
  /\ irq \in [DmacPeriph!Channels -> {DmacPeriph!None, "success", "error", "called"}]
  /\ pc \in [DmaClients -> {"idle", "got", "running", "lost"}]
  /\ chan \in [DmaClients -> DmacPeriph!Channels \cup {DmacPeriph!Beyond}]
  /\ kind \in [DmaClients -> {DmacPeriph!None, "periph"}]
  /\ serial \in [DmaClients -> Nat] /\ calls \in [DmaClients -> Nat]

\* The channel of a client under way is allocated to it, and to it alone (Apart).
PeriphOwned ==
  \A k \in DmaClients : DmacPeriph!UnderWay(k) =>
    /\ chan[k] \in DmacPeriph!Channels /\ use[chan[k]] = "allocated"
    /\ info[chan[k]].type = "periph"
    /\ calls[k] = 0
    /\ pc[k] = "got" => PeriphQuiet(chan[k])
    /\ pc[k] = "running" => info[chan[k]].cb = k
    /\ pc[k] = "running"
         => (hw[chan[k]] = DmacPeriph!NoTransfer \/ irq[chan[k]] = DmacPeriph!None)
    /\ irq[chan[k]] # "called"

PeriphApart ==
  \A j, k \in DmaClients : j # k /\ DmacPeriph!UnderWay(j) /\ DmacPeriph!UnderWay(k)
    => chan[j] # chan[k]

\* A channel is vacant and quiet, or the interrupt is about to free it.
PeriphFree(c) ==
  \/ use[c] = "vacant" /\ PeriphQuiet(c)
  \/ use[c] = "allocated" /\ hw[c] = DmacPeriph!NoTransfer /\ irq[c] = "called"

\* So is a channel of nobody under way.
PeriphUnused ==
  \A c \in DmacPeriph!Channels :
    (\A k \in DmaClients : DmacPeriph!UnderWay(k) => chan[k] # c)
      => PeriphFree(c)

PeriphCalled == \A k \in DmaClients : calls[k] <= 1 /\ (calls[k] = 1 => pc[k] = "idle")

PeriphInv == PeriphTypes /\ PeriphOwned /\ PeriphApart /\ PeriphUnused /\ PeriphCalled

LEMMA PeriphInitInv == ASSUME DmacPeriph!Init PROVE PeriphInv
<1> USE DEF DmacPeriph!Init, PeriphInv, PeriphInfos, DmacPeriph!UnderWay, PeriphQuiet,
    PeriphFree, DmacPeriph!NoTransfer, DmacPeriph!None
<1>1. PeriphTypes
  <2>1. [type |-> DmacPeriph!None, cb |-> DmacPeriph!None, lli |-> FALSE] \in PeriphInfos
    BY DEF DmacPeriph!None
  <2>2. info \in [DmacPeriph!Channels -> PeriphInfos]
    BY <2>1
  <2>3. hw \in [DmacPeriph!Channels -> (DmaClients \X Nat) \cup {DmacPeriph!NoTransfer}]
    BY DEF DmacPeriph!NoTransfer
  <2>4. chan \in [DmaClients -> DmacPeriph!Channels \cup {DmacPeriph!Beyond}]
    BY DmaAssumption DEF DmacPeriph!Channels
  <2>5. QED
    BY <2>2, <2>3, <2>4 DEF PeriphTypes
<1>2. PeriphOwned /\ PeriphApart /\ PeriphUnused /\ PeriphCalled
  BY DEF PeriphOwned, PeriphApart, PeriphUnused, PeriphCalled
<1>3. QED
  BY <1>1, <1>2

\* A step of one client and of the one channel it has, or is given.
LEMMA PeriphMove ==
  ASSUME PeriphInv, PeriphTypes', NEW k \in DmaClients, NEW c \in DmacPeriph!Channels,
         chan'[k] = c,
         \A d \in DmacPeriph!Channels \ {c} :
           /\ use'[d] = use[d] /\ info'[d] = info[d]
           /\ hw'[d] = hw[d] /\ irq'[d] = irq[d],
         \A j \in DmaClients \ {k} :
           /\ pc'[j] = pc[j] /\ chan'[j] = chan[j]
           /\ calls'[j] = calls[j],
         IF DmacPeriph!UnderWay(k) THEN chan[k] = c ELSE use[c] = "vacant",
         IF DmacPeriph!UnderWay(k)'
         THEN /\ use'[c] = "allocated" /\ info'[c].type = "periph" /\ calls'[k] = 0
              /\ pc'[k] = "got" => PeriphQuiet(c)'
              /\ pc'[k] = "running" => info'[c].cb = k
              /\ pc'[k] = "running"
                   => (hw'[c] = DmacPeriph!NoTransfer \/ irq'[c] = DmacPeriph!None)
              /\ irq'[c] # "called"
         ELSE PeriphFree(c)',
         calls'[k] <= 1 /\ (calls'[k] = 1 => pc'[k] = "idle")
  PROVE  PeriphInv'
<1>0. PeriphTypes /\ PeriphOwned /\ PeriphApart /\ PeriphUnused /\ PeriphCalled
  BY DEF PeriphInv
<1>1. \A j \in DmaClients \ {k} :
        (DmacPeriph!UnderWay(j)' <=> DmacPeriph!UnderWay(j))
          /\ (DmacPeriph!UnderWay(j) => chan[j] # c)
  BY <1>0 DEF PeriphOwned, PeriphApart, DmacPeriph!UnderWay
<1>2. PeriphOwned'
  <2> SUFFICES ASSUME NEW j \in DmaClients, DmacPeriph!UnderWay(j)', j # k
               PROVE  /\ chan'[j] \in DmacPeriph!Channels /\ use'[chan'[j]] = "allocated"
                      /\ info'[chan'[j]].type = "periph"
                      /\ calls'[j] = 0
                      /\ pc'[j] = "got" => PeriphQuiet(chan[j])'
                      /\ pc'[j] = "running" => info'[chan'[j]].cb = j
                      /\ pc'[j] = "running"
                           => (hw'[chan'[j]] = DmacPeriph!NoTransfer \/ irq'[chan'[j]] =
                               DmacPeriph!None)
                      /\ irq'[chan'[j]] # "called"
    BY DEF PeriphOwned
  <2>1. DmacPeriph!UnderWay(j) /\ chan[j] # c /\ chan'[j] = chan[j]
        /\ chan[j] \in DmacPeriph!Channels
    BY <1>0, <1>1 DEF PeriphOwned
  <2>2. QED
    BY <1>0, <2>1 DEF PeriphOwned, PeriphQuiet
<1>3. PeriphApart'
  BY <1>0, <1>1 DEF PeriphApart
<1>4. PeriphUnused'
  <2> SUFFICES ASSUME NEW d \in DmacPeriph!Channels,
                      \A j \in DmaClients : DmacPeriph!UnderWay(j)' => chan'[j] # d
               PROVE  PeriphFree(d)'
    BY DEF PeriphUnused
  <2>1. CASE d = c
    BY <2>1
  <2>2. CASE d # c
    <3>1. \A j \in DmaClients : DmacPeriph!UnderWay(j) => chan[j] # d
      BY <1>1, <2>2
    <3>2. QED
      BY <1>0, <2>2, <3>1 DEF PeriphUnused, PeriphFree, PeriphQuiet
  <2>3. QED
    BY <2>1, <2>2
<1>5. PeriphCalled'
  BY <1>0 DEF PeriphCalled
<1>6. QED
  BY <1>2, <1>3, <1>4, <1>5 DEF PeriphInv

LEMMA PeriphStepInv == ASSUME PeriphInv, [DmacPeriph!Next]_(DmacPeriph!vars) PROVE PeriphInv'
<1> USE DEF PeriphInfos, DmacPeriph!request, DmacPeriph!history, DmacPeriph!hardware,
    DmacPeriph!channels, DmacPeriph!DmacFreeChannel
<1>0. PeriphTypes /\ PeriphOwned /\ PeriphApart /\ PeriphUnused /\ PeriphCalled
  BY DEF PeriphInv
<1>1. ASSUME NEW k \in DmaClients, NEW type \in {"periph"}, NEW n \in {1},
             DmacPeriph!DmaCntlrTransfer(k, type, n)
      PROVE  PeriphInv'
  <2>0. PICK c : c = DmacPeriph!DmacAllocateChannel
    OBVIOUS
  <2>1. CASE c = DmacPeriph!Beyond
    <3>1. /\ pc' = [pc EXCEPT ![k] = "lost"] /\ chan' = [chan EXCEPT ![k] = DmacPeriph!Beyond]
          /\ calls' = [calls EXCEPT ![k] = 0] /\ serial' = [serial EXCEPT ![k] = @ + 1]
          /\ kind' = [kind EXCEPT ![k] = "periph"] /\ pc[k] = "idle"
          /\ UNCHANGED <<use, info, hw, irq>>
      BY <1>1, <2>0, <2>1 DEF DmacPeriph!DmaCntlrTransfer
    <3>2. PeriphTypes'
      BY <1>0, <3>1 DEF PeriphTypes
    <3>3. \A j \in DmaClients :
            (DmacPeriph!UnderWay(j)' <=> DmacPeriph!UnderWay(j))
              /\ (DmacPeriph!UnderWay(j) => j # k)
      BY <1>0, <3>1 DEF PeriphTypes, DmacPeriph!UnderWay
    <3>4. \A j \in DmaClients \ {k} :
            /\ pc'[j] = pc[j] /\ chan'[j] = chan[j]
            /\ calls'[j] = calls[j]
      BY <1>0, <3>1 DEF PeriphTypes
    <3>5. PeriphOwned' /\ PeriphApart' /\ PeriphUnused'
      BY <1>0, <3>1, <3>3, <3>4
         DEF PeriphOwned, PeriphApart, PeriphUnused, PeriphFree, PeriphQuiet
    <3>6. PeriphCalled'
      BY <1>0, <3>1, <3>4 DEF PeriphCalled, PeriphTypes
    <3>7. QED
      BY <3>2, <3>5, <3>6 DEF PeriphInv
  <2>2. CASE c # DmacPeriph!Beyond
    <3>1. DmacPeriph!Vacant # {} /\ c = DmacPeriph!Min(DmacPeriph!Vacant)
      BY <2>0, <2>2 DEF DmacPeriph!DmacAllocateChannel
    <3>2. DmacPeriph!Vacant \subseteq 0..(ChannelNum - 1) /\ ChannelNum \in Nat
      BY DmaAssumption DEF DmacPeriph!Vacant, DmacPeriph!Channels
    <3>3. c \in DmacPeriph!Vacant
      BY <3>1, <3>2, PeriphMinFacts
    <3>4. c \in DmacPeriph!Channels /\ use[c] = "vacant"
      BY <3>3 DEF DmacPeriph!Vacant
    <3>5. /\ pc' = [pc EXCEPT ![k] = "got"] /\ chan' = [chan EXCEPT ![k] = c]
          /\ use' = [use EXCEPT ![c] = "allocated"]
          /\ info' = [info EXCEPT ![c].type = type] /\ type = "periph"
          /\ calls' = [calls EXCEPT ![k] = 0] /\ serial' = [serial EXCEPT ![k] = @ + 1]
          /\ kind' = [kind EXCEPT ![k] = "periph"] /\ pc[k] = "idle"
          /\ UNCHANGED <<hw, irq>>
      BY <1>1, <2>0, <2>2 DEF DmacPeriph!DmaCntlrTransfer
    <3>6. /\ info[c] \in PeriphInfos
          /\ info'[c] = [info[c] EXCEPT !.type = "periph"]
      BY <1>0, <3>4, <3>5 DEF PeriphTypes
    <3>7. /\ info'[c] \in PeriphInfos
          /\ info'[c].type = "periph" /\ info'[c].lli = info[c].lli /\ info'[c].cb = info[c].cb
      BY <3>6
    <3>8. PeriphTypes'
      <4>1. info' \in [DmacPeriph!Channels -> PeriphInfos]
        BY <1>0, <3>4, <3>5, <3>7 DEF PeriphTypes
      <4>2. QED
        BY <1>0, <3>4, <3>5, <4>1 DEF PeriphTypes
    <3>9. PeriphQuiet(c) /\ PeriphQuiet(c)'
      <4>1. \A j \in DmaClients : DmacPeriph!UnderWay(j) => chan[j] # c
        BY <1>0, <3>4 DEF PeriphOwned
      <4>2. PeriphQuiet(c)
        BY <1>0, <3>4, <4>1 DEF PeriphUnused, PeriphFree
      <4>3. QED
        BY <3>5, <3>7, <4>2 DEF PeriphQuiet
    <3>10. /\ chan'[k] = c /\ pc'[k] = "got" /\ calls'[k] = 0 /\ use'[c] = "allocated"
           /\ ~DmacPeriph!UnderWay(k) /\ DmacPeriph!UnderWay(k)'
      BY <1>0, <3>4, <3>5 DEF PeriphTypes, DmacPeriph!UnderWay
    <3>11. /\ \A d \in DmacPeriph!Channels \ {c} :
                /\ use'[d] = use[d] /\ info'[d] = info[d]
                /\ hw'[d] = hw[d] /\ irq'[d] = irq[d]
           /\ \A j \in DmaClients \ {k} :
                /\ pc'[j] = pc[j] /\ chan'[j] = chan[j]
                /\ calls'[j] = calls[j]
      BY <1>0, <3>4, <3>5 DEF PeriphTypes
    <3>12. irq'[c] # "called"
      BY <3>9 DEF PeriphQuiet, DmacPeriph!None
    <3>13. QED
      BY <3>4, <3>7, <3>8, <3>9, <3>10, <3>11, <3>12, PeriphMove
  <2>3. QED
    BY <2>1, <2>2
<1>2. ASSUME NEW k \in DmaClients, DmacPeriph!DmacRequestChannelFails(k)
             \/ DmacPeriph!DmacPeriphFails(k)
      PROVE  PeriphInv'
  <2>1. PICK c \in DmacPeriph!Channels : c = chan[k] /\ pc[k] = "got" /\ PeriphQuiet(c)
    BY <1>0, <1>2
       DEF DmacPeriph!DmacRequestChannelFails, DmacPeriph!DmacPeriphFails, PeriphOwned,
           DmacPeriph!UnderWay
  <2>2. /\ pc' = [pc EXCEPT ![k] = "idle"] /\ use' = [use EXCEPT ![c] = "vacant"]
        /\ UNCHANGED <<hw, irq, chan, kind, serial, calls>>
    BY <1>2, <2>1 DEF DmacPeriph!DmacRequestChannelFails, DmacPeriph!DmacPeriphFails
  <2>3. /\ info'[c] \in PeriphInfos
        /\ info'[c].lli = FALSE /\ info' = [info EXCEPT ![c] = info'[c]]
    <3>1. info[c] \in PeriphInfos
      BY <1>0, <2>1 DEF PeriphTypes
    <3>2. CASE DmacPeriph!DmacRequestChannelFails(k)
      BY <1>0, <2>1, <3>1, <3>2 DEF DmacPeriph!DmacRequestChannelFails, PeriphTypes
    <3>3. CASE DmacPeriph!DmacPeriphFails(k)
      BY <1>0, <2>1, <3>1, <3>3 DEF DmacPeriph!DmacPeriphFails, PeriphTypes
    <3>4. QED
      BY <1>2, <3>2, <3>3
  <2>4. PeriphTypes'
    BY <1>0, <2>1, <2>2, <2>3 DEF PeriphTypes
  <2>5. /\ chan'[k] = c /\ pc'[k] = "idle" /\ calls'[k] = 0 /\ use'[c] = "vacant"
        /\ DmacPeriph!UnderWay(k) /\ ~DmacPeriph!UnderWay(k)' /\ PeriphFree(c)'
    BY <1>0, <2>1, <2>2, <2>3
       DEF PeriphTypes, DmacPeriph!UnderWay, PeriphOwned, PeriphFree, PeriphQuiet
  <2>6. /\ \A d \in DmacPeriph!Channels \ {c} :
             /\ use'[d] = use[d] /\ info'[d] = info[d]
             /\ hw'[d] = hw[d] /\ irq'[d] = irq[d]
        /\ \A j \in DmaClients \ {k} :
             /\ pc'[j] = pc[j] /\ chan'[j] = chan[j]
             /\ calls'[j] = calls[j]
    BY <1>0, <2>1, <2>2, <2>3 DEF PeriphTypes
  <2>7. QED
    BY <2>1, <2>4, <2>5, <2>6, PeriphMove
<1>3. ASSUME NEW k \in DmaClients, DmacPeriph!DmacPeriphTransfer(k) PROVE PeriphInv'
  <2>1. PICK c \in DmacPeriph!Channels : c = chan[k] /\ pc[k] = "got" /\ PeriphQuiet(c)
    BY <1>0, <1>3 DEF DmacPeriph!DmacPeriphTransfer, PeriphOwned, DmacPeriph!UnderWay
  <2>2. /\ pc' = [pc EXCEPT ![k] = "running"] /\ hw' = [hw EXCEPT ![c] = <<k, serial[k]>>]
        /\ UNCHANGED <<use, irq, chan, kind, serial, calls>>
    BY <1>3, <2>1 DEF DmacPeriph!DmacPeriphTransfer
  <2>3. /\ info'[c] \in PeriphInfos
        /\ info'[c].type = info[c].type /\ info'[c].cb = k
        /\ info' = [info EXCEPT ![c] = info'[c]]
    <3>1. info[c] \in PeriphInfos
      BY <1>0, <2>1 DEF PeriphTypes
    <3>2. QED
      BY <1>0, <1>3, <2>1, <3>1 DEF DmacPeriph!DmacPeriphTransfer, PeriphTypes
  <2>4. PeriphTypes'
    BY <1>0, <2>1, <2>2, <2>3 DEF PeriphTypes
  <2>5. /\ chan'[k] = c /\ pc'[k] = "running" /\ calls'[k] = 0 /\ use'[c] = "allocated"
        /\ DmacPeriph!UnderWay(k) /\ DmacPeriph!UnderWay(k)' /\ irq'[c] = DmacPeriph!None
        /\ info'[c].type = "periph"
    BY <1>0, <2>1, <2>2, <2>3 DEF PeriphTypes, DmacPeriph!UnderWay, PeriphOwned, PeriphQuiet
  <2>6. /\ \A d \in DmacPeriph!Channels \ {c} :
             /\ use'[d] = use[d] /\ info'[d] = info[d]
             /\ hw'[d] = hw[d] /\ irq'[d] = irq[d]
        /\ \A j \in DmaClients \ {k} :
             /\ pc'[j] = pc[j] /\ chan'[j] = chan[j]
             /\ calls'[j] = calls[j]
    BY <1>0, <2>1, <2>2, <2>3 DEF PeriphTypes
  <2>7. QED
    BY <2>1, <2>3, <2>4, <2>5, <2>6, PeriphMove DEF DmacPeriph!None
<1>4. ASSUME NEW c \in DmacPeriph!Channels, NEW ended \in {"success", "error"},
             DmacPeriph!HwEnds(c, ended) PROVE PeriphInv'
  <2>1. PICK k \in DmaClients : DmacPeriph!UnderWay(k) /\ chan[k] = c /\ pc[k] = "running"
        /\ irq[c] = DmacPeriph!None
    BY <1>0, <1>4
       DEF DmacPeriph!HwEnds, PeriphUnused, PeriphOwned, PeriphFree, PeriphQuiet,
           DmacPeriph!UnderWay, PeriphTypes
  <2>2. /\ irq' = [irq EXCEPT ![c] = ended] /\ hw' = [hw EXCEPT ![c] = DmacPeriph!NoTransfer]
        /\ UNCHANGED <<use, info, chan, kind, serial, calls, pc>>
    BY <1>4 DEF DmacPeriph!HwEnds
  <2>3. PeriphTypes'
    BY <1>0, <2>2 DEF PeriphTypes
  <2>4. DmacPeriph!UnderWay(k)' /\ hw'[c] = DmacPeriph!NoTransfer /\ irq'[c] # "called"
    BY <1>0, <2>1, <2>2 DEF PeriphTypes, DmacPeriph!UnderWay
  <2>5. \A d \in DmacPeriph!Channels \ {c} :
          /\ use'[d] = use[d] /\ info'[d] = info[d]
          /\ hw'[d] = hw[d] /\ irq'[d] = irq[d]
    BY <1>0, <2>2 DEF PeriphTypes
  <2>6. QED
    BY <1>0, <2>1, <2>2, <2>3, <2>4, <2>5, PeriphMove DEF PeriphOwned, PeriphCalled
<1>5. ASSUME NEW c \in DmacPeriph!Channels, DmacPeriph!DmacIsr(c) PROVE PeriphInv'
  <2>1. PICK k \in DmaClients : /\ DmacPeriph!UnderWay(k) /\ chan[k] = c /\ pc[k] = "running"
                               /\ hw[c] = DmacPeriph!NoTransfer /\ use[c] = "allocated"
                               /\ info[c].cb = k /\ info[c].type = "periph" /\ calls[k] = 0
    BY <1>0, <1>5
       DEF DmacPeriph!DmacIsr, PeriphUnused, PeriphOwned, PeriphFree, PeriphQuiet,
           DmacPeriph!UnderWay, PeriphTypes, DmacPeriph!None
  <2>2. /\ irq' = [irq EXCEPT ![c] = "called"]
        /\ pc' = [pc EXCEPT ![k] = "idle"] /\ calls' = [calls EXCEPT ![k] = @ + 1]
        /\ UNCHANGED <<use, info, hw, chan, kind, serial>>
    BY <1>5, <2>1 DEF DmacPeriph!DmacIsr, DmacPeriph!Callback
  <2>3. PeriphTypes'
    <3>1. pc' \in [DmaClients -> {"idle", "got", "running", "lost"}]
          /\ calls' \in [DmaClients -> Nat]
      BY <1>0, <2>2 DEF PeriphTypes
    <3>2. irq' \in [DmacPeriph!Channels -> {DmacPeriph!None, "success", "error", "called"}]
      BY <1>0, <2>2 DEF PeriphTypes
    <3>3. QED
      BY <1>0, <2>2, <3>1, <3>2 DEF PeriphTypes
  <2>4. /\ chan'[k] = c /\ pc'[k] = "idle" /\ calls'[k] = 1
        /\ ~DmacPeriph!UnderWay(k)' /\ PeriphFree(c)'
    BY <1>0, <2>1, <2>2 DEF PeriphTypes, DmacPeriph!UnderWay, PeriphFree
  <2>5. /\ \A d \in DmacPeriph!Channels \ {c} :
             /\ use'[d] = use[d] /\ info'[d] = info[d]
             /\ hw'[d] = hw[d] /\ irq'[d] = irq[d]
        /\ \A j \in DmaClients \ {k} :
             /\ pc'[j] = pc[j] /\ chan'[j] = chan[j]
             /\ calls'[j] = calls[j]
    BY <1>0, <2>1, <2>2 DEF PeriphTypes
  <2>6. QED
    BY <2>1, <2>3, <2>4, <2>5, PeriphMove
<1>9. ASSUME NEW c \in DmacPeriph!Channels, DmacPeriph!DmacIsrFrees(c) PROVE PeriphInv'
  <2>1. \A k \in DmaClients : DmacPeriph!UnderWay(k) => chan[k] # c
    BY <1>0, <1>9 DEF DmacPeriph!DmacIsrFrees, PeriphOwned
  <2>2. PeriphFree(c) /\ irq[c] = "called"
    BY <1>0, <1>9, <2>1 DEF DmacPeriph!DmacIsrFrees, PeriphUnused
  <2>3. /\ irq' = [irq EXCEPT ![c] = DmacPeriph!None] /\ use' = [use EXCEPT ![c] = "vacant"]
        /\ UNCHANGED <<hw, pc, chan, kind, serial, calls>>
    BY <1>9 DEF DmacPeriph!DmacIsrFrees
  <2>4. /\ info'[c] \in PeriphInfos
        /\ info'[c].lli = FALSE /\ info' = [info EXCEPT ![c] = info'[c]]
    <3>1. info[c] \in PeriphInfos
      BY <1>0 DEF PeriphTypes
    <3>2. QED
      BY <1>0, <1>9, <3>1 DEF DmacPeriph!DmacIsrFrees, PeriphTypes
  <2>5. PeriphTypes'
    <3>1. info' \in [DmacPeriph!Channels -> PeriphInfos]
      BY <1>0, <2>4 DEF PeriphTypes
    <3>2. /\ use' \in [DmacPeriph!Channels -> {"vacant", "allocated"}]
          /\ irq' \in [DmacPeriph!Channels -> {DmacPeriph!None, "success", "error", "called"}]
      BY <1>0, <2>3 DEF PeriphTypes
    <3>3. QED
      BY <1>0, <2>3, <3>1, <3>2 DEF PeriphTypes
  <2>6. \A d \in DmacPeriph!Channels \ {c} :
          use'[d] = use[d] /\ info'[d] = info[d] /\ hw'[d] = hw[d] /\ irq'[d] = irq[d]
    BY <1>0, <2>3, <2>4 DEF PeriphTypes
  <2>7. PeriphFree(c)'
    BY <1>0, <2>2, <2>3, <2>4 DEF PeriphTypes, PeriphFree, PeriphQuiet, DmacPeriph!None
  <2>8. PeriphOwned'
    <3> SUFFICES ASSUME NEW k \in DmaClients, DmacPeriph!UnderWay(k)'
                 PROVE  /\ chan'[k] \in DmacPeriph!Channels /\ use'[chan'[k]] = "allocated"
                        /\ info'[chan'[k]].type = "periph"
                        /\ calls'[k] = 0
                        /\ pc'[k] = "got" => PeriphQuiet(chan[k])'
                        /\ pc'[k] = "running" => info'[chan'[k]].cb = k
                        /\ pc'[k] = "running"
                             => (hw'[chan'[k]] = DmacPeriph!NoTransfer \/ irq'[chan'[k]] =
                                 DmacPeriph!None)
                        /\ irq'[chan'[k]] # "called"
      BY DEF PeriphOwned
    <3>1. DmacPeriph!UnderWay(k) /\ chan[k] # c /\ chan[k] \in DmacPeriph!Channels
      BY <1>0, <2>1, <2>3 DEF PeriphOwned, DmacPeriph!UnderWay
    <3>2. QED
      BY <1>0, <2>3, <2>6, <3>1 DEF PeriphOwned, PeriphQuiet
  <2>9. PeriphApart' /\ PeriphCalled'
    BY <1>0, <2>3 DEF PeriphApart, PeriphCalled, DmacPeriph!UnderWay
  <2>10. PeriphUnused'
    BY <1>0, <2>3, <2>6, <2>7 DEF PeriphUnused, PeriphFree, PeriphQuiet, DmacPeriph!UnderWay
  <2>11. QED
    BY <2>5, <2>8, <2>9, <2>10 DEF PeriphInv
<1>6. ASSUME NEW k \in DmaClients,
             \/ DmacPeriph!DmacPeriphNull(k) \/ DmacPeriph!DmacM2mStart(k)
             \/ DmacPeriph!DmacM2mEnable(k) \/ DmacPeriph!DmacM2mEnableFails(k)
             \/ DmacPeriph!DmacWaitM2mSendComplete(k) \/ DmacPeriph!DmacWaitM2mError(k)
             \/ DmacPeriph!DmacWaitM2mTimeout(k)
             \/ DmacPeriph!DmacM2mTells(k)
      PROVE  FALSE
  <2>1. pc[k] \in {"idle", "got", "running", "lost"} /\ kind[k] \in {DmacPeriph!None, "periph"}
    BY <1>0 DEF PeriphTypes
  <2>2. (pc[k] = "got" /\ kind[k] \in {"null", "m2m"}) \/ pc[k] \in {"enable", "wait", "tell"}
    BY <1>6 DEF DmacPeriph!DmacPeriphNull, DmacPeriph!DmacM2mStart, DmacPeriph!DmacM2mEnable,
       DmacPeriph!DmacM2mEnableFails, DmacPeriph!DmacWaitM2mSendComplete,
       DmacPeriph!DmacWaitM2mError, DmacPeriph!DmacWaitM2mTimeout, DmacPeriph!DmacM2mTells
  <2>3. QED
    BY <2>1, <2>2 DEF DmacPeriph!None
<1>7. CASE UNCHANGED DmacPeriph!vars
  BY <1>0, <1>7
     DEF DmacPeriph!vars, PeriphInv, PeriphTypes, PeriphOwned, PeriphApart, PeriphUnused,
         PeriphCalled, DmacPeriph!UnderWay, PeriphFree, PeriphQuiet
<1>8. QED
  BY <1>1, <1>2, <1>3, <1>4, <1>5, <1>6, <1>7, <1>9 DEF DmacPeriph!Next

LEMMA PeriphFollows == ASSUME PeriphInv PROVE DmacPeriph!ChannelExclusive /\ DmacPeriph!CalledOnce
  /\ DmacPeriph!ChannelsBack
  BY DEF PeriphInv, PeriphOwned, PeriphApart, PeriphUnused, PeriphCalled,
     DmacPeriph!ChannelExclusive, DmacPeriph!CalledOnce, DmacPeriph!ChannelsBack,
     DmacPeriph!UnderWay, PeriphFree, PeriphQuiet

-----------------------------------------------------------------------------
(* Copies of memory, of one client.                                        *)

LEMMA CopyMinFacts ==
  ASSUME NEW N \in Nat, NEW S \in SUBSET (0..(N - 1)), S # {}
  PROVE  DmacM2m!Min(S) \in S
  BY LeastExists DEF DmacM2m!Min

\* What the core can know of a channel.
CopyInfos ==
  [type : {"periph", "m2m"} \cup {DmacM2m!None}, cb : {t1} \cup {DmacM2m!None}, lli : BOOLEAN]

\* The interrupt has nothing to tell of a channel; it may be about to free it.
CopyTold(c) == irq[c] \in {DmacM2m!None, "called"}

\* A channel that nobody uses.
CopyRest(c) ==
  /\ hw[c] = DmacM2m!NoTransfer /\ event[c] = {} /\ CopyTold(c)
  /\ irq[c] = DmacM2m!None => use[c] = "vacant" /\ info[c].lli = FALSE

\* A piece is under way: the hardware copies it, or the interrupt is yet to tell
\* of it, or the client to take the event.
CopyPiece(c) ==
  \/ /\ hw[c] = <<t1, serial[t1]>> /\ CopyTold(c) /\ event[c] = {}
     /\ copied[t1] = pieces[t1] - left[t1]
  \/ /\ hw[c] = DmacM2m!NoTransfer /\ irq[c] = "success" /\ event[c] = {}
     /\ copied[t1] = pieces[t1] - left[t1] + 1
  \/ hw[c] = DmacM2m!NoTransfer /\ irq[c] = "error" /\ event[c] = {}
  \/ /\ hw[c] = DmacM2m!NoTransfer /\ CopyTold(c) /\ event[c] = {"done"}
     /\ copied[t1] = pieces[t1] - left[t1] + 1
  \/ hw[c] = DmacM2m!NoTransfer /\ CopyTold(c) /\ event[c] = {"error"}

\* The channel of the client, by where its transfer is.
CopyHere(c) ==
  /\ pc[t1] = "idle" => CopyRest(c) /\ calls[t1] <= 1
  /\ pc[t1] # "idle" => calls[t1] = 0 /\ serial[t1] >= 1
  /\ pc[t1] = "got" =>
       /\ hw[c] = DmacM2m!NoTransfer /\ CopyTold(c) /\ event[c] = {}
       /\ info[c].type = kind[t1] /\ left[t1] = pieces[t1] /\ copied[t1] = 0 /\ left[t1] >= 1
  /\ pc[t1] = "running" =>
       /\ info[c].type # "m2m" /\ info[c].cb = t1 /\ event[c] = {}
       /\ hw[c] = DmacM2m!NoTransfer \/ CopyTold(c)
  /\ pc[t1] \in {"enable", "wait"} =>
       info[c].type = "m2m" /\ info[c].cb = t1 /\ left[t1] >= 1
  /\ pc[t1] = "enable" =>
       /\ hw[c] = DmacM2m!NoTransfer /\ CopyTold(c) /\ event[c] = {}
       /\ copied[t1] = pieces[t1] - left[t1]
  /\ pc[t1] = "wait" => CopyPiece(c)
  /\ pc[t1] = "tell" =>
       CopyRest(c) /\ info[c].cb = t1 /\ (result[t1] = "success" => copied[t1] = pieces[t1])

\* The other channels are at rest: the interrupt has nothing to tell of one that is
\* given again.
CopyInv ==
  /\ DmacM2m!TypeOK
  /\ \A c \in DmacM2m!Channels \ {chan[t1]} : CopyRest(c)
  /\ pc[t1] # "lost" => chan[t1] \in DmacM2m!Channels /\ CopyHere(chan[t1])
  /\ pc[t1] = "lost" => chan[t1] \notin DmacM2m!Channels /\ calls[t1] = 0

LEMMA CopyInitInv == ASSUME DmacM2m!Init PROVE CopyInv
<1> USE DEF DmacM2m!Init, DmacM2m!NoTransfer, DmacM2m!None
<1>1. [type |-> DmacM2m!None, cb |-> DmacM2m!None, lli |-> FALSE] \in CopyInfos
  BY DEF CopyInfos
<1>2. 0 \in DmacM2m!Channels
  BY DmaAssumption DEF DmacM2m!Channels
<1>3. hw \in [DmacM2m!Channels -> ({t1} \X (1..MaxCopies)) \cup {DmacM2m!NoTransfer}]
  OBVIOUS
<1>4. DmacM2m!TypeOK
  BY DmaAssumption, <1>1, <1>2, <1>3 DEF DmacM2m!TypeOK, CopyInfos
<1>5. QED
  BY <1>2, <1>4 DEF CopyInv, CopyHere, CopyRest, CopyTold

\* A step on the channel of the client.
LEMMA CopyMove ==
  ASSUME CopyInv, DmacM2m!TypeOK', NEW c \in DmacM2m!Channels, chan'[t1] = c, pc'[t1] # "lost",
         chan[t1] = c \/ CopyRest(chan[t1]),
         \A d \in DmacM2m!Channels \ {c} :
           /\ use'[d] = use[d] /\ info'[d] = info[d] /\ event'[d] = event[d]
           /\ hw'[d] = hw[d] /\ irq'[d] = irq[d],
         CopyHere(c)'
  PROVE  CopyInv'
<1>1. \A d \in DmacM2m!Channels \ {c} : CopyRest(d)
  BY DEF CopyInv
<1>2. \A d \in DmacM2m!Channels \ {c} : CopyRest(d)'
  BY <1>1 DEF CopyRest, CopyTold
<1>3. CopyHere(chan[t1])'
  BY DEF CopyHere, CopyPiece, CopyRest, CopyTold
<1>4. QED
  BY <1>2, <1>3 DEF CopyInv

\* A transfer begins, on a channel that it is given.
LEMMA CopyGiven ==
  ASSUME CopyInv, NEW type \in {"periph", "m2m"}, NEW n \in CopyPieces,
         NEW c \in DmacM2m!Channels, c # DmacM2m!Beyond, c = DmacM2m!DmacAllocateChannel,
         DmacM2m!DmaCntlrTransfer(t1, type, n), pc[t1] = "idle", serial[t1] < MaxCopies,
         \A d \in DmacM2m!Channels : CopyRest(d)
  PROVE  CopyInv'
<1> USE DEF DmacM2m!request, DmacM2m!history, DmacM2m!hardware, DmacM2m!channels, CopyTold
<1>0. DmacM2m!TypeOK /\ t1 \in {t1} /\ chan[t1] \in DmacM2m!Channels
  BY DEF CopyInv
<1>4. /\ chan' = [chan EXCEPT ![t1] = c] /\ pc' = [pc EXCEPT ![t1] = "got"]
      /\ use' = [use EXCEPT ![c] = "allocated"] /\ info' = [info EXCEPT ![c].type = type]
      /\ kind' = [kind EXCEPT ![t1] = type]
      /\ pieces' = [pieces EXCEPT ![t1] = n] /\ left' = [left EXCEPT ![t1] = n]
      /\ serial' = [serial EXCEPT ![t1] = @ + 1]
      /\ result' = [result EXCEPT ![t1] = DmacM2m!None]
      /\ copied' = [copied EXCEPT ![t1] = 0] /\ calls' = [calls EXCEPT ![t1] = 0]
      /\ UNCHANGED <<event, hw, irq>>
  BY DEF DmacM2m!DmaCntlrTransfer
<1>5. info'[c] \in CopyInfos /\ info'[c].type = type
  <2>1. info[c] \in CopyInfos /\ info'[c] = [info[c] EXCEPT !.type = type]
    BY <1>0, <1>4 DEF DmacM2m!TypeOK, CopyInfos
  <2>2. QED
    BY <2>1 DEF CopyInfos
<1>6. info' \in [DmacM2m!Channels -> CopyInfos]
  BY <1>0, <1>4, <1>5 DEF DmacM2m!TypeOK, CopyInfos
<1>7. DmacM2m!TypeOK'
  <2>1. serial' \in [{t1} -> 0..MaxCopies]
    BY DmaAssumption, <1>0, <1>4 DEF DmacM2m!TypeOK
  <2>2. left' \in [{t1} -> Nat] /\ pieces' \in [{t1} -> CopyPieces \cup {0}]
        /\ \A j \in {t1} : left'[j] \in 0..pieces'[j]
    BY DmaAssumption, <1>0, <1>4 DEF DmacM2m!TypeOK
  <2>3. /\ pc' \in [{t1} -> {"idle", "got", "enable", "wait", "running", "tell", "lost"}]
        /\ chan' \in [{t1} -> DmacM2m!Channels \cup {DmacM2m!Beyond}]
        /\ kind' \in [{t1} -> {"periph", "m2m"} \cup {DmacM2m!None}]
        /\ result' \in [{t1} -> {DmacM2m!None, "success", "error", "timeout"}]
    BY <1>0, <1>4 DEF DmacM2m!TypeOK
  <2>4. copied' \in [{t1} -> Nat] /\ calls' \in [{t1} -> Nat]
    BY <1>0, <1>4 DEF DmacM2m!TypeOK
  <2>5. use' \in [DmacM2m!Channels -> {"vacant", "allocated"}]
    BY <1>0, <1>4 DEF DmacM2m!TypeOK
  <2>6. /\ event' \in [DmacM2m!Channels -> SUBSET {"done", "error"}]
        /\ hw' \in [DmacM2m!Channels -> ({t1} \X (1..MaxCopies)) \cup {DmacM2m!NoTransfer}]
        /\ irq' \in [DmacM2m!Channels -> {DmacM2m!None, "success", "error", "called"}]
    BY <1>0, <1>4 DEF DmacM2m!TypeOK
  <2>7. QED
    BY <1>6, <2>1, <2>2, <2>3, <2>4, <2>5, <2>6 DEF DmacM2m!TypeOK, CopyInfos
<1>8. CopyHere(c)'
  <2>1. /\ pc'[t1] = "got" /\ calls'[t1] = 0 /\ serial'[t1] >= 1 /\ kind'[t1] = type
        /\ left'[t1] = n /\ pieces'[t1] = n /\ copied'[t1] = 0
    BY <1>0, <1>4 DEF DmacM2m!TypeOK
  <2>2. n >= 1
    BY DmaAssumption
  <2>3. hw'[c] = DmacM2m!NoTransfer /\ CopyTold(c)' /\ event'[c] = {}
    BY <1>0, <1>4 DEF CopyRest
  <2>4. QED
    BY <1>5, <2>1, <2>2, <2>3 DEF CopyHere
<1>9. \A d \in DmacM2m!Channels \ {c} :
        /\ use'[d] = use[d] /\ info'[d] = info[d] /\ event'[d] = event[d]
        /\ hw'[d] = hw[d] /\ irq'[d] = irq[d]
  BY <1>0, <1>4 DEF DmacM2m!TypeOK
<1>10. chan'[t1] = c /\ pc'[t1] = "got"
  BY <1>0, <1>4 DEF DmacM2m!TypeOK
<1>11. QED
  BY <1>0, <1>7, <1>8, <1>9, <1>10, CopyMove

LEMMA CopyStepInv == ASSUME CopyInv, [DmacM2m!Next]_(DmacM2m!vars) PROVE CopyInv'
<1> USE DEF DmacM2m!request, DmacM2m!history, DmacM2m!hardware, DmacM2m!channels, CopyTold
<1>0. /\ DmacM2m!TypeOK /\ t1 \in {t1}
      /\ \A d \in DmacM2m!Channels \ {chan[t1]} : CopyRest(d)
      /\ pc[t1] # "lost" => chan[t1] \in DmacM2m!Channels /\ CopyHere(chan[t1])
      /\ pc[t1] = "lost" => chan[t1] \notin DmacM2m!Channels /\ calls[t1] = 0
  BY DEF CopyInv
<1>1. ASSUME NEW type \in {"periph", "m2m"}, NEW n \in CopyPieces,
             DmacM2m!DmaCntlrTransfer(t1, type, n)
      PROVE  CopyInv'
  <2>0. PICK c : c = DmacM2m!DmacAllocateChannel
    OBVIOUS
  <2>1. pc[t1] = "idle" /\ serial[t1] < MaxCopies /\ \A d \in DmacM2m!Channels : CopyRest(d)
    BY <1>0, <1>1 DEF DmacM2m!DmaCntlrTransfer, CopyHere
  <2>2. CASE c = DmacM2m!Beyond
    <3>1. /\ pc' = [pc EXCEPT ![t1] = "lost"] /\ chan' = [chan EXCEPT ![t1] = c]
          /\ kind' = [kind EXCEPT ![t1] = type]
          /\ pieces' = [pieces EXCEPT ![t1] = n] /\ left' = [left EXCEPT ![t1] = n]
          /\ serial' = [serial EXCEPT ![t1] = @ + 1]
          /\ result' = [result EXCEPT ![t1] = DmacM2m!None]
          /\ copied' = [copied EXCEPT ![t1] = 0] /\ calls' = [calls EXCEPT ![t1] = 0]
          /\ UNCHANGED <<use, info, event, hw, irq>>
      BY <1>1, <2>0, <2>2 DEF DmacM2m!DmaCntlrTransfer
    <3>2. c \notin DmacM2m!Channels
      BY DmaAssumption, <2>2 DEF DmacM2m!Channels, DmacM2m!Beyond
    <3>3. DmacM2m!TypeOK'
      <4>1. serial' \in [{t1} -> 0..MaxCopies]
        BY DmaAssumption, <1>0, <2>1, <3>1 DEF DmacM2m!TypeOK
      <4>2. left' \in [{t1} -> Nat] /\ pieces' \in [{t1} -> CopyPieces \cup {0}]
            /\ \A j \in {t1} : left'[j] \in 0..pieces'[j]
        BY DmaAssumption, <1>0, <3>1 DEF DmacM2m!TypeOK
      <4>3. /\ pc' \in [{t1} -> {"idle", "got", "enable", "wait", "running", "tell", "lost"}]
            /\ chan' \in [{t1} -> DmacM2m!Channels \cup {DmacM2m!Beyond}]
            /\ kind' \in [{t1} -> {"periph", "m2m"} \cup {DmacM2m!None}]
            /\ result' \in [{t1} -> {DmacM2m!None, "success", "error", "timeout"}]
        BY <1>0, <2>2, <3>1 DEF DmacM2m!TypeOK
      <4>4. copied' \in [{t1} -> Nat] /\ calls' \in [{t1} -> Nat]
        BY <1>0, <3>1 DEF DmacM2m!TypeOK
      <4>5. QED
        BY <1>0, <3>1, <4>1, <4>2, <4>3, <4>4 DEF DmacM2m!TypeOK
    <3>4. pc'[t1] = "lost" /\ chan'[t1] = c /\ calls'[t1] = 0
      BY <1>0, <3>1 DEF DmacM2m!TypeOK
    <3>5. \A d \in DmacM2m!Channels : CopyRest(d)'
      BY <2>1, <3>1 DEF CopyRest
    <3>6. QED
      BY <3>2, <3>3, <3>4, <3>5 DEF CopyInv
  <2>3. CASE c # DmacM2m!Beyond
    <3>1. c \in DmacM2m!Channels
      <4>1. DmacM2m!Vacant # {} /\ c = DmacM2m!Min(DmacM2m!Vacant)
        BY <2>0, <2>3 DEF DmacM2m!DmacAllocateChannel
      <4>2. DmacM2m!Vacant \in SUBSET (0..(ChannelNum - 1)) /\ ChannelNum \in Nat
        BY DmaAssumption DEF DmacM2m!Vacant, DmacM2m!Channels
      <4>3. QED
        BY <4>1, <4>2, CopyMinFacts DEF DmacM2m!Channels
    <3>2. QED
      BY <1>0, <1>1, <2>0, <2>1, <2>3, <3>1, CopyGiven
  <2>4. QED
    BY <2>2, <2>3
<1>2. ASSUME DmacM2m!DmacRequestChannelFails(t1) PROVE CopyInv'
  <2>1. PICK c \in DmacM2m!Channels : c = chan[t1] /\ pc[t1] = "got"
    BY <1>0, <1>2 DEF DmacM2m!DmacRequestChannelFails, CopyHere
  <2>2. /\ pc' = [pc EXCEPT ![t1] = "idle"] /\ use' = [use EXCEPT ![c] = "vacant"]
        /\ UNCHANGED <<event, hw, irq, chan, kind, pieces, serial, left, result, copied, calls>>
    BY <1>0, <1>2, <2>1
       DEF DmacM2m!DmacRequestChannelFails, DmacM2m!M2mEnds, DmacM2m!DmacFreeChannel,
           DmacM2m!DmacEventCallback, DmacM2m!Callback, DmacM2m!TypeOK
  <2>3. info'[c] \in CopyInfos /\ info'[c].lli = FALSE /\ info' = [info EXCEPT ![c] = info'[c]]
    <3>1. info[c] \in CopyInfos
      BY <1>0 DEF DmacM2m!TypeOK, CopyInfos
    <3>2. info'[c] = [info[c] EXCEPT !.lli = FALSE]
      BY <1>0, <1>2, <2>1
         DEF DmacM2m!DmacRequestChannelFails, DmacM2m!M2mEnds, DmacM2m!DmacFreeChannel,
             DmacM2m!DmacEventCallback, DmacM2m!Callback, DmacM2m!TypeOK
    <3>3. QED
      BY <1>0, <1>2, <2>1, <3>1, <3>2
         DEF DmacM2m!DmacRequestChannelFails, DmacM2m!M2mEnds, DmacM2m!DmacFreeChannel,
             DmacM2m!DmacEventCallback, DmacM2m!Callback, DmacM2m!TypeOK, CopyInfos
  <2>4. DmacM2m!TypeOK'
    BY <1>0, <2>1, <2>2, <2>3 DEF DmacM2m!TypeOK, CopyInfos
  <2>5. CopyHere(c)'
    BY <1>0, <2>1, <2>2, <2>3 DEF CopyHere, CopyRest, DmacM2m!TypeOK
  <2>6. \A d \in DmacM2m!Channels \ {c} :
          /\ use'[d] = use[d] /\ info'[d] = info[d] /\ event'[d] = event[d]
          /\ hw'[d] = hw[d] /\ irq'[d] = irq[d]
    BY <1>0, <2>2, <2>3 DEF DmacM2m!TypeOK
  <2>7. QED
    BY <1>0, <2>1, <2>2, <2>4, <2>5, <2>6, CopyMove DEF DmacM2m!TypeOK
<1>3. ASSUME DmacM2m!DmacPeriphFails(t1) PROVE CopyInv'
  <2>1. PICK c \in DmacM2m!Channels : c = chan[t1] /\ pc[t1] = "got"
    BY <1>0, <1>3 DEF DmacM2m!DmacPeriphFails, CopyHere
  <2>2. /\ pc' = [pc EXCEPT ![t1] = "idle"] /\ use' = [use EXCEPT ![c] = "vacant"]
        /\ UNCHANGED <<event, hw, irq, chan, kind, pieces, serial, left, result, copied, calls>>
    BY <1>0, <1>3, <2>1
       DEF DmacM2m!DmacPeriphFails, DmacM2m!M2mEnds, DmacM2m!DmacFreeChannel,
           DmacM2m!DmacEventCallback, DmacM2m!Callback, DmacM2m!TypeOK
  <2>3. info'[c] \in CopyInfos /\ info'[c].lli = FALSE /\ info' = [info EXCEPT ![c] = info'[c]]
    <3>1. info[c] \in CopyInfos
      BY <1>0 DEF DmacM2m!TypeOK, CopyInfos
    <3>2. info'[c] = [info[c] EXCEPT !.cb = t1, !.lli = FALSE]
      BY <1>0, <1>3, <2>1
         DEF DmacM2m!DmacPeriphFails, DmacM2m!M2mEnds, DmacM2m!DmacFreeChannel,
             DmacM2m!DmacEventCallback, DmacM2m!Callback, DmacM2m!TypeOK
    <3>3. QED
      BY <1>0, <1>3, <2>1, <3>1, <3>2
         DEF DmacM2m!DmacPeriphFails, DmacM2m!M2mEnds, DmacM2m!DmacFreeChannel,
             DmacM2m!DmacEventCallback, DmacM2m!Callback, DmacM2m!TypeOK, CopyInfos
  <2>4. DmacM2m!TypeOK'
    BY <1>0, <2>1, <2>2, <2>3 DEF DmacM2m!TypeOK, CopyInfos
  <2>5. CopyHere(c)'
    BY <1>0, <2>1, <2>2, <2>3 DEF CopyHere, CopyRest, DmacM2m!TypeOK
  <2>6. \A d \in DmacM2m!Channels \ {c} :
          /\ use'[d] = use[d] /\ info'[d] = info[d] /\ event'[d] = event[d]
          /\ hw'[d] = hw[d] /\ irq'[d] = irq[d]
    BY <1>0, <2>2, <2>3 DEF DmacM2m!TypeOK
  <2>7. QED
    BY <1>0, <2>1, <2>2, <2>4, <2>5, <2>6, CopyMove DEF DmacM2m!TypeOK
<1>4. ASSUME DmacM2m!DmacPeriphTransfer(t1) PROVE CopyInv'
  <2>1. PICK c \in DmacM2m!Channels : c = chan[t1] /\ pc[t1] = "got" /\ kind[t1] = "periph"
        /\ serial[t1] >= 1
    BY <1>0, <1>4 DEF DmacM2m!DmacPeriphTransfer, CopyHere
  <2>2. /\ pc' = [pc EXCEPT ![t1] = "running"] /\ hw' = [hw EXCEPT ![c] = <<t1, serial[t1]>>]
        /\ UNCHANGED <<use, event, irq, chan, kind, pieces, serial, left, result, copied, calls>>
    BY <1>0, <1>4, <2>1
       DEF DmacM2m!DmacPeriphTransfer, DmacM2m!M2mEnds, DmacM2m!DmacFreeChannel,
           DmacM2m!DmacEventCallback, DmacM2m!Callback, DmacM2m!TypeOK
  <2>3. info'[c] \in CopyInfos /\ info'[c].cb = t1 /\ info'[c].type = info[c].type
        /\ info' = [info EXCEPT ![c] = info'[c]]
    <3>1. info[c] \in CopyInfos
      BY <1>0 DEF DmacM2m!TypeOK, CopyInfos
    <3>2. info'[c] = [info[c] EXCEPT !.cb = t1, !.lli = TRUE]
      BY <1>0, <1>4, <2>1
         DEF DmacM2m!DmacPeriphTransfer, DmacM2m!M2mEnds, DmacM2m!DmacFreeChannel,
             DmacM2m!DmacEventCallback, DmacM2m!Callback, DmacM2m!TypeOK
    <3>3. QED
      BY <1>0, <1>4, <2>1, <3>1, <3>2
         DEF DmacM2m!DmacPeriphTransfer, DmacM2m!M2mEnds, DmacM2m!DmacFreeChannel,
             DmacM2m!DmacEventCallback, DmacM2m!Callback, DmacM2m!TypeOK, CopyInfos
  <2>4. DmacM2m!TypeOK'
    BY <1>0, <2>1, <2>2, <2>3 DEF DmacM2m!TypeOK, CopyInfos
  <2>5. CopyHere(c)'
    BY <1>0, <2>1, <2>2, <2>3 DEF CopyHere, CopyRest, DmacM2m!TypeOK
  <2>6. \A d \in DmacM2m!Channels \ {c} :
          /\ use'[d] = use[d] /\ info'[d] = info[d] /\ event'[d] = event[d]
          /\ hw'[d] = hw[d] /\ irq'[d] = irq[d]
    BY <1>0, <2>2, <2>3 DEF DmacM2m!TypeOK
  <2>7. QED
    BY <1>0, <2>1, <2>2, <2>4, <2>5, <2>6, CopyMove DEF DmacM2m!TypeOK
<1>5. ASSUME DmacM2m!DmacM2mStart(t1) PROVE CopyInv'
  <2>1. PICK c \in DmacM2m!Channels : c = chan[t1] /\ pc[t1] = "got" /\ kind[t1] = "m2m"
    BY <1>0, <1>5 DEF DmacM2m!DmacM2mStart, CopyHere
  <2>2. /\ pc' = [pc EXCEPT ![t1] = "enable"]
        /\ UNCHANGED
            <<use, event, hw, irq, chan, kind, pieces, serial, left, result, copied, calls>>
    BY <1>0, <1>5, <2>1
       DEF DmacM2m!DmacM2mStart, DmacM2m!M2mEnds, DmacM2m!DmacFreeChannel,
           DmacM2m!DmacEventCallback, DmacM2m!Callback, DmacM2m!TypeOK
  <2>3. info'[c] \in CopyInfos /\ info'[c].cb = t1 /\ info'[c].type = info[c].type
        /\ info'[c].lli = info[c].lli /\ info' = [info EXCEPT ![c] = info'[c]]
    <3>1. info[c] \in CopyInfos
      BY <1>0 DEF DmacM2m!TypeOK, CopyInfos
    <3>2. info'[c] = [info[c] EXCEPT !.cb = t1]
      BY <1>0, <1>5, <2>1
         DEF DmacM2m!DmacM2mStart, DmacM2m!M2mEnds, DmacM2m!DmacFreeChannel,
             DmacM2m!DmacEventCallback, DmacM2m!Callback, DmacM2m!TypeOK
    <3>3. QED
      BY <1>0, <1>5, <2>1, <3>1, <3>2
         DEF DmacM2m!DmacM2mStart, DmacM2m!M2mEnds, DmacM2m!DmacFreeChannel,
             DmacM2m!DmacEventCallback, DmacM2m!Callback, DmacM2m!TypeOK, CopyInfos
  <2>4. DmacM2m!TypeOK'
    BY <1>0, <2>1, <2>2, <2>3 DEF DmacM2m!TypeOK, CopyInfos
  <2>5. CopyHere(c)'
    BY <1>0, <2>1, <2>2, <2>3 DEF CopyHere, CopyRest, DmacM2m!TypeOK
  <2>6. \A d \in DmacM2m!Channels \ {c} :
          /\ use'[d] = use[d] /\ info'[d] = info[d] /\ event'[d] = event[d]
          /\ hw'[d] = hw[d] /\ irq'[d] = irq[d]
    BY <1>0, <2>2, <2>3 DEF DmacM2m!TypeOK
  <2>7. QED
    BY <1>0, <2>1, <2>2, <2>4, <2>5, <2>6, CopyMove DEF DmacM2m!TypeOK
<1>6. ASSUME DmacM2m!DmacM2mEnable(t1) PROVE CopyInv'
  <2>1. PICK c \in DmacM2m!Channels : c = chan[t1] /\ pc[t1] = "enable" /\ serial[t1] >= 1
    BY <1>0, <1>6 DEF DmacM2m!DmacM2mEnable, CopyHere
  <2>2. /\ pc' = [pc EXCEPT ![t1] = "wait"] /\ hw' = [hw EXCEPT ![c] = <<t1, serial[t1]>>]
        /\ UNCHANGED
            <<use, info, event, irq, chan, kind, pieces, serial, left, result, copied, calls>>
    BY <1>0, <1>6, <2>1
       DEF DmacM2m!DmacM2mEnable, DmacM2m!M2mEnds, DmacM2m!DmacFreeChannel,
           DmacM2m!DmacEventCallback, DmacM2m!Callback, DmacM2m!TypeOK
  <2>4. DmacM2m!TypeOK'
    BY <1>0, <2>1, <2>2 DEF DmacM2m!TypeOK, CopyInfos
  <2>5. CopyHere(c)'
    BY <1>0, <2>1, <2>2 DEF CopyHere, CopyRest, CopyPiece, DmacM2m!TypeOK
  <2>6. \A d \in DmacM2m!Channels \ {c} :
          /\ use'[d] = use[d] /\ info'[d] = info[d] /\ event'[d] = event[d]
          /\ hw'[d] = hw[d] /\ irq'[d] = irq[d]
    BY <1>0, <2>2 DEF DmacM2m!TypeOK
  <2>7. QED
    BY <1>0, <2>1, <2>2, <2>4, <2>5, <2>6, CopyMove DEF DmacM2m!TypeOK
<1>7. ASSUME DmacM2m!DmacM2mEnableFails(t1) PROVE CopyInv'
  <2>1. PICK c \in DmacM2m!Channels : c = chan[t1] /\ pc[t1] = "enable"
    BY <1>0, <1>7 DEF DmacM2m!DmacM2mEnableFails, CopyHere
  <2>2. /\ pc' = [pc EXCEPT ![t1] = "tell"] /\ use' = [use EXCEPT ![c] = "vacant"]
        /\ result' = [result EXCEPT ![t1] = "error"]
        /\ UNCHANGED <<event, hw, irq, chan, kind, pieces, serial, left, copied, calls>>
    BY <1>0, <1>7, <2>1
       DEF DmacM2m!DmacM2mEnableFails, DmacM2m!M2mEnds, DmacM2m!DmacFreeChannel,
           DmacM2m!DmacEventCallback, DmacM2m!Callback, DmacM2m!TypeOK
  <2>3. info'[c] \in CopyInfos /\ info'[c].lli = FALSE /\ info'[c].cb = info[c].cb
        /\ info'[c].type = info[c].type /\ info' = [info EXCEPT ![c] = info'[c]]
    <3>1. info[c] \in CopyInfos
      BY <1>0 DEF DmacM2m!TypeOK, CopyInfos
    <3>2. info'[c] = [info[c] EXCEPT !.lli = FALSE]
      BY <1>0, <1>7, <2>1
         DEF DmacM2m!DmacM2mEnableFails, DmacM2m!M2mEnds, DmacM2m!DmacFreeChannel,
             DmacM2m!DmacEventCallback, DmacM2m!Callback, DmacM2m!TypeOK
    <3>3. QED
      BY <1>0, <1>7, <2>1, <3>1, <3>2
         DEF DmacM2m!DmacM2mEnableFails, DmacM2m!M2mEnds, DmacM2m!DmacFreeChannel,
             DmacM2m!DmacEventCallback, DmacM2m!Callback, DmacM2m!TypeOK, CopyInfos
  <2>4. DmacM2m!TypeOK'
    BY <1>0, <2>1, <2>2, <2>3 DEF DmacM2m!TypeOK, CopyInfos
  <2>5. CopyHere(c)'
    BY <1>0, <2>1, <2>2, <2>3 DEF CopyHere, CopyRest, DmacM2m!TypeOK
  <2>6. \A d \in DmacM2m!Channels \ {c} :
          /\ use'[d] = use[d] /\ info'[d] = info[d] /\ event'[d] = event[d]
          /\ hw'[d] = hw[d] /\ irq'[d] = irq[d]
    BY <1>0, <2>2, <2>3 DEF DmacM2m!TypeOK
  <2>7. QED
    BY <1>0, <2>1, <2>2, <2>4, <2>5, <2>6, CopyMove DEF DmacM2m!TypeOK
<1>8. ASSUME DmacM2m!DmacWaitM2mSendComplete(t1), left[t1] = 1 PROVE CopyInv'
  <2>1. PICK c \in DmacM2m!Channels : c = chan[t1] /\ pc[t1] = "wait" /\ CopyTold(c)
                                    /\ copied[t1] = pieces[t1] - left[t1] + 1 /\ left[t1] >= 1
    BY <1>0, <1>8 DEF DmacM2m!DmacWaitM2mSendComplete, CopyHere, CopyPiece
  <2>2. /\ pc' = [pc EXCEPT ![t1] = "tell"] /\ use' = [use EXCEPT ![c] = "vacant"]
        /\ result' = [result EXCEPT ![t1] = "success"] /\ left' = [left EXCEPT ![t1] = 0]
        /\ event' = [event EXCEPT ![c] = {}] /\ hw' = [hw EXCEPT ![c] = DmacM2m!NoTransfer]
        /\ UNCHANGED <<irq, chan, kind, pieces, serial, copied, calls>>
    BY <1>0, <1>8, <2>1
       DEF DmacM2m!DmacWaitM2mSendComplete, DmacM2m!M2mEnds, DmacM2m!DmacFreeChannel,
           DmacM2m!DmacEventCallback, DmacM2m!Callback, DmacM2m!TypeOK
  <2>3. info'[c] \in CopyInfos /\ info'[c].lli = FALSE /\ info'[c].cb = info[c].cb
        /\ info'[c].type = info[c].type /\ info' = [info EXCEPT ![c] = info'[c]]
    <3>1. info[c] \in CopyInfos
      BY <1>0 DEF DmacM2m!TypeOK, CopyInfos
    <3>2. info'[c] = [info[c] EXCEPT !.lli = FALSE]
      BY <1>0, <1>8, <2>1
         DEF DmacM2m!DmacWaitM2mSendComplete, DmacM2m!M2mEnds, DmacM2m!DmacFreeChannel,
             DmacM2m!DmacEventCallback, DmacM2m!Callback, DmacM2m!TypeOK
    <3>3. QED
      BY <1>0, <1>8, <2>1, <3>1, <3>2
         DEF DmacM2m!DmacWaitM2mSendComplete, DmacM2m!M2mEnds, DmacM2m!DmacFreeChannel,
             DmacM2m!DmacEventCallback, DmacM2m!Callback, DmacM2m!TypeOK, CopyInfos
  <2>4. DmacM2m!TypeOK'
    <3>1. info' \in [DmacM2m!Channels -> CopyInfos]
      BY <1>0, <2>3 DEF DmacM2m!TypeOK, CopyInfos
    <3>2. /\ left' \in [{t1} -> Nat] /\ \A j \in {t1} : left'[j] \in 0..pieces'[j]
          /\ pieces' \in [{t1} -> CopyPieces \cup {0}]
      <4>0. pieces[t1] \in CopyPieces \cup {0} /\ left'[t1] = 0 /\ pieces' = pieces
        BY <1>0, <2>2 DEF DmacM2m!TypeOK
      <4>1. pieces[t1] \in Nat /\ left'[t1] = 0 /\ pieces' = pieces
        <5>1. \A x \in CopyPieces : x \in Nat
          BY DmaAssumption
        <5>2. QED
          BY <4>0, <5>1
      <4>2. left' \in [{t1} -> Nat]
        <5>1. left \in [{t1} -> Nat]
          BY <1>0 DEF DmacM2m!TypeOK
        <5>2. QED
          BY <2>2, <5>1
      <4>3. pieces' \in [{t1} -> CopyPieces \cup {0}]
        BY <1>0, <4>0 DEF DmacM2m!TypeOK
      <4>4. QED
        BY <4>1, <4>2, <4>3
    <3>3. /\ use' \in [DmacM2m!Channels -> {"vacant", "allocated"}]
          /\ event' \in [DmacM2m!Channels -> SUBSET {"done", "error"}]
          /\ hw' \in [DmacM2m!Channels -> ({t1} \X (1..MaxCopies)) \cup {DmacM2m!NoTransfer}]
      BY <1>0, <2>2 DEF DmacM2m!TypeOK
    <3>4. /\ pc' \in [{t1} -> {"idle", "got", "enable", "wait", "running", "tell", "lost"}]
          /\ result' \in [{t1} -> {DmacM2m!None, "success", "error", "timeout"}]
      BY <1>0, <2>2 DEF DmacM2m!TypeOK
    <3>5. /\ irq' \in [DmacM2m!Channels -> {DmacM2m!None, "success", "error", "called"}]
          /\ chan' \in [{t1} -> DmacM2m!Channels \cup {DmacM2m!Beyond}]
          /\ kind' \in [{t1} -> {"periph", "m2m"} \cup {DmacM2m!None}]
          /\ serial' \in [{t1} -> 0..MaxCopies]
          /\ copied' \in [{t1} -> Nat] /\ calls' \in [{t1} -> Nat]
      BY <1>0, <2>2 DEF DmacM2m!TypeOK
    <3>6. QED
      BY <3>1, <3>2, <3>3, <3>4, <3>5 DEF DmacM2m!TypeOK, CopyInfos
  <2>5. CopyHere(c)'
    <3>1. left[t1] = 1 /\ pieces[t1] \in Nat /\ copied[t1] = pieces[t1]
      BY DmaAssumption, <1>0, <1>8, <2>1 DEF DmacM2m!TypeOK
    <3>2. CopyRest(c)' /\ info'[c].cb = t1
      BY <1>0, <2>1, <2>2, <2>3 DEF CopyHere, CopyRest, DmacM2m!TypeOK
    <3>3. pc'[t1] = "tell" /\ copied'[t1] = pieces'[t1] /\ calls'[t1] = 0 /\ serial'[t1] >= 1
      BY <1>0, <2>1, <2>2, <3>1 DEF CopyHere, DmacM2m!TypeOK
    <3>4. QED
      BY <3>2, <3>3 DEF CopyHere
  <2>6. \A d \in DmacM2m!Channels \ {c} :
          /\ use'[d] = use[d] /\ info'[d] = info[d] /\ event'[d] = event[d]
          /\ hw'[d] = hw[d] /\ irq'[d] = irq[d]
    BY <1>0, <2>2, <2>3 DEF DmacM2m!TypeOK
  <2>7. QED
    BY <1>0, <2>1, <2>2, <2>4, <2>5, <2>6, CopyMove DEF DmacM2m!TypeOK
<1>9. ASSUME DmacM2m!DmacWaitM2mSendComplete(t1), left[t1] # 1 PROVE CopyInv'
  <2>1. PICK c \in DmacM2m!Channels : c = chan[t1] /\ pc[t1] = "wait" /\ CopyTold(c)
                                    /\ copied[t1] = pieces[t1] - left[t1] + 1 /\ left[t1] >= 1
    BY <1>0, <1>9 DEF DmacM2m!DmacWaitM2mSendComplete, CopyHere, CopyPiece
  <2>2. /\ pc' = [pc EXCEPT ![t1] = "enable"] /\ left' = [left EXCEPT ![t1] = @ - 1]
        /\ event' = [event EXCEPT ![c] = {}] /\ hw' = [hw EXCEPT ![c] = DmacM2m!NoTransfer]
        /\ UNCHANGED <<use, info, result, irq, chan, kind, pieces, serial, copied, calls>>
    BY <1>0, <1>9, <2>1
       DEF DmacM2m!DmacWaitM2mSendComplete, DmacM2m!M2mEnds, DmacM2m!DmacFreeChannel,
           DmacM2m!DmacEventCallback, DmacM2m!Callback, DmacM2m!TypeOK
  <2>3. /\ left'[t1] = left[t1] - 1 /\ left[t1] - 1 \in 1..pieces[t1]
        /\ copied'[t1] = pieces'[t1] - left'[t1]
    BY DmaAssumption, <1>0, <1>9, <2>1, <2>2 DEF DmacM2m!TypeOK
  <2>4. DmacM2m!TypeOK'
    <3>1. left' \in [{t1} -> Nat] /\ \A j \in {t1} : left'[j] \in 0..pieces'[j]
      BY <1>0, <2>2, <2>3 DEF DmacM2m!TypeOK
    <3>2. event' \in [DmacM2m!Channels -> SUBSET {"done", "error"}]
      BY <1>0, <2>2 DEF DmacM2m!TypeOK
    <3>3. QED
      BY <1>0, <2>1, <2>2, <3>1, <3>2 DEF DmacM2m!TypeOK
  <2>5. CopyHere(c)'
    <3>1. pc'[t1] = "enable" /\ calls'[t1] = 0 /\ serial'[t1] >= 1
      BY <1>0, <2>1, <2>2 DEF CopyHere, DmacM2m!TypeOK
    <3>2. info'[c].type = "m2m" /\ info'[c].cb = t1 /\ left'[t1] >= 1
      BY <1>0, <2>1, <2>2, <2>3 DEF CopyHere, DmacM2m!TypeOK
    <3>3. hw'[c] = DmacM2m!NoTransfer /\ CopyTold(c)' /\ event'[c] = {}
      BY <1>0, <2>1, <2>2 DEF DmacM2m!TypeOK
    <3>4. QED
      BY <2>3, <3>1, <3>2, <3>3 DEF CopyHere
  <2>6. \A d \in DmacM2m!Channels \ {c} :
          /\ use'[d] = use[d] /\ info'[d] = info[d] /\ event'[d] = event[d]
          /\ hw'[d] = hw[d] /\ irq'[d] = irq[d]
    BY <1>0, <2>2 DEF DmacM2m!TypeOK
  <2>7. QED
    BY <1>0, <2>1, <2>2, <2>4, <2>5, <2>6, CopyMove DEF DmacM2m!TypeOK
<1>10. ASSUME DmacM2m!DmacWaitM2mError(t1) PROVE CopyInv'
  <2>1. PICK c \in DmacM2m!Channels : c = chan[t1] /\ pc[t1] = "wait" /\ CopyTold(c)
        /\ hw[c] = DmacM2m!NoTransfer
    BY <1>0, <1>10 DEF DmacM2m!DmacWaitM2mError, CopyHere, CopyPiece
  <2>2. /\ pc' = [pc EXCEPT ![t1] = "tell"] /\ use' = [use EXCEPT ![c] = "vacant"]
        /\ result' = [result EXCEPT ![t1] = "error"] /\ event' = [event EXCEPT ![c] = {}]
        /\ UNCHANGED <<hw, irq, chan, kind, pieces, serial, left, copied, calls>>
    BY <1>0, <1>10, <2>1
       DEF DmacM2m!DmacWaitM2mError, DmacM2m!M2mEnds, DmacM2m!DmacFreeChannel,
           DmacM2m!DmacEventCallback, DmacM2m!Callback, DmacM2m!TypeOK
  <2>3. info'[c] \in CopyInfos /\ info'[c].lli = FALSE /\ info'[c].cb = info[c].cb
        /\ info'[c].type = info[c].type /\ info' = [info EXCEPT ![c] = info'[c]]
    <3>1. info[c] \in CopyInfos
      BY <1>0 DEF DmacM2m!TypeOK, CopyInfos
    <3>2. info'[c] = [info[c] EXCEPT !.lli = FALSE]
      BY <1>0, <1>10, <2>1
         DEF DmacM2m!DmacWaitM2mError, DmacM2m!M2mEnds, DmacM2m!DmacFreeChannel,
             DmacM2m!DmacEventCallback, DmacM2m!Callback, DmacM2m!TypeOK
    <3>3. QED
      BY <1>0, <1>10, <2>1, <3>1, <3>2
         DEF DmacM2m!DmacWaitM2mError, DmacM2m!M2mEnds, DmacM2m!DmacFreeChannel,
             DmacM2m!DmacEventCallback, DmacM2m!Callback, DmacM2m!TypeOK, CopyInfos
  <2>4. DmacM2m!TypeOK'
    BY <1>0, <2>1, <2>2, <2>3 DEF DmacM2m!TypeOK, CopyInfos
  <2>5. CopyHere(c)'
    BY <1>0, <2>1, <2>2, <2>3 DEF CopyHere, CopyRest, DmacM2m!TypeOK
  <2>6. \A d \in DmacM2m!Channels \ {c} :
          /\ use'[d] = use[d] /\ info'[d] = info[d] /\ event'[d] = event[d]
          /\ hw'[d] = hw[d] /\ irq'[d] = irq[d]
    BY <1>0, <2>2, <2>3 DEF DmacM2m!TypeOK
  <2>7. QED
    BY <1>0, <2>1, <2>2, <2>4, <2>5, <2>6, CopyMove DEF DmacM2m!TypeOK
<1>11. ASSUME DmacM2m!DmacM2mTells(t1) PROVE CopyInv'
  <2>1. PICK c \in DmacM2m!Channels : c = chan[t1] /\ pc[t1] = "tell" /\ info[c].cb = t1
        /\ calls[t1] = 0
    BY <1>0, <1>11 DEF DmacM2m!DmacM2mTells, CopyHere
  <2>2. /\ pc' = [pc EXCEPT ![t1] = "idle"] /\ calls' = [calls EXCEPT ![t1] = 1]
        /\ UNCHANGED
            <<use, info, event, hw, irq, chan, kind, pieces, serial, left, result, copied>>
    BY <1>0, <1>11, <2>1
       DEF DmacM2m!DmacM2mTells, DmacM2m!M2mEnds, DmacM2m!DmacFreeChannel,
           DmacM2m!DmacEventCallback, DmacM2m!Callback, DmacM2m!TypeOK
  <2>4. DmacM2m!TypeOK'
    BY <1>0, <2>1, <2>2 DEF DmacM2m!TypeOK, CopyInfos
  <2>5. CopyHere(c)'
    BY <1>0, <2>1, <2>2 DEF CopyHere, CopyRest, DmacM2m!TypeOK
  <2>6. \A d \in DmacM2m!Channels \ {c} :
          /\ use'[d] = use[d] /\ info'[d] = info[d] /\ event'[d] = event[d]
          /\ hw'[d] = hw[d] /\ irq'[d] = irq[d]
    BY <1>0, <2>2 DEF DmacM2m!TypeOK
  <2>7. QED
    BY <1>0, <2>1, <2>2, <2>4, <2>5, <2>6, CopyMove DEF DmacM2m!TypeOK
<1>12. ASSUME NEW c \in DmacM2m!Channels, NEW ended \in {"success", "error"},
              DmacM2m!HwEnds(c, ended)
       PROVE  CopyInv'
  <2>1. /\ c = chan[t1] /\ hw[c] # DmacM2m!NoTransfer /\ event[c] = {}
        /\ hw[c][1] = t1 /\ pc[t1] \in {"wait", "running"}
    <3>1. c = chan[t1] /\ hw[c] # DmacM2m!NoTransfer
      BY <1>0, <1>12 DEF DmacM2m!HwEnds, CopyRest
    <3>2. pc[t1] \in {"wait", "running"}
      BY <1>0, <3>1 DEF CopyHere, CopyRest, DmacM2m!TypeOK
    <3>3. event[c] = {} /\ hw[c][1] = t1
      BY <1>0, <3>1, <3>2 DEF CopyHere, CopyPiece, DmacM2m!TypeOK
    <3>4. QED
      BY <3>1, <3>2, <3>3
  <2>2. /\ irq' = [irq EXCEPT ![c] = ended] /\ hw' = [hw EXCEPT ![c] = DmacM2m!NoTransfer]
        /\ UNCHANGED <<use, info, event, chan, kind, pieces, serial, pc, left, result, calls>>
    BY <1>12 DEF DmacM2m!HwEnds
  <2>3. /\ copied' = copied \/ copied' = [copied EXCEPT ![t1] = @ + 1]
        /\ ended = "success" /\ hw[c] = <<t1, serial[t1]>>
             => copied' = [copied EXCEPT ![t1] = @ + 1]
    <3>1. /\ copied' = copied \/ copied' = [copied EXCEPT ![hw[c][1]] = @ + 1]
          /\ ended = "success" /\ serial[hw[c][1]] = hw[c][2]
               => copied' = [copied EXCEPT ![hw[c][1]] = @ + 1]
      BY <1>12 DEF DmacM2m!HwEnds
    <3>2. QED
      BY <2>1, <3>1
  <2>4. DmacM2m!TypeOK'
    BY <1>0, <2>1, <2>2, <2>3 DEF DmacM2m!TypeOK
  <2>5. CopyHere(c)'
    <3>1. CASE pc[t1] = "running"
      BY <1>0, <2>1, <2>2, <3>1 DEF CopyHere, DmacM2m!TypeOK
    <3>2. CASE pc[t1] = "wait"
      <4>1. hw[c] = <<t1, serial[t1]>> /\ copied[t1] = pieces[t1] - left[t1]
        BY <1>0, <2>1, <3>2 DEF CopyHere, CopyPiece
      <4>2. ended = "success" => copied'[t1] = pieces'[t1] - left'[t1] + 1
        BY <1>0, <2>2, <2>3, <4>1 DEF DmacM2m!TypeOK
      <4>3. irq'[c] = ended /\ hw'[c] = DmacM2m!NoTransfer /\ event'[c] = {}
        BY <1>0, <2>1, <2>2 DEF DmacM2m!TypeOK
      <4>4. CopyPiece(c)'
        BY <4>2, <4>3 DEF CopyPiece
      <4>5. QED
        BY <1>0, <2>1, <2>2, <3>2, <4>4 DEF CopyHere
    <3>3. QED
      BY <2>1, <3>1, <3>2
  <2>6. \A d \in DmacM2m!Channels \ {c} :
          /\ use'[d] = use[d] /\ info'[d] = info[d] /\ event'[d] = event[d]
          /\ hw'[d] = hw[d] /\ irq'[d] = irq[d]
    BY <1>0, <2>2 DEF DmacM2m!TypeOK
  <2>7. QED
    BY <1>0, <2>1, <2>2, <2>4, <2>5, <2>6, CopyMove DEF DmacM2m!TypeOK
<1>13. ASSUME NEW c \in DmacM2m!Channels, DmacM2m!DmacIsr(c) PROVE CopyInv'
  <2>1. c = chan[t1] /\ irq[c] \in {"success", "error"} /\ pc[t1] \in {"wait", "running"}
    <3>1. irq[c] \in {"success", "error"}
      BY <1>13 DEF DmacM2m!DmacIsr
    <3>2. c = chan[t1] /\ pc[t1] # "lost"
      BY <1>0, <3>1 DEF CopyRest, DmacM2m!None
    <3>3. QED
      BY <1>0, <3>1, <3>2 DEF CopyHere, CopyRest, DmacM2m!TypeOK, DmacM2m!None
  <2>2. /\ irq' = [irq EXCEPT ![c] = "called"]
        /\ UNCHANGED <<use, info, hw, chan, kind, pieces, serial, left, result, copied>>
    BY <1>13 DEF DmacM2m!DmacIsr
  <2>3. CopyTold(c)'
    BY <1>0, <2>2 DEF DmacM2m!TypeOK
  <2>8. CASE pc[t1] = "wait"
    <3>1. info[c].type = "m2m" /\ info[c].cb = t1 /\ CopyPiece(c)
      BY <1>0, <2>1, <2>8 DEF CopyHere
    <3>2. /\ event' = [event EXCEPT ![c] = @ \cup {IF irq[c] = "error" THEN "error" ELSE "done"}]
          /\ UNCHANGED <<pc, calls>>
      BY <1>13, <3>1 DEF DmacM2m!DmacIsr, DmacM2m!DmacEventCallback
    <3>3. hw[c] = DmacM2m!NoTransfer /\ event[c] = {}
      BY <2>1, <3>1 DEF CopyPiece, DmacM2m!None
    <3>4. \/ irq[c] = "error" /\ event'[c] = {"error"}
          \/ irq[c] = "success" /\ event'[c] = {"done"} /\ copied[t1] = pieces[t1] - left[t1] + 1
      BY <1>0, <2>1, <3>1, <3>2, <3>3 DEF CopyPiece, DmacM2m!TypeOK, DmacM2m!None
    <3>5. DmacM2m!TypeOK'
      BY <1>0, <2>1, <2>2, <3>2, <3>4 DEF DmacM2m!TypeOK
    <3>6. CopyPiece(c)'
      <4>1. hw'[c] = DmacM2m!NoTransfer
        BY <1>0, <2>2, <3>3 DEF DmacM2m!TypeOK
      <4>2. QED
        BY <2>2, <2>3, <3>4, <4>1 DEF CopyPiece
    <3>7. CopyHere(c)'
      BY <1>0, <2>1, <2>2, <2>8, <3>2, <3>6 DEF CopyHere
    <3>8. \A d \in DmacM2m!Channels \ {c} :
            /\ use'[d] = use[d] /\ info'[d] = info[d] /\ event'[d] = event[d]
            /\ hw'[d] = hw[d] /\ irq'[d] = irq[d]
      BY <1>0, <2>2, <3>2 DEF DmacM2m!TypeOK
    <3>9. QED
      BY <1>0, <2>1, <2>2, <2>8, <3>2, <3>5, <3>7, <3>8, CopyMove
  <2>9. CASE pc[t1] = "running"
    <3>1. info[c].type # "m2m" /\ info[c].cb = t1 /\ event[c] = {} /\ hw[c] = DmacM2m!NoTransfer
          /\ calls[t1] = 0
      BY <1>0, <2>1, <2>9 DEF CopyHere, DmacM2m!None
    <3>2. /\ pc' = [pc EXCEPT ![t1] = "idle"] /\ calls' = [calls EXCEPT ![t1] = 1]
          /\ event' = event
      BY <1>13, <2>1, <2>9, <3>1 DEF DmacM2m!DmacIsr, DmacM2m!Callback
    <3>3. DmacM2m!TypeOK'
      BY <1>0, <2>1, <2>2, <3>2 DEF DmacM2m!TypeOK
    <3>4. pc'[t1] = "idle" /\ calls'[t1] = 1 /\ CopyRest(c)'
      BY <1>0, <2>2, <2>3, <3>1, <3>2 DEF CopyRest, DmacM2m!TypeOK, DmacM2m!None
    <3>5. CopyHere(c)'
      BY <3>4 DEF CopyHere
    <3>6. \A d \in DmacM2m!Channels \ {c} :
            /\ use'[d] = use[d] /\ info'[d] = info[d] /\ event'[d] = event[d]
            /\ hw'[d] = hw[d] /\ irq'[d] = irq[d]
      BY <1>0, <2>2, <3>2 DEF DmacM2m!TypeOK
    <3>7. QED
      BY <1>0, <2>1, <2>2, <3>3, <3>4, <3>5, <3>6, CopyMove
  <2>10. QED
    BY <2>1, <2>8, <2>9
<1>17. ASSUME NEW c \in DmacM2m!Channels, DmacM2m!DmacIsrFrees(c) PROVE CopyInv'
  <2>1. /\ irq[c] = "called"
        /\ irq' = [irq EXCEPT ![c] = DmacM2m!None] /\ use' = [use EXCEPT ![c] = "vacant"]
        /\ UNCHANGED
             <<event, hw, chan, kind, pieces, serial, pc, left, result, copied, calls>>
    BY <1>17 DEF DmacM2m!DmacIsrFrees, DmacM2m!DmacFreeChannel
  <2>2. info'[c] \in CopyInfos /\ info'[c].lli = FALSE /\ info'[c].cb = info[c].cb
        /\ info'[c].type = info[c].type /\ info' = [info EXCEPT ![c] = info'[c]]
    <3>1. info[c] \in CopyInfos
      BY <1>0 DEF DmacM2m!TypeOK, CopyInfos
    <3>2. info'[c] = [info[c] EXCEPT !.lli = FALSE]
      BY <1>0, <1>17 DEF DmacM2m!DmacIsrFrees, DmacM2m!DmacFreeChannel, DmacM2m!TypeOK
    <3>3. QED
      BY <1>0, <1>17, <3>1, <3>2
         DEF DmacM2m!DmacIsrFrees, DmacM2m!DmacFreeChannel, DmacM2m!TypeOK, CopyInfos
  <2>3. DmacM2m!TypeOK'
    BY <1>0, <2>1, <2>2 DEF DmacM2m!TypeOK, CopyInfos
  <2>4. /\ irq'[c] = DmacM2m!None /\ use'[c] = "vacant"
        /\ \A d \in DmacM2m!Channels \ {c} :
             /\ use'[d] = use[d] /\ info'[d] = info[d] /\ event'[d] = event[d]
             /\ hw'[d] = hw[d] /\ irq'[d] = irq[d]
    BY <1>0, <2>1, <2>2 DEF DmacM2m!TypeOK
  <2>5. CASE pc[t1] # "lost" /\ c = chan[t1]
    <3>1. CopyRest(c) => CopyRest(c)'
      BY <2>1, <2>2, <2>4 DEF CopyRest
    <3>2. CopyPiece(c) => CopyPiece(c)'
      BY <2>1, <2>4 DEF CopyPiece
    <3>3. CopyHere(c)'
      BY <1>0, <2>1, <2>2, <2>4, <2>5, <3>1, <3>2 DEF CopyHere, DmacM2m!None
    <3>4. QED
      BY <2>1, <2>3, <2>4, <2>5, <3>3, CopyMove
  <2>6. CASE c # chan[t1]
    <3>1. CopyRest(c)'
      BY <1>0, <2>1, <2>2, <2>4, <2>6 DEF CopyRest
    <3>2. \A d \in DmacM2m!Channels \ {chan[t1]} : CopyRest(d)'
      BY <1>0, <2>4, <3>1 DEF CopyRest
    <3>3. pc[t1] # "lost" => CopyHere(chan[t1])'
      BY <1>0, <2>1, <2>4, <2>6 DEF CopyHere, CopyRest, CopyPiece
    <3>4. QED
      BY <1>0, <2>1, <2>3, <3>2, <3>3 DEF CopyInv
  <2>7. QED
    BY <1>0, <2>5, <2>6
<1>14. ~DmacM2m!DmacPeriphNull(t1) /\ ~DmacM2m!DmacWaitM2mTimeout(t1)
  BY <1>0 DEF DmacM2m!DmacPeriphNull, DmacM2m!DmacWaitM2mTimeout, DmacM2m!TypeOK, DmacM2m!None
<1>15. CASE UNCHANGED DmacM2m!vars
  BY <1>0, <1>15 DEF DmacM2m!vars, CopyInv, DmacM2m!TypeOK, CopyRest, CopyHere, CopyPiece
<1>16. QED
  BY <1>1, <1>2, <1>3, <1>4, <1>5, <1>6, <1>7, <1>8, <1>9, <1>10, <1>11, <1>12, <1>13, <1>14,
     <1>15, <1>17 DEF DmacM2m!Next

LEMMA CopyFollows ==
  ASSUME CopyInv
  PROVE  DmacM2m!TypeOK /\ DmacM2m!SuccessIsCopied /\ DmacM2m!CalledOnce /\ DmacM2m!ChannelsBack
  BY DEF CopyInv, CopyHere, CopyRest, CopyTold, DmacM2m!SuccessIsCopied, DmacM2m!CalledOnce,
     DmacM2m!ChannelsBack, DmacM2m!TypeOK

-----------------------------------------------------------------------------
\* What the choice of a controller at the start means.
LEMMA DmacRuns ==
    /\ Init /\ part = "dmac_periph" => DmacPeriph!Init
    /\ part = "dmac_periph" /\ [Next]_vars
         => part' = "dmac_periph" /\ [DmacPeriph!Next]_(DmacPeriph!vars)
    /\ part # "dmac_periph" /\ [Next]_vars => part' # "dmac_periph"
    /\ Init /\ part = "dmac_m2m" => DmacM2m!Init
    /\ part = "dmac_m2m" /\ [Next]_vars => part' = "dmac_m2m" /\ [DmacM2m!Next]_(DmacM2m!vars)
    /\ part # "dmac_m2m" /\ [Next]_vars => part' # "dmac_m2m"
<1>1. /\ Init /\ part = "dmac_periph" => DmacPeriph!Init
      /\ Init /\ part = "dmac_m2m" => DmacM2m!Init
  BY DEF Init
<1>2. /\ part = "dmac_periph" /\ Next => part' = "dmac_periph" /\ DmacPeriph!Next
      /\ part = "dmac_m2m" /\ Next => part' = "dmac_m2m" /\ DmacM2m!Next
  BY DEF Next
<1>3. UNCHANGED vars => UNCHANGED <<part, DmacPeriph!vars, DmacM2m!vars>>
  BY DEF vars, DmacPeriph!vars, DmacPeriph!channels, DmacPeriph!hardware, DmacPeriph!request,
     DmacPeriph!history, DmacM2m!vars, DmacM2m!channels, DmacM2m!hardware, DmacM2m!request,
     DmacM2m!history
<1>4. /\ part # "dmac_periph" /\ [Next]_vars => part' # "dmac_periph"
      /\ part # "dmac_m2m" /\ [Next]_vars => part' # "dmac_m2m"
  BY DEF Next, vars
<1>5. QED
  BY <1>1, <1>2, <1>3, <1>4

\* For any number of clients that make transfers of peripherals, with an address
\* each, and any number of channels: two transfers under way never share a channel,
\* a callback is called once, and a channel that nobody uses is given back; nothing
\* is said of a client that finds no channel.  For one client, that makes transfers of
\* peripherals or copies memory, with hardware that answers before the timeout
\* (Timeouts = FALSE): a copy that reports success has copied all of its pieces, into
\* however many it is divided (DmacAllocateChannel, DmacIsr, DmacM2mTransfer).
THEOREM SuccessIsCopiedThm == Spec => []SuccessIsCopied
<1> DEFINE PeriphRuns == part = "dmac_periph" => PeriphInv
           CopyRuns == part = "dmac_m2m" => CopyInv
<1>1. Init => PeriphRuns /\ CopyRuns
  BY DmacRuns, PeriphInitInv, CopyInitInv
<1>2. PeriphRuns /\ CopyRuns /\ [Next]_vars => (PeriphRuns /\ CopyRuns)'
  BY DmacRuns, PeriphStepInv, CopyStepInv
<1>3. PeriphRuns /\ CopyRuns => SuccessIsCopied
  BY PeriphFollows, CopyFollows DEF SuccessIsCopied
<1> HIDE DEF PeriphRuns, CopyRuns
<1>4. QED
  BY <1>1, <1>2, <1>3, PTL DEF Spec
=============================================================================

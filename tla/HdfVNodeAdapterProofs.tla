------------------------ MODULE HdfVNodeAdapterProofs ------------------------
(***************************************************************************)
(* Proofs about HdfVNodeAdapter for any number of clients, any capacity    *)
(* and any number of events.                                               *)
(***************************************************************************)
EXTENDS HdfVNodeAdapter, Integers, SequenceTheorems, TLAPS

(***************************************************************************)
(* Facts about the sequences the model uses.                               *)
(***************************************************************************)
\* Unlinking position i of a list keeps its elements and moves the later ones
\* one place forward (DListRemove).
LEMMA RemoveFacts ==
    ASSUME NEW S, NEW s \in Seq(S), NEW i \in 1..Len(s),
           NEW r, r = SubSeq(s, 1, i - 1) \o SubSeq(s, i + 1, Len(s))
    PROVE  /\ r \in Seq(S)
           /\ Len(r) = Len(s) - 1
           /\ \A k \in 1..(Len(s) - 1) : r[k] = IF k < i THEN s[k] ELSE s[k + 1]
<1> DEFINE a == SubSeq(s, 1, i - 1)
           b == SubSeq(s, i + 1, Len(s))
<1>1. a \in Seq(S) /\ Len(a) = i - 1 /\ \A k \in 1..(i - 1) : a[k] = s[k]
  BY SubSeqProperties
<1>2. b \in Seq(S) /\ Len(b) = Len(s) - i /\ \A k \in 1..(Len(s) - i) : b[k] = s[k + i]
  BY SubSeqProperties
<1> HIDE DEF a, b
<1>3. /\ a \o b \in Seq(S)
      /\ Len(a \o b) = Len(s) - 1
      /\ \A k \in 1..(Len(s) - 1) :
            (a \o b)[k] = IF k <= i - 1 THEN a[k] ELSE b[k - (i - 1)]
  <2>1. /\ a \o b \in Seq(S)
        /\ Len(a \o b) = Len(a) + Len(b)
        /\ \A k \in 1..(Len(a) + Len(b)) :
              (a \o b)[k] = IF k <= Len(a) THEN a[k] ELSE b[k - Len(a)]
    BY <1>1, <1>2, ConcatProperties
  <2>2. Len(a) + Len(b) = Len(s) - 1
    BY <1>1, <1>2
  <2>3. QED
    BY <1>1, <2>1, <2>2
<1>4. ASSUME NEW k \in 1..(Len(s) - 1)
      PROVE  (a \o b)[k] = IF k < i THEN s[k] ELSE s[k + 1]
  <2>1. CASE k < i
    BY <1>1, <1>3, <2>1
  <2>2. CASE ~(k < i)
    <3>1. k - (i - 1) \in 1..(Len(s) - i) /\ k - (i - 1) + i = k + 1
      BY <2>2
    <3>2. b[k - (i - 1)] = s[k + 1]
      BY <1>2, <3>1
    <3>3. QED
      BY <1>3, <2>2, <3>2
  <2>3. QED
    BY <2>1, <2>2
<1>5. QED
  BY <1>3, <1>4 DEF a, b

\* Appending at the tail (DListInsertTail).
LEMMA AppendFacts ==
    ASSUME NEW S, NEW s \in Seq(S), NEW e \in S
    PROVE  /\ Append(s, e) \in Seq(S)
           /\ Len(Append(s, e)) = Len(s) + 1
           /\ \A k \in 1..Len(s) : Append(s, e)[k] = s[k]
           /\ Append(s, e)[Len(s) + 1] = e
  OBVIOUS

\* Removing the head of a list that is not empty.
LEMMA TailFacts ==
    ASSUME NEW S, NEW s \in Seq(S), s # <<>>
    PROVE  /\ Tail(s) \in Seq(S)
           /\ Len(Tail(s)) = Len(s) - 1
           /\ Len(s) > 0
           /\ Head(s) \in S /\ Head(s) = s[1]
           /\ \A k \in 1..(Len(s) - 1) : Tail(s)[k] = s[k + 1]
  OBVIOUS

\* What the overflow test leaves of a queue: the queue, or its tail.
LEMMA DropFacts ==
    ASSUME TypeOK, NEW c \in Clients, ~DropsListHead(c)
    PROVE  /\ QueueAfterDrop(c) \in Seq(Event)
           /\ SizeAfterDrop(c) \in Nat
           /\ \/ /\ eventQueueSize[c] < EVENT_QUEUE_MAX
                 /\ QueueAfterDrop(c) = eventQueue[c]
                 /\ SizeAfterDrop(c) = eventQueueSize[c]
              \/ /\ eventQueueSize[c] >= EVENT_QUEUE_MAX
                 /\ eventQueue[c] # <<>>
                 /\ QueueAfterDrop(c) = Tail(eventQueue[c])
                 /\ SizeAfterDrop(c) = eventQueueSize[c] - 1
<1>1. eventQueue[c] \in Seq(Event) /\ eventQueueSize[c] \in Nat
  BY DEF TypeOK
<1>2. CASE eventQueueSize[c] >= EVENT_QUEUE_MAX
  <2>1. eventQueue[c] # <<>>
    BY <1>2 DEF DropsListHead
  <2>2. Tail(eventQueue[c]) \in Seq(Event)
    BY <1>1, <2>1, TailFacts
  <2>3. eventQueueSize[c] - 1 \in Nat
    BY <1>1, <1>2, VNodeAssumption
  <2>4. QED
    BY <1>1, <1>2, <2>1, <2>2, <2>3, VNodeAssumption DEF QueueAfterDrop, SizeAfterDrop
<1>3. CASE ~(eventQueueSize[c] >= EVENT_QUEUE_MAX)
  BY <1>1, <1>3, VNodeAssumption DEF QueueAfterDrop, SizeAfterDrop
<1>4. QED
  BY <1>2, <1>3

\* The record of a walk after it moves on or gives up.
LEMMA WalkFacts ==
    ASSUME NEW w \in Walk
    PROVE  /\ [w EXCEPT !.pos = @ + 1] \in Walk
           /\ [w EXCEPT !.ret = "NO_MEMORY"] \in Walk
           /\ [w EXCEPT !.pos = @ + 1, !.ret = "SUCCESS"] \in Walk
           /\ w # NoSend
           /\ w.ev \in Event /\ w.target \in Clients \cup {All} /\ w.pos \in Nat \ {0}
<1>1. w.ev \in Event /\ w.target \in Clients \cup {All} /\ w.pos \in Nat \ {0}
  BY DEF Walk
<1>2. [w EXCEPT !.pos = @ + 1] \in Walk
  BY DEF Walk
<1>3. [w EXCEPT !.ret = "NO_MEMORY"] \in Walk
  BY DEF Walk
<1>4. [w EXCEPT !.pos = @ + 1, !.ret = "SUCCESS"] \in Walk
  <2>1. ASSUME NEW v \in Walk PROVE [v EXCEPT !.ret = "SUCCESS"] \in Walk
    BY DEF Walk
  <2>2. [w EXCEPT !.pos = @ + 1, !.ret = "SUCCESS"]
            = [[w EXCEPT !.pos = @ + 1] EXCEPT !.ret = "SUCCESS"]
    OBVIOUS
  <2>3. QED
    BY <1>2, <2>1, <2>2
<1>5. w # NoSend
  <2>1. w.ev # 0
    BY <1>1, VNodeAssumption DEF Event
  <2>2. QED
    BY <2>1 DEF NoSend
<1>6. QED
  BY <1>1, <1>2, <1>3, <1>4, <1>5

\* The walk stands at a client of the list.
LEMMA VisitedFacts ==
    ASSUME TypeOK, Walking
    PROVE  /\ send \in Walk
           /\ send.pos \in 1..Len(clientList)
           /\ Visited \in Clients /\ Visited = clientList[send.pos]
           /\ send.ev \in Event
<1>1. send \in Walk
  BY DEF Walking, TypeOK, SendState
<1>2. send.ev \in Event /\ send.pos \in Nat \ {0}
  BY <1>1, WalkFacts
<1>3. clientList \in Seq(Clients) /\ send.pos \in 1..Len(clientList)
  BY <1>2 DEF Walking, TypeOK
<1>4. clientList[send.pos] \in Clients
  BY <1>3
<1>5. QED
  BY <1>1, <1>2, <1>3, <1>4 DEF Visited

(***************************************************************************)
(* Type correctness.                                                       *)
(***************************************************************************)
\* Every step of the adapter keeps the types; the counter stays a natural
\* number because it covers the queue.
LEMMA TypeStep == TypeOK /\ QueueBounded /\ [Next]_vars => TypeOK'
<1> SUFFICES ASSUME TypeOK, QueueBounded, [Next]_vars PROVE TypeOK'
  OBVIOUS
<1> USE VNodeAssumption
<1>1. ASSUME NEW c \in Clients, HdfNewVNodeAdapterClient(c) PROVE TypeOK'
  <2>1. clientList' \in Seq(Clients)
    BY <1>1, AppendFacts DEF HdfNewVNodeAdapterClient, TypeOK
  <2>2. QED
    BY <1>1, <2>1 DEF HdfNewVNodeAdapterClient, TypeOK, FilePhase, HdfVNodeClientStatus
<1>2. ASSUME NEW c \in Clients, HdfVNodeAdapterOpen(c) PROVE TypeOK'
  BY <1>2 DEF HdfVNodeAdapterOpen, TypeOK, FilePhase, HdfVNodeClientStatus, histVars
<1>3. ASSUME NEW c \in Clients, HdfVNodeAdapterClose(c) PROVE TypeOK'
  BY <1>3 DEF HdfVNodeAdapterClose, TypeOK, FilePhase, HdfVNodeClientStatus, histVars
<1>4. ASSUME NEW c \in Clients, HdfDestoryVNodeAdapterClient(c) PROVE TypeOK'
  <2>1. PICK i \in 1..Len(clientList) :
           clientList' = SubSeq(clientList, 1, i - 1)
                            \o SubSeq(clientList, i + 1, Len(clientList))
    BY <1>4 DEF HdfDestoryVNodeAdapterClient
  <2>a. clientList \in Seq(Clients)
    BY DEF TypeOK
  <2>2. clientList' \in Seq(Clients)
    BY <2>1, <2>a, RemoveFacts
  <2>3. /\ file' = [file EXCEPT ![c] = "closed"]
        /\ eventQueue' = [eventQueue EXCEPT ![c] = <<>>]
        /\ UNCHANGED <<status, eventQueueSize, wakeup, send, lastEvent, corrupted,
                       lastRead, reached, late>>
    BY <1>4 DEF HdfDestoryVNodeAdapterClient, histVars
  <2>4. file' \in [Clients -> FilePhase]
    BY <2>3 DEF TypeOK, FilePhase
  <2>b. eventQueue' \in [Clients -> Seq(Event)]
    BY <2>3 DEF TypeOK
  <2>5. QED
    BY <2>2, <2>3, <2>4, <2>b DEF TypeOK
<1>5. ASSUME NEW c \in Clients, HdfVNodeAdapterClientStartListening(c) PROVE TypeOK'
  BY <1>5 DEF HdfVNodeAdapterClientStartListening, TypeOK, HdfVNodeClientStatus
<1>6. ASSUME NEW c \in Clients, HdfVNodeAdapterClientStopListening(c) PROVE TypeOK'
  BY <1>6 DEF HdfVNodeAdapterClientStopListening, HdfVnodeCleanEventQueue, TypeOK,
              HdfVNodeClientStatus, histVars
<1>7. ASSUME NEW c \in Clients, HdfVNodeAdapterClientExitListening(c) PROVE TypeOK'
  BY <1>7 DEF HdfVNodeAdapterClientExitListening, HdfVnodeCleanEventQueue, TypeOK,
              HdfVNodeClientStatus, histVars
<1>8. ASSUME NEW c \in Clients, HdfVNodeAdapterClientWakeup(c) PROVE TypeOK'
  <2>1. wakeup[c] + 1 \in 0..MaxWakeup
    BY <1>8 DEF HdfVNodeAdapterClientWakeup, TypeOK
  <2>2. QED
    BY <1>8, <2>1 DEF HdfVNodeAdapterClientWakeup, TypeOK, histVars
<1>9. ASSUME NEW c \in Clients, HdfVNodeAdapterPoll(c) PROVE TypeOK'
  <2>1. wakeup[c] - 1 \in 0..MaxWakeup
    BY <1>9 DEF HdfVNodeAdapterPoll, WakeupPending, TypeOK
  <2>2. QED
    BY <1>9, <2>1 DEF HdfVNodeAdapterPoll, TypeOK, histVars
<1>10. ASSUME NEW c \in Clients, HdfVNodeAdapterReadDevEvent(c) PROVE TypeOK'
  <2>1. /\ Tail(eventQueue[c]) \in Seq(Event)
        /\ Len(eventQueue[c]) \in Nat \ {0}
        /\ Head(eventQueue[c]) \in 0..MaxEvents
    BY <1>10, TailFacts DEF HdfVNodeAdapterReadDevEvent, TypeOK, Event
  <2>2. eventQueueSize[c] - 1 \in Nat
    BY <2>1 DEF QueueBounded, TypeOK
  <2>3. QED
    BY <1>10, <2>1, <2>2 DEF HdfVNodeAdapterReadDevEvent, TypeOK
<1>11. ASSUME NEW t \in Clients \cup {All}, HdfDeviceSendEvent(t) PROVE TypeOK'
  <2>1. send' \in Walk /\ lastEvent' \in 0..MaxEvents
    BY <1>11 DEF HdfDeviceSendEvent, TypeOK, Walk, Event
  <2>2. QED
    BY <1>11, <2>1 DEF HdfDeviceSendEvent, TypeOK, SendState, kernelVars
<1>12. CASE SkipClient
  <2>1. send \in Walk
    BY <1>12 DEF SkipClient, Walking, TypeOK, SendState
  <2>a. /\ [send EXCEPT !.pos = @ + 1] \in Walk
        /\ [send EXCEPT !.pos = @ + 1, !.ret = "SUCCESS"] \in Walk
    BY <2>1, WalkFacts
  <2>2. send' \in Walk
    BY <1>12, <2>a DEF SkipClient
  <2>3. QED
    BY <1>12, <2>2 DEF SkipClient, TypeOK, SendState, kernelVars, histVars
<1>13. CASE VNodeAdapterSendDevEventToClient
  <2> DEFINE c == Visited
  <2>0. send \in Walk /\ c \in Clients /\ send.ev \in Event
    BY <1>13, VisitedFacts DEF VNodeAdapterSendDevEventToClient
  <2> HIDE DEF c
  <2>2. Append(QueueAfterDrop(c), send.ev) \in Seq(Event) /\ SizeAfterDrop(c) + 1 \in Nat
    BY <1>13, <2>0, DropFacts, AppendFacts DEF VNodeAdapterSendDevEventToClient, c
  <2>a. [send EXCEPT !.pos = @ + 1, !.ret = "SUCCESS"] \in Walk
    BY <2>0, WalkFacts
  <2>3. send' \in SendState
    BY <1>13, <2>a DEF VNodeAdapterSendDevEventToClient, SendState
  <2>4. QED
    BY <1>13, <2>0, <2>2, <2>3 DEF VNodeAdapterSendDevEventToClient, InsertTail, TypeOK, c
<1>14. CASE SendOutOfMemory
  <2> DEFINE c == Visited
  <2>0. send \in Walk /\ c \in Clients
    BY <1>14, VisitedFacts DEF SendOutOfMemory
  <2> HIDE DEF c
  <2>2. QueueAfterDrop(c) \in Seq(Event) /\ SizeAfterDrop(c) \in Nat
    BY <1>14, <2>0, DropFacts DEF SendOutOfMemory, c
  <2>3. send' \in SendState
    BY <1>14, <2>0, WalkFacts DEF SendOutOfMemory, LeaveWalk, SendState
  <2>4. QED
    BY <1>14, <2>0, <2>2, <2>3 DEF SendOutOfMemory, TypeOK, histVars, c
<1>15. CASE SendDropsListHead
  BY <1>15 DEF SendDropsListHead, TypeOK, kernelVars, histVars
<1>16. CASE SendReturn
  BY <1>16 DEF SendReturn, NoSend, TypeOK, SendState, Walk, kernelVars
<1>17. CASE UNCHANGED vars
  BY <1>17 DEF vars, TypeOK
<1>18. QED
  BY <1>1, <1>2, <1>3, <1>4, <1>5, <1>6, <1>7, <1>8, <1>9, <1>10, <1>11, <1>12,
     <1>13, <1>14, <1>15, <1>16, <1>17 DEF Next, UserStep, SendStep

(***************************************************************************)
(* The queues.                                                             *)
(***************************************************************************)
\* What a step can do to the queues and counters: nothing, empty one queue,
\* pop one, or what the send does to the client it visits.
LEMMA QueueSteps ==
    ASSUME TypeOK, [Next]_vars
    PROVE  \/ UNCHANGED <<eventQueue, eventQueueSize, lastRead>>
           \/ \E c \in Clients : HdfNewVNodeAdapterClient(c)
           \/ \E c \in Clients :
                 /\ eventQueue' = [eventQueue EXCEPT ![c] = <<>>]
                 /\ UNCHANGED <<eventQueueSize, lastRead>>
           \/ \E c \in Clients : HdfVNodeAdapterReadDevEvent(c)
           \/ VNodeAdapterSendDevEventToClient
           \/ SendOutOfMemory
<1>1. ASSUME NEW c \in Clients, UserStep(c)
      PROVE  \/ UNCHANGED <<eventQueue, eventQueueSize, lastRead>>
             \/ HdfNewVNodeAdapterClient(c)
             \/ /\ eventQueue' = [eventQueue EXCEPT ![c] = <<>>]
                /\ UNCHANGED <<eventQueueSize, lastRead>>
             \/ HdfVNodeAdapterReadDevEvent(c)
  BY <1>1 DEF UserStep, HdfVNodeAdapterOpen, HdfVNodeAdapterClose,
       HdfDestoryVNodeAdapterClient, HdfVNodeAdapterClientStartListening,
       HdfVNodeAdapterClientStopListening, HdfVNodeAdapterClientExitListening,
       HdfVnodeCleanEventQueue, HdfVNodeAdapterClientWakeup, HdfVNodeAdapterPoll, histVars
<1>2. ASSUME NEW t \in Clients \cup {All}, HdfDeviceSendEvent(t)
      PROVE  UNCHANGED <<eventQueue, eventQueueSize, lastRead>>
  BY <1>2 DEF HdfDeviceSendEvent, kernelVars
<1>3. SkipClient \/ SendDropsListHead \/ SendReturn
          => UNCHANGED <<eventQueue, eventQueueSize, lastRead>>
  BY DEF SkipClient, SendDropsListHead, SendReturn, kernelVars, histVars
<1>4. UNCHANGED vars => UNCHANGED <<eventQueue, eventQueueSize, lastRead>>
  BY DEF vars
<1>5. QED
  BY <1>1, <1>2, <1>3, <1>4 DEF Next, SendStep

\* After the overflow test there is room for one more event.
LEMMA DropBound ==
    ASSUME TypeOK, QueueBounded, NEW c \in Clients, ~DropsListHead(c)
    PROVE  /\ Len(QueueAfterDrop(c)) <= SizeAfterDrop(c)
           /\ SizeAfterDrop(c) + 1 <= EVENT_QUEUE_MAX
<1>1. /\ eventQueue[c] \in Seq(Event) /\ eventQueueSize[c] \in Nat
      /\ Len(eventQueue[c]) <= eventQueueSize[c]
      /\ eventQueueSize[c] <= EVENT_QUEUE_MAX
  BY DEF TypeOK, QueueBounded
<1>2. CASE eventQueueSize[c] < EVENT_QUEUE_MAX
  <2>1. QueueAfterDrop(c) = eventQueue[c] /\ SizeAfterDrop(c) = eventQueueSize[c]
    BY <1>1, <1>2, DropFacts, VNodeAssumption
  <2>2. QED
    BY <1>1, <1>2, <2>1, VNodeAssumption
<1>3. CASE eventQueueSize[c] >= EVENT_QUEUE_MAX
  <2>1. /\ eventQueue[c] # <<>> /\ QueueAfterDrop(c) = Tail(eventQueue[c])
        /\ SizeAfterDrop(c) = eventQueueSize[c] - 1
    BY <1>1, <1>3, DropFacts, VNodeAssumption
  <2>2. Len(Tail(eventQueue[c])) = Len(eventQueue[c]) - 1 /\ Len(eventQueue[c]) \in Nat
    BY <1>1, <2>1, TailFacts
  <2>3. QED
    BY <1>1, <2>1, <2>2, VNodeAssumption
<1>4. QED
  BY <1>1, <1>2, <1>3, VNodeAssumption

\* The queues stay within the counters and the counters within the capacity.
LEMMA BoundStep == TypeOK /\ QueueBounded /\ [Next]_vars => QueueBounded'
<1> SUFFICES ASSUME TypeOK, QueueBounded, [Next]_vars PROVE QueueBounded'
  OBVIOUS
<1> USE VNodeAssumption
<1>1. CASE UNCHANGED <<eventQueue, eventQueueSize, lastRead>>
  BY <1>1 DEF QueueBounded
<1>2. ASSUME NEW c \in Clients, HdfNewVNodeAdapterClient(c) PROVE QueueBounded'
  BY <1>2 DEF HdfNewVNodeAdapterClient, QueueBounded, TypeOK
<1>3. ASSUME NEW c \in Clients, eventQueue' = [eventQueue EXCEPT ![c] = <<>>],
             UNCHANGED <<eventQueueSize, lastRead>>
      PROVE  QueueBounded'
  BY <1>3 DEF QueueBounded, TypeOK
<1>4. ASSUME NEW c \in Clients, HdfVNodeAdapterReadDevEvent(c) PROVE QueueBounded'
  <2>1. /\ eventQueue[c] \in Seq(Event) /\ eventQueue[c] # <<>>
        /\ eventQueueSize[c] \in Nat
    BY <1>4 DEF HdfVNodeAdapterReadDevEvent, TypeOK
  <2>2. Len(Tail(eventQueue[c])) = Len(eventQueue[c]) - 1 /\ Len(eventQueue[c]) \in Nat
    BY <2>1, TailFacts
  <2>3. QED
    BY <1>4, <2>1, <2>2 DEF HdfVNodeAdapterReadDevEvent, QueueBounded, TypeOK
<1>5. CASE VNodeAdapterSendDevEventToClient
  <2> DEFINE c == Visited
  <2>1. c \in Clients /\ send.ev \in Event /\ ~DropsListHead(c)
    BY <1>5, VisitedFacts DEF VNodeAdapterSendDevEventToClient
  <2>2. /\ eventQueue' = [eventQueue EXCEPT ![c] = Append(QueueAfterDrop(c), send.ev)]
        /\ eventQueueSize' = [eventQueueSize EXCEPT ![c] = SizeAfterDrop(c) + 1]
    BY <1>5 DEF VNodeAdapterSendDevEventToClient, InsertTail
  <2> HIDE DEF c
  <2>3. /\ Len(QueueAfterDrop(c)) <= SizeAfterDrop(c)
        /\ SizeAfterDrop(c) + 1 <= EVENT_QUEUE_MAX
        /\ SizeAfterDrop(c) \in Nat
        /\ QueueAfterDrop(c) \in Seq(Event)
    BY <2>1, DropFacts, DropBound
  <2>4. Len(Append(QueueAfterDrop(c), send.ev)) = Len(QueueAfterDrop(c)) + 1
    <3>1. QueueAfterDrop(c) \in Seq(Event) /\ send.ev \in Event
      BY <2>1, <2>3
    <3>2. QED
      BY <3>1, AppendFacts
  <2>5. /\ Len(eventQueue'[c]) <= eventQueueSize'[c]
        /\ eventQueueSize'[c] <= EVENT_QUEUE_MAX
    <3>1. eventQueue'[c] = Append(QueueAfterDrop(c), send.ev)
      BY <2>1, <2>2 DEF TypeOK
    <3>2. eventQueueSize'[c] = SizeAfterDrop(c) + 1
      BY <2>1, <2>2 DEF TypeOK
    <3>3. Len(QueueAfterDrop(c)) \in Nat
      BY <2>3
    <3>4. QED
      BY <2>3, <2>4, <3>1, <3>2, <3>3
  <2>6. QED
    BY <2>1, <2>2, <2>5 DEF QueueBounded, TypeOK
<1>6. CASE SendOutOfMemory
  <2> DEFINE c == Visited
  <2>1. c \in Clients /\ ~DropsListHead(c)
    BY <1>6, VisitedFacts DEF SendOutOfMemory
  <2>2. /\ eventQueue' = [eventQueue EXCEPT ![c] = QueueAfterDrop(c)]
        /\ eventQueueSize' = [eventQueueSize EXCEPT ![c] = SizeAfterDrop(c)]
    BY <1>6 DEF SendOutOfMemory
  <2> HIDE DEF c
  <2>3. /\ Len(QueueAfterDrop(c)) <= SizeAfterDrop(c)
        /\ SizeAfterDrop(c) + 1 <= EVENT_QUEUE_MAX
        /\ SizeAfterDrop(c) \in Nat
    BY <2>1, DropFacts, DropBound
  <2>4. QED
    BY <2>1, <2>2, <2>3 DEF QueueBounded, TypeOK
<1>7. QED
  BY <1>1, <1>2, <1>3, <1>4, <1>5, <1>6, QueueSteps

\* The initial state satisfies both.
LEMMA BoundInit == Init => TypeOK /\ QueueBounded
<1> SUFFICES ASSUME Init PROVE TypeOK /\ QueueBounded
  OBVIOUS
<1> USE VNodeAssumption
<1>1. eventQueue \in [Clients -> Seq(Event)] /\ clientList \in Seq(Clients)
  BY DEF Init
<1>2. send \in SendState
  BY DEF Init, SendState
<1>a. /\ file \in [Clients -> FilePhase]
      /\ status \in [Clients -> HdfVNodeClientStatus]
  BY DEF Init, FilePhase, HdfVNodeClientStatus
<1>b. /\ eventQueueSize \in [Clients -> Nat]
      /\ wakeup \in [Clients -> 0..MaxWakeup]
      /\ lastRead \in [Clients -> 0..MaxEvents]
      /\ lastEvent \in 0..MaxEvents
  BY DEF Init
<1>3. TypeOK
  BY <1>1, <1>2, <1>a, <1>b DEF Init, TypeOK
<1>4. QueueBounded
  BY DEF Init, QueueBounded
<1>5. QED
  BY <1>3, <1>4

\* No client ever holds more than EVENT_QUEUE_MAX events, and the state keeps
\* its types, for every number of clients and every capacity
\* (VNodeAdapterSendDevEventToClient and the operations that empty a queue).
THEOREM QueueBoundedThm == Spec => [](TypeOK /\ QueueBounded)
<1>1. Init => TypeOK /\ QueueBounded
  BY BoundInit
<1>2. TypeOK /\ QueueBounded /\ [Next]_vars => (TypeOK /\ QueueBounded)'
  BY TypeStep, BoundStep
<1>3. QED
  BY <1>1, <1>2, PTL DEF Spec

\* The adapter's state keeps its types through every interleaving of sends, reads,
\* listens, stops, exits and closes (HdfVNodeAdapterClient, HdfDevEvent).
THEOREM TypeThm == Spec => []TypeOK
  BY QueueBoundedThm, PTL

(***************************************************************************)
(* Queues of clients that do not listen.                                   *)
(***************************************************************************)
\* Only a listening client is given an event, and whatever ends the listening
\* empties the queue in the same step, or marks the file as being destroyed.
LEMMA NothingQueuedStep ==
    TypeOK /\ NothingQueuedUnlessListening /\ [Next]_vars
        => NothingQueuedUnlessListening'
<1> SUFFICES ASSUME TypeOK, NothingQueuedUnlessListening, [Next]_vars
             PROVE  NothingQueuedUnlessListening'
  OBVIOUS
<1> USE DEF NothingQueuedUnlessListening
<1>1. CASE UNCHANGED <<eventQueue, status, file>>
  BY <1>1
<1>2. ASSUME NEW c \in Clients, HdfNewVNodeAdapterClient(c)
      PROVE  NothingQueuedUnlessListening'
  BY <1>2 DEF HdfNewVNodeAdapterClient, TypeOK
<1>3. ASSUME NEW c \in Clients, HdfVNodeAdapterOpen(c)
      PROVE  NothingQueuedUnlessListening'
  BY <1>3 DEF HdfVNodeAdapterOpen, TypeOK
<1>4. ASSUME NEW c \in Clients, HdfVNodeAdapterClose(c)
      PROVE  NothingQueuedUnlessListening'
  BY <1>4 DEF HdfVNodeAdapterClose, TypeOK
<1>5. ASSUME NEW c \in Clients, HdfDestoryVNodeAdapterClient(c)
      PROVE  NothingQueuedUnlessListening'
  <2>1. /\ file' = [file EXCEPT ![c] = "closed"]
        /\ eventQueue' = [eventQueue EXCEPT ![c] = <<>>]
        /\ UNCHANGED status
    BY <1>5 DEF HdfDestoryVNodeAdapterClient
  <2>2. QED
    BY <2>1 DEF TypeOK
<1>6. ASSUME NEW c \in Clients, HdfVNodeAdapterClientStartListening(c)
      PROVE  NothingQueuedUnlessListening'
  BY <1>6 DEF HdfVNodeAdapterClientStartListening, TypeOK
<1>7. ASSUME NEW c \in Clients,
             \/ HdfVNodeAdapterClientStopListening(c)
             \/ HdfVNodeAdapterClientExitListening(c)
      PROVE  NothingQueuedUnlessListening'
  BY <1>7 DEF HdfVNodeAdapterClientStopListening, HdfVNodeAdapterClientExitListening,
       HdfVnodeCleanEventQueue, TypeOK
<1>8. ASSUME NEW c \in Clients, HdfVNodeAdapterReadDevEvent(c)
      PROVE  NothingQueuedUnlessListening'
  <2>1. /\ eventQueue[c] # <<>>
        /\ eventQueue' = [eventQueue EXCEPT ![c] = Tail(@)]
        /\ UNCHANGED <<status, file>>
    BY <1>8 DEF HdfVNodeAdapterReadDevEvent
  <2>2. status[c] = "LISTENING" \/ file[c] = "destroying"
    BY <2>1
  <2>3. \A d \in Clients : d # c => eventQueue'[d] = eventQueue[d]
    BY <2>1 DEF TypeOK
  <2>4. QED
    BY <2>1, <2>2, <2>3
<1>9. CASE VNodeAdapterSendDevEventToClient \/ SendOutOfMemory
  <2>1. /\ Visited \in Clients /\ status[Visited] = "LISTENING"
        /\ UNCHANGED <<status, file>>
    BY <1>9, VisitedFacts
       DEF VNodeAdapterSendDevEventToClient, SendOutOfMemory, TakesEvents
  <2>2. \A d \in Clients : d # Visited => eventQueue'[d] = eventQueue[d]
    <3>1. PICK q : eventQueue' = [eventQueue EXCEPT ![Visited] = q]
      BY <1>9 DEF VNodeAdapterSendDevEventToClient, SendOutOfMemory
    <3>2. QED
      BY <3>1 DEF TypeOK
  <2>3. QED
    BY <2>1, <2>2
<1>10. ASSUME NEW c \in Clients,
              HdfVNodeAdapterClientWakeup(c) \/ HdfVNodeAdapterPoll(c)
       PROVE  UNCHANGED <<eventQueue, status, file>>
  BY <1>10 DEF HdfVNodeAdapterClientWakeup, HdfVNodeAdapterPoll
<1>11. ASSUME NEW t \in Clients \cup {All}, HdfDeviceSendEvent(t)
       PROVE  UNCHANGED <<eventQueue, status, file>>
  BY <1>11 DEF HdfDeviceSendEvent, kernelVars
<1>12. SkipClient \/ SendDropsListHead \/ SendReturn
           => UNCHANGED <<eventQueue, status, file>>
  BY DEF SkipClient, SendDropsListHead, SendReturn, kernelVars
<1>13. UNCHANGED vars => UNCHANGED <<eventQueue, status, file>>
  BY DEF vars
<1>14. QED
  BY <1>1, <1>2, <1>3, <1>4, <1>5, <1>6, <1>7, <1>8, <1>9, <1>10, <1>11,
     <1>12, <1>13 DEF Next, UserStep, SendStep

\* A client that does not listen holds no event, in whatever order a send, a
\* stop, an exit and a close of any number of files interleave
\* (VNodeAdapterSendDevEventToClient, HdfVnodeCleanEventQueue).
THEOREM NothingQueuedThm == Spec => []NothingQueuedUnlessListening
<1>1. Init => NothingQueuedUnlessListening
  BY DEF Init, NothingQueuedUnlessListening
<1>2. TypeOK /\ NothingQueuedUnlessListening /\ [Next]_vars
          => NothingQueuedUnlessListening'
  BY NothingQueuedStep
<1>3. Spec => [](TypeOK /\ QueueBounded)
  BY QueueBoundedThm
<1>4. QED
  BY <1>1, <1>2, <1>3, PTL DEF Spec
(***************************************************************************)
(* The order of events.  The invariant says how far the walk of a send has *)
(* come: the clients it has still to visit have not seen its event.        *)
(***************************************************************************)
\* clientList holds each client of a file that is not closed exactly once.
ListInv ==
    /\ \A i, j \in 1..Len(clientList) : clientList[i] = clientList[j] => i = j
    /\ \A c \in Clients :
          file[c] # "closed" <=> \E i \in 1..Len(clientList) : clientList[i] = c

\* The queue q of a file that has read r is in order, and later than r.
Increasing(q, r) ==
    \A i \in 1..Len(q) : /\ r < q[i]
                         /\ \A j \in 1..(i - 1) : q[j] < q[i]

\* Everything queued and read is older than e.
Below(q, r, e) == r < e /\ \A i \in 1..Len(q) : q[i] < e

\* A send in progress carries the last event number handed out.
SendInv == send # NoSend => send.ev = lastEvent

\* Nothing queued or read is newer than the last event.
NotNewer == \A c \in Clients : Below(eventQueue[c], lastRead[c], lastEvent + 1)

\* The clients from the walk's position on have not seen its event.
AheadInv ==
    send # NoSend =>
        \A k \in 1..Len(clientList) : k >= send.pos =>
            Below(eventQueue[clientList[k]], lastRead[clientList[k]], send.ev)

OrderInv == ListInv /\ SendInv /\ NotNewer /\ AheadInv /\ ReadInSendOrder

\* What a client has keeps its order and does not get newer.
Kept(c) ==
    /\ Increasing(eventQueue[c], lastRead[c])
          => Increasing(eventQueue'[c], lastRead'[c])
    /\ \A e \in Nat \ {0} : Below(eventQueue[c], lastRead[c], e)
          => Below(eventQueue'[c], lastRead'[c], e)

\* A queue that is empty is in order.
LEMMA EmptyOrder ==
    ASSUME NEW r \in Nat
    PROVE  /\ Increasing(<<>>, r)
           /\ \A e \in Nat : r < e => Below(<<>>, r, e)
  BY DEF Increasing, Below

\* Without its head a queue keeps its order, whether the head was read or dropped.
LEMMA PopOrder ==
    ASSUME NEW q \in Seq(Event), q # <<>>, NEW r \in Nat
    PROVE  /\ Increasing(q, r) => /\ Increasing(Tail(q), r)
                                  /\ Increasing(Tail(q), Head(q))
           /\ \A e \in Nat : Below(q, r, e) => /\ Below(Tail(q), r, e)
                                               /\ Below(Tail(q), Head(q), e)
<1>1. /\ Len(q) \in Nat /\ Len(Tail(q)) = Len(q) - 1 /\ Len(q) > 0
      /\ Head(q) = q[1]
      /\ \A k \in 1..(Len(q) - 1) : Tail(q)[k] = q[k + 1]
  BY TailFacts
<1>2. \A k \in 1..Len(q) : q[k] \in Nat
  BY VNodeAssumption DEF Event
<1>3. ASSUME Increasing(q, r)
      PROVE  Increasing(Tail(q), r) /\ Increasing(Tail(q), Head(q))
  <2>1. ASSUME NEW i \in 1..Len(Tail(q))
        PROVE  /\ r < Tail(q)[i] /\ Head(q) < Tail(q)[i]
               /\ \A j \in 1..(i - 1) : Tail(q)[j] < Tail(q)[i]
    <3>1. i + 1 \in 1..Len(q) /\ Tail(q)[i] = q[i + 1] /\ 1 \in 1..i
      BY <1>1
    <3>2. r < q[i + 1] /\ \A j \in 1..i : q[j] < q[i + 1]
      BY <1>3, <3>1 DEF Increasing
    <3>3. \A j \in 1..(i - 1) : Tail(q)[j] = q[j + 1] /\ j + 1 \in 1..i
      BY <1>1
    <3>4. QED
      BY <1>1, <3>1, <3>2, <3>3
  <2>2. QED
    BY <2>1 DEF Increasing
<1>4. ASSUME NEW e \in Nat, Below(q, r, e)
      PROVE  Below(Tail(q), r, e) /\ Below(Tail(q), Head(q), e)
  <2>1. \A k \in 1..Len(q) : q[k] < e
    BY <1>4 DEF Below
  <2>2. Head(q) < e
    BY <1>1, <2>1
  <2>3. ASSUME NEW i \in 1..Len(Tail(q)) PROVE Tail(q)[i] < e
    <3>1. i + 1 \in 1..Len(q) /\ Tail(q)[i] = q[i + 1]
      BY <1>1
    <3>2. QED
      BY <2>1, <3>1
  <2>4. QED
    BY <1>4, <2>2, <2>3 DEF Below
<1>5. QED
  BY <1>3, <1>4

\* An event that is newer than all others goes to the tail.
LEMMA PushOrder ==
    ASSUME NEW q \in Seq(Event), NEW r \in Nat, NEW e \in Event,
           Increasing(q, r), Below(q, r, e)
    PROVE  /\ Increasing(Append(q, e), r)
           /\ Below(Append(q, e), r, e + 1)
<1> DEFINE p == Append(q, e)
<1>1. /\ Len(p) = Len(q) + 1 /\ Len(q) \in Nat
      /\ \A k \in 1..Len(q) : p[k] = q[k]
      /\ p[Len(q) + 1] = e
  BY AppendFacts
<1>2. e \in Nat /\ \A k \in 1..Len(q) : q[k] \in Nat
  BY VNodeAssumption DEF Event
<1> HIDE DEF p
<1>3. r < e /\ \A k \in 1..Len(q) : q[k] < e
  BY DEF Below
<1>4. ASSUME NEW i \in 1..Len(p)
      PROVE  /\ r < p[i] /\ p[i] < e + 1
             /\ \A j \in 1..(i - 1) : p[j] < p[i]
  <2>1. CASE i = Len(q) + 1
    <3>1. \A j \in 1..(i - 1) : p[j] = q[j] /\ q[j] < e
      BY <1>1, <1>3, <2>1
    <3>2. QED
      BY <1>1, <1>2, <1>3, <2>1, <3>1
  <2>2. CASE i \in 1..Len(q)
    <3>1. p[i] = q[i] /\ \A j \in 1..(i - 1) : p[j] = q[j]
      BY <1>1, <2>2
    <3>2. r < q[i] /\ \A j \in 1..(i - 1) : q[j] < q[i]
      BY <2>2 DEF Increasing
    <3>3. q[i] < e + 1
      BY <1>2, <1>3, <2>2
    <3>4. QED
      BY <3>1, <3>2, <3>3
  <2>3. QED
    BY <1>1, <2>1, <2>2
<1>5. r < e + 1
  BY <1>2, <1>3
<1>6. QED
  BY <1>4, <1>5 DEF Increasing, Below, p

\* A later event is newer too.
LEMMA LaterOrder ==
    ASSUME NEW q \in Seq(Event), NEW r \in Nat, NEW e \in Nat, Below(q, r, e)
    PROVE  Below(q, r, e + 1)
<1>1. \A k \in 1..Len(q) : q[k] \in Nat
  BY VNodeAssumption DEF Event
<1>2. QED
  BY <1>1 DEF Below
\* Opening appends a client that is not in the list, destroying takes one out;
\* no other step changes the list.
LEMMA ListStep == TypeOK /\ ListInv /\ [Next]_vars => ListInv'
<1> SUFFICES ASSUME TypeOK, ListInv, [Next]_vars PROVE ListInv'
  OBVIOUS
<1> DEFINE n == Len(clientList)
<1>0. clientList \in Seq(Clients) /\ n \in Nat
  BY DEF TypeOK
<1>1. ASSUME NEW c \in Clients, HdfNewVNodeAdapterClient(c) PROVE ListInv'
  <2>1. /\ clientList' = Append(clientList, c) /\ file[c] = "closed"
        /\ file' = [file EXCEPT ![c] = "opening"]
    BY <1>1 DEF HdfNewVNodeAdapterClient
  <2>2. /\ Len(clientList') = n + 1 /\ clientList'[n + 1] = c
        /\ \A k \in 1..n : clientList'[k] = clientList[k]
    BY <1>0, <2>1, AppendFacts
  <2>3. \A k \in 1..n : clientList[k] # c
    BY <2>1 DEF ListInv
  <2> HIDE DEF n
  <2>4. ASSUME NEW i \in 1..(n + 1), NEW j \in 1..(n + 1),
               clientList'[i] = clientList'[j]
        PROVE  i = j
    <3>1. (i \in 1..n \/ i = n + 1) /\ (j \in 1..n \/ j = n + 1)
      BY <1>0
    <3>2. CASE i \in 1..n /\ j \in 1..n
      BY <2>2, <2>4, <3>2 DEF ListInv, n
    <3>3. QED
      BY <2>2, <2>3, <2>4, <3>1, <3>2
  <2>5. ASSUME NEW d \in Clients
        PROVE  file'[d] # "closed" <=> \E i \in 1..(n + 1) : clientList'[i] = d
    <3>1. CASE d = c
      <4>1. file'[d] = "opening"
        BY <2>1, <3>1 DEF TypeOK
      <4>2. n + 1 \in 1..(n + 1)
        BY <1>0
      <4>3. QED
        BY <2>2, <3>1, <4>1, <4>2
    <3>2. CASE d # c
      <4>1. file'[d] = file[d]
        BY <2>1, <3>2 DEF TypeOK
      <4>2. (\E i \in 1..(n + 1) : clientList'[i] = d)
               <=> \E i \in 1..n : clientList[i] = d
        BY <1>0, <2>2, <3>2
      <4>3. QED
        BY <4>1, <4>2 DEF ListInv, n
    <3>3. QED
      BY <3>1, <3>2
  <2>6. QED
    BY <2>2, <2>4, <2>5 DEF ListInv
<1>2. ASSUME NEW c \in Clients, HdfDestoryVNodeAdapterClient(c) PROVE ListInv'
  <2>1. PICK p \in 1..n :
           /\ clientList[p] = c
           /\ clientList' = SubSeq(clientList, 1, p - 1)
                               \o SubSeq(clientList, p + 1, Len(clientList))
    BY <1>2 DEF HdfDestoryVNodeAdapterClient
  <2>2. file' = [file EXCEPT ![c] = "closed"]
    BY <1>2 DEF HdfDestoryVNodeAdapterClient
  <2>3. /\ Len(clientList') = n - 1
        /\ \A k \in 1..(n - 1) :
              clientList'[k] = IF k < p THEN clientList[k] ELSE clientList[k + 1]
    BY <1>0, <2>1, RemoveFacts
  <2> HIDE DEF n
  <2>4. ASSUME NEW i \in 1..(n - 1), NEW j \in 1..(n - 1),
               clientList'[i] = clientList'[j]
        PROVE  i = j
    <3>1. \E a, b \in 1..n : /\ clientList[a] = clientList[b]
                             /\ a = (IF i < p THEN i ELSE i + 1)
                             /\ b = (IF j < p THEN j ELSE j + 1)
      BY <1>0, <2>3, <2>4
    <3>2. (IF i < p THEN i ELSE i + 1) = (IF j < p THEN j ELSE j + 1)
      BY <3>1 DEF ListInv, n
    <3>3. QED
      BY <1>0, <3>2
  <2>5. ASSUME NEW k \in 1..(n - 1) PROVE clientList'[k] # c
    <3>1. CASE k < p
      <4>1. k \in 1..n /\ k # p /\ clientList'[k] = clientList[k]
        BY <1>0, <2>3, <3>1
      <4>2. QED
        BY <2>1, <4>1 DEF ListInv, n
    <3>2. CASE ~(k < p)
      <4>1. k + 1 \in 1..n /\ k + 1 # p /\ clientList'[k] = clientList[k + 1]
        BY <1>0, <2>3, <3>2
      <4>2. QED
        BY <2>1, <4>1 DEF ListInv, n
    <3>3. QED
      BY <3>1, <3>2
  <2>6. ASSUME NEW d \in Clients
        PROVE  file'[d] # "closed" <=> \E i \in 1..(n - 1) : clientList'[i] = d
    <3>1. CASE d = c
      <4>1. file'[d] = "closed"
        BY <2>2, <3>1 DEF TypeOK
      <4>2. QED
        BY <2>5, <3>1, <4>1
    <3>2. CASE d # c
      <4>1. file'[d] = file[d]
        BY <2>2, <3>2 DEF TypeOK
      <4>2. ASSUME NEW i \in 1..(n - 1), clientList'[i] = d
            PROVE  \E k \in 1..n : clientList[k] = d
        BY <1>0, <2>3, <4>2
      <4>3. ASSUME NEW k \in 1..n, clientList[k] = d
            PROVE  \E i \in 1..(n - 1) : clientList'[i] = d
        <5>1. k # p
          BY <2>1, <3>2, <4>3
        <5>2. CASE k < p
          <6>1. k \in 1..(n - 1) /\ clientList'[k] = clientList[k]
            BY <1>0, <2>3, <5>2
          <6>2. QED
            BY <4>3, <6>1
        <5>3. CASE k > p
          <6>1. k - 1 \in 1..(n - 1) /\ ~(k - 1 < p) /\ (k - 1) + 1 = k
            BY <1>0, <5>3
          <6>2. clientList'[k - 1] = clientList[k]
            BY <2>3, <6>1
          <6>3. QED
            BY <4>3, <6>1, <6>2
        <5>4. QED
          BY <1>0, <5>1, <5>2, <5>3
      <4>4. QED
        BY <4>1, <4>2, <4>3 DEF ListInv, n
    <3>3. QED
      BY <3>1, <3>2
  <2>7. QED
    BY <2>3, <2>4, <2>6 DEF ListInv
<1>3. ASSUME UNCHANGED clientList, NEW c \in Clients, NEW f,
             file[c] # "closed", f # "closed",
             file' = [file EXCEPT ![c] = f]
      PROVE  ListInv'
  <2>1. \A d \in Clients : file'[d] # "closed" <=> file[d] # "closed"
    BY <1>3 DEF TypeOK
  <2>2. QED
    BY <1>3, <2>1 DEF ListInv
<1>4. CASE UNCHANGED <<clientList, file>>
  BY <1>4 DEF ListInv
<1>5. ASSUME NEW c \in Clients, HdfVNodeAdapterOpen(c) \/ HdfVNodeAdapterClose(c)
      PROVE  ListInv'
  <2>1. /\ UNCHANGED clientList /\ file[c] # "closed"
        /\ \/ file' = [file EXCEPT ![c] = "open"]
           \/ file' = [file EXCEPT ![c] = "destroying"]
    BY <1>5 DEF HdfVNodeAdapterOpen, HdfVNodeAdapterClose, Usable
  <2>2. QED
    BY <1>3, <2>1
<1>6. ASSUME NEW c \in Clients,
             \/ HdfVNodeAdapterClientStartListening(c)
             \/ HdfVNodeAdapterClientStopListening(c)
             \/ HdfVNodeAdapterClientExitListening(c)
             \/ HdfVNodeAdapterClientWakeup(c) \/ HdfVNodeAdapterPoll(c)
             \/ HdfVNodeAdapterReadDevEvent(c)
      PROVE  UNCHANGED <<clientList, file>>
  BY <1>6 DEF HdfVNodeAdapterClientStartListening, HdfVNodeAdapterClientStopListening,
       HdfVNodeAdapterClientExitListening, HdfVNodeAdapterClientWakeup,
       HdfVNodeAdapterPoll, HdfVNodeAdapterReadDevEvent
<1>7. ASSUME NEW t \in Clients \cup {All}, HdfDeviceSendEvent(t)
      PROVE  UNCHANGED <<clientList, file>>
  BY <1>7 DEF HdfDeviceSendEvent, kernelVars
<1>8. SendStep => UNCHANGED <<clientList, file>>
  BY DEF SendStep, SkipClient, VNodeAdapterSendDevEventToClient, SendOutOfMemory,
       SendDropsListHead, SendReturn, kernelVars
<1>9. UNCHANGED vars => UNCHANGED <<clientList, file>>
  BY DEF vars
<1>10. QED
  BY <1>1, <1>2, <1>4, <1>5, <1>6, <1>7, <1>8, <1>9 DEF Next, UserStep
\* A user's step keeps what the clients have in order; so does a drop.
LEMMA UserKeeps ==
    ASSUME TypeOK, NEW c \in Clients, UserStep(c)
    PROVE  \A d \in Clients : Kept(d)
<1>0. /\ eventQueue[c] \in Seq(Event) /\ lastRead[c] \in Nat
      /\ \A d \in Clients : lastRead[d] \in Nat
  BY VNodeAssumption DEF TypeOK
<1>1. CASE UNCHANGED <<eventQueue, lastRead>>
  BY <1>1 DEF Kept
<1>2. ASSUME eventQueue' = [eventQueue EXCEPT ![c] = <<>>],
             lastRead' = lastRead \/ lastRead' = [lastRead EXCEPT ![c] = 0]
      PROVE  \A d \in Clients : Kept(d)
  <2>1. \A d \in Clients : d # c => eventQueue'[d] = eventQueue[d]
                                    /\ lastRead'[d] = lastRead[d]
    BY <1>2 DEF TypeOK
  <2>2. eventQueue'[c] = <<>> /\ lastRead'[c] \in {0, lastRead[c]}
    BY <1>2 DEF TypeOK
  <2>3. Increasing(eventQueue'[c], lastRead'[c])
    BY <1>0, <2>2, EmptyOrder
  <2>4. ASSUME NEW e \in Nat \ {0}, Below(eventQueue[c], lastRead[c], e)
        PROVE  Below(eventQueue'[c], lastRead'[c], e)
    <3>1. lastRead'[c] \in Nat /\ lastRead'[c] < e
      BY <1>0, <2>2, <2>4 DEF Below
    <3>2. QED
      BY <2>2, <3>1, EmptyOrder
  <2>5. QED
    BY <2>1, <2>3, <2>4 DEF Kept
<1>3. CASE HdfVNodeAdapterReadDevEvent(c)
  <2>1. /\ eventQueue[c] # <<>>
        /\ lastRead' = [lastRead EXCEPT ![c] = Head(eventQueue[c])]
        /\ eventQueue' = [eventQueue EXCEPT ![c] = Tail(@)]
    BY <1>3 DEF HdfVNodeAdapterReadDevEvent
  <2>2. \A d \in Clients : d # c => eventQueue'[d] = eventQueue[d]
                                    /\ lastRead'[d] = lastRead[d]
    BY <2>1 DEF TypeOK
  <2>3. eventQueue'[c] = Tail(eventQueue[c]) /\ lastRead'[c] = Head(eventQueue[c])
    BY <2>1 DEF TypeOK
  <2>4. Kept(c)
    <3>1. Increasing(eventQueue[c], lastRead[c])
             => Increasing(Tail(eventQueue[c]), Head(eventQueue[c]))
      BY <1>0, <2>1, PopOrder
    <3>2. \A e \in Nat : Below(eventQueue[c], lastRead[c], e)
             => Below(Tail(eventQueue[c]), Head(eventQueue[c]), e)
      BY <1>0, <2>1, PopOrder
    <3>3. QED
      BY <2>3, <3>1, <3>2 DEF Kept
  <2>5. QED
    BY <2>2, <2>4 DEF Kept
<1>4. \/ UNCHANGED <<eventQueue, lastRead>>
      \/ /\ eventQueue' = [eventQueue EXCEPT ![c] = <<>>]
         /\ lastRead' = lastRead \/ lastRead' = [lastRead EXCEPT ![c] = 0]
      \/ HdfVNodeAdapterReadDevEvent(c)
  BY DEF UserStep, HdfNewVNodeAdapterClient, HdfVNodeAdapterOpen, HdfVNodeAdapterClose,
       HdfDestoryVNodeAdapterClient, HdfVNodeAdapterClientStartListening,
       HdfVNodeAdapterClientStopListening, HdfVNodeAdapterClientExitListening,
       HdfVnodeCleanEventQueue, HdfVNodeAdapterClientWakeup, HdfVNodeAdapterPoll, histVars
<1>5. QED
  BY <1>1, <1>2, <1>3, <1>4

\* What the overflow test leaves is in order.
LEMMA DropOrder ==
    ASSUME TypeOK, NEW c \in Clients, ~DropsListHead(c)
    PROVE  /\ Increasing(eventQueue[c], lastRead[c])
                 => Increasing(QueueAfterDrop(c), lastRead[c])
           /\ \A e \in Nat : Below(eventQueue[c], lastRead[c], e)
                 => Below(QueueAfterDrop(c), lastRead[c], e)
<1>1. eventQueue[c] \in Seq(Event) /\ lastRead[c] \in Nat
  BY VNodeAssumption DEF TypeOK
<1>2. CASE QueueAfterDrop(c) = eventQueue[c]
  BY <1>2
<1>3. CASE eventQueue[c] # <<>> /\ QueueAfterDrop(c) = Tail(eventQueue[c])
  BY <1>1, <1>3, PopOrder
<1>4. QED
  BY <1>2, <1>3, DropFacts

\* Running out of memory keeps the clients' queues in order.
LEMMA NoMemoryKeeps ==
    ASSUME TypeOK, SendOutOfMemory
    PROVE  \A d \in Clients : Kept(d)
<1> DEFINE c == Visited
<1>1. c \in Clients /\ ~DropsListHead(c)
  BY VisitedFacts DEF SendOutOfMemory
<1>2. /\ eventQueue' = [eventQueue EXCEPT ![c] = QueueAfterDrop(c)]
      /\ UNCHANGED lastRead
  BY DEF SendOutOfMemory, histVars
<1> HIDE DEF c
<1>3. eventQueue'[c] = QueueAfterDrop(c) /\ lastRead'[c] = lastRead[c]
  BY <1>1, <1>2 DEF TypeOK
<1>4. \A d \in Clients : d # c => eventQueue'[d] = eventQueue[d]
                                  /\ lastRead'[d] = lastRead[d]
  BY <1>2 DEF TypeOK
<1>5. Kept(c)
  BY <1>1, <1>3, DropOrder DEF Kept
<1>6. QED
  BY <1>4, <1>5 DEF Kept

\* Moving on keeps the event and the target of a walk.
LEMMA WalkMoves ==
    ASSUME NEW w \in Walk
    PROVE  /\ [w EXCEPT !.pos = @ + 1].ev = w.ev
           /\ [w EXCEPT !.pos = @ + 1].pos = w.pos + 1
           /\ [w EXCEPT !.pos = @ + 1].target = w.target
           /\ [w EXCEPT !.ret = "NO_MEMORY"].ev = w.ev
           /\ [w EXCEPT !.ret = "NO_MEMORY"].pos = w.pos
           /\ [w EXCEPT !.ret = "NO_MEMORY"].target = w.target
           /\ [w EXCEPT !.pos = @ + 1, !.ret = "SUCCESS"].ev = w.ev
           /\ [w EXCEPT !.pos = @ + 1, !.ret = "SUCCESS"].pos = w.pos + 1
           /\ [w EXCEPT !.pos = @ + 1, !.ret = "SUCCESS"].target = w.target
  BY DEF Walk
\* The steps that hand no event to a client: all queues are kept, and the walk
\* stays, begins, moves on or ends.
LEMMA KeptSteps ==
    ASSUME TypeOK, [Next]_vars, ~VNodeAdapterSendDevEventToClient
    PROVE  /\ \A d \in Clients : Kept(d)
           /\ \/ /\ UNCHANGED <<send, lastEvent>>
                 /\ clientList' = clientList \/ send = NoSend
              \/ \E t \in Clients \cup {All} : HdfDeviceSendEvent(t)
              \/ /\ UNCHANGED <<lastEvent, clientList>> /\ send' = NoSend
              \/ /\ UNCHANGED <<lastEvent, clientList>> /\ Walking
                 /\ \/ send' = [send EXCEPT !.pos = @ + 1]
                    \/ send' = [send EXCEPT !.pos = @ + 1, !.ret = "SUCCESS"]
                    \/ send' = [send EXCEPT !.ret = "NO_MEMORY"]
<1>1. UNCHANGED <<eventQueue, lastRead>> => \A d \in Clients : Kept(d)
  BY DEF Kept
<1>2. ASSUME NEW c \in Clients, UserStep(c)
      PROVE  /\ UNCHANGED <<send, lastEvent>>
             /\ clientList' = clientList \/ send = NoSend
  BY <1>2 DEF UserStep, HdfNewVNodeAdapterClient, HdfVNodeAdapterOpen,
       HdfVNodeAdapterClose, HdfDestoryVNodeAdapterClient,
       HdfVNodeAdapterClientStartListening, HdfVNodeAdapterClientStopListening,
       HdfVNodeAdapterClientExitListening, HdfVNodeAdapterClientWakeup,
       HdfVNodeAdapterPoll, HdfVNodeAdapterReadDevEvent, AdapterMutexFree
<1>3. ASSUME NEW t \in Clients \cup {All}, HdfDeviceSendEvent(t)
      PROVE  UNCHANGED <<eventQueue, lastRead>>
  BY <1>3 DEF HdfDeviceSendEvent, kernelVars
<1>4. ASSUME SkipClient
      PROVE  /\ UNCHANGED <<eventQueue, lastRead, lastEvent, clientList>> /\ Walking
             /\ \/ send' = [send EXCEPT !.pos = @ + 1]
                \/ send' = [send EXCEPT !.pos = @ + 1, !.ret = "SUCCESS"]
  BY <1>4 DEF SkipClient, kernelVars, histVars
<1>5. ASSUME SendOutOfMemory
      PROVE  /\ UNCHANGED <<lastEvent, clientList>> /\ Walking
             /\ send' = [send EXCEPT !.ret = "NO_MEMORY"]
  BY <1>5 DEF SendOutOfMemory, LeaveWalk
<1>6. ASSUME SendDropsListHead
      PROVE  UNCHANGED <<eventQueue, lastRead, send, lastEvent, clientList>>
  BY <1>6 DEF SendDropsListHead, kernelVars, histVars
<1>7. ASSUME SendReturn
      PROVE  /\ UNCHANGED <<eventQueue, lastRead, lastEvent, clientList>>
             /\ send' = NoSend
  BY <1>7 DEF SendReturn, kernelVars
<1>8. UNCHANGED vars => UNCHANGED <<eventQueue, lastRead, send, lastEvent, clientList>>
  BY DEF vars
<1>9. QED
  BY <1>1, <1>2, <1>3, <1>4, <1>5, <1>6, <1>7, <1>8, UserKeeps, NoMemoryKeeps
     DEF Next, SendStep

\* Every step keeps the order.
LEMMA OrderStep ==
    TypeOK /\ QueueBounded /\ OrderInv /\ [Next]_vars => OrderInv'
<1> SUFFICES ASSUME TypeOK, QueueBounded, OrderInv, [Next]_vars PROVE OrderInv'
  OBVIOUS
<1>1. ListInv'
  BY ListStep DEF OrderInv
<1>2. ReadInSendOrder <=> \A c \in Clients : Increasing(eventQueue[c], lastRead[c])
  BY DEF ReadInSendOrder, Increasing
<1>3. ReadInSendOrder' <=> \A c \in Clients : Increasing(eventQueue'[c], lastRead'[c])
  BY DEF ReadInSendOrder, Increasing
<1>4. TypeOK'
  BY TypeStep
<1>5. /\ lastEvent \in Nat /\ clientList \in Seq(Clients)
      /\ \A c \in Clients : /\ eventQueue[c] \in Seq(Event) /\ lastRead[c] \in Nat
                            /\ eventQueue'[c] \in Seq(Event) /\ lastRead'[c] \in Nat
      /\ \A k \in 1..Len(clientList) : clientList[k] \in Clients
  BY <1>4, VNodeAssumption DEF TypeOK
<1>6. send # NoSend => send \in Walk /\ send.ev \in Nat \ {0} /\ send.pos \in Nat
  <2>1. send # NoSend => send \in Walk
    BY DEF TypeOK, SendState
  <2>2. send # NoSend => send.ev \in Event /\ send.pos \in Nat \ {0}
    BY <2>1, WalkFacts
  <2>3. Event \subseteq Nat \ {0}
    BY VNodeAssumption DEF Event
  <2>4. QED
    BY <2>1, <2>2, <2>3
<1>7. CASE ~VNodeAdapterSendDevEventToClient
  <2>1. \A d \in Clients : Kept(d)
    BY <1>7, KeptSteps
  <2>2. ReadInSendOrder'
    BY <1>2, <1>3, <2>1 DEF Kept, OrderInv
  <2>3. \A c \in Clients : Below(eventQueue'[c], lastRead'[c], lastEvent + 1)
    <3>1. lastEvent + 1 \in Nat \ {0}
      BY <1>5
    <3>2. QED
      BY <2>1, <3>1 DEF Kept, OrderInv, NotNewer
  <2>4. ASSUME UNCHANGED <<send, lastEvent>>, clientList' = clientList \/ send = NoSend
        PROVE  (SendInv /\ NotNewer /\ AheadInv)'
    <3>1. SendInv' /\ NotNewer'
      BY <2>3, <2>4 DEF OrderInv, SendInv, NotNewer
    <3>2. AheadInv'
      BY <1>5, <1>6, <2>1, <2>4 DEF OrderInv, AheadInv, Kept
    <3>3. QED
      BY <3>1, <3>2
  <2>5. ASSUME NEW t \in Clients \cup {All}, HdfDeviceSendEvent(t)
        PROVE  (SendInv /\ NotNewer /\ AheadInv)'
    <3>1. /\ lastEvent' = lastEvent + 1
          /\ send' = [ev |-> lastEvent + 1, target |-> t, pos |-> 1, ret |-> "FAILURE"]
          /\ UNCHANGED clientList
      BY <2>5 DEF HdfDeviceSendEvent, kernelVars
    <3>2. send'.ev = lastEvent + 1
      BY <3>1
    <3>3. SendInv'
      BY <3>1, <3>2 DEF SendInv
    <3>4. NotNewer'
      <4>1. ASSUME NEW c \in Clients
            PROVE  Below(eventQueue'[c], lastRead'[c], (lastEvent + 1) + 1)
        <5>1. lastEvent + 1 \in Nat
          BY <1>5
        <5>2. QED
          BY <1>5, <2>3, <5>1, LaterOrder
      <4>2. QED
        BY <3>1, <4>1 DEF NotNewer
    <3>5. AheadInv'
      BY <1>5, <2>3, <3>1, <3>2 DEF AheadInv
    <3>6. QED
      BY <3>3, <3>4, <3>5
  <2>6. ASSUME UNCHANGED <<lastEvent, clientList>>, send' = NoSend
        PROVE  (SendInv /\ NotNewer /\ AheadInv)'
    BY <2>3, <2>6 DEF SendInv, NotNewer, AheadInv
  <2>7. ASSUME UNCHANGED <<lastEvent, clientList>>, Walking,
               \/ send' = [send EXCEPT !.pos = @ + 1]
               \/ send' = [send EXCEPT !.pos = @ + 1, !.ret = "SUCCESS"]
               \/ send' = [send EXCEPT !.ret = "NO_MEMORY"]
        PROVE  (SendInv /\ NotNewer /\ AheadInv)'
    <3>1. send # NoSend /\ send \in Walk
      BY <1>6, <2>7 DEF Walking
    <3>2. send'.ev = send.ev /\ send'.pos \in {send.pos, send.pos + 1}
      BY <2>7, <3>1, WalkMoves
    <3>3. SendInv' /\ NotNewer'
      BY <2>3, <2>7, <3>1, <3>2 DEF OrderInv, SendInv, NotNewer
    <3>4. ASSUME NEW k \in 1..Len(clientList), k >= send'.pos
          PROVE  Below(eventQueue'[clientList[k]], lastRead'[clientList[k]], send.ev)
      <4>1. k >= send.pos
        BY <1>6, <3>1, <3>2, <3>4
      <4>2. Below(eventQueue[clientList[k]], lastRead[clientList[k]], send.ev)
        BY <3>1, <4>1 DEF OrderInv, AheadInv
      <4>3. QED
        BY <1>5, <1>6, <2>1, <3>1, <4>2 DEF Kept
    <3>5. AheadInv'
      BY <2>7, <3>2, <3>4 DEF AheadInv
    <3>6. QED
      BY <3>3, <3>5
  <2>8. QED
    BY <1>1, <1>7, <2>2, <2>4, <2>5, <2>6, <2>7, KeptSteps DEF OrderInv
<1>8. CASE VNodeAdapterSendDevEventToClient
  <2> DEFINE c == Visited
             e == send.ev
  <2>1. /\ c \in Clients /\ ~DropsListHead(c) /\ e \in Event /\ send \in Walk
        /\ send.pos \in 1..Len(clientList) /\ c = clientList[send.pos]
        /\ send # NoSend
    BY <1>8, VisitedFacts DEF VNodeAdapterSendDevEventToClient, Walking
  <2>2. /\ eventQueue' = [eventQueue EXCEPT ![c] = Append(QueueAfterDrop(c), e)]
        /\ send' = [send EXCEPT !.pos = @ + 1, !.ret = "SUCCESS"]
        /\ UNCHANGED <<clientList, lastEvent, lastRead>>
    BY <1>8 DEF VNodeAdapterSendDevEventToClient, InsertTail
  <2>3. send'.ev = e /\ send'.pos = send.pos + 1 /\ e = lastEvent
    BY <2>1, <2>2, WalkMoves DEF OrderInv, SendInv
  <2>4. Below(eventQueue[c], lastRead[c], e)
    <3>1. send.pos >= send.pos
      BY <1>6, <2>1
    <3>2. QED
      BY <2>1, <3>1 DEF OrderInv, AheadInv
  <2> HIDE DEF c, e
  <2>5. eventQueue'[c] = Append(QueueAfterDrop(c), e) /\ lastRead'[c] = lastRead[c]
    BY <2>1, <2>2 DEF TypeOK
  <2>6. \A d \in Clients : d # c => eventQueue'[d] = eventQueue[d]
                                    /\ lastRead'[d] = lastRead[d]
    BY <2>2 DEF TypeOK
  <2>7. /\ Increasing(QueueAfterDrop(c), lastRead[c])
        /\ Below(QueueAfterDrop(c), lastRead[c], e)
        /\ QueueAfterDrop(c) \in Seq(Event)
    <3>1. e \in Nat
      BY <1>5, <2>3
    <3>2. Increasing(eventQueue[c], lastRead[c])
      BY <1>2, <2>1 DEF OrderInv
    <3>3. QED
      BY <2>1, <2>4, <3>1, <3>2, DropOrder, DropFacts
  <2>8. /\ Increasing(eventQueue'[c], lastRead'[c])
        /\ Below(eventQueue'[c], lastRead'[c], e + 1)
    <3>1. lastRead[c] \in Nat
      BY <1>5, <2>1
    <3>2. QED
      BY <2>1, <2>5, <2>7, <3>1, PushOrder
  <2>9. ReadInSendOrder'
    BY <1>2, <1>3, <2>6, <2>8 DEF OrderInv
  <2>10. NotNewer'
    BY <2>2, <2>3, <2>6, <2>8 DEF OrderInv, NotNewer
  <2>11. SendInv'
    BY <2>2, <2>3 DEF SendInv
  <2>12. ASSUME NEW k \in 1..Len(clientList), k >= send.pos + 1
         PROVE  Below(eventQueue'[clientList[k]], lastRead'[clientList[k]], e)
    <3>1. k >= send.pos /\ k # send.pos
      BY <1>6, <2>1, <2>12
    <3>2. clientList[k] # c /\ clientList[k] \in Clients
      BY <1>5, <2>1, <3>1 DEF OrderInv, ListInv
    <3>3. Below(eventQueue[clientList[k]], lastRead[clientList[k]], e)
      BY <2>1, <3>1 DEF OrderInv, AheadInv, e
    <3>4. QED
      BY <2>6, <3>2, <3>3
  <2>13. AheadInv'
    BY <2>2, <2>3, <2>12 DEF AheadInv
  <2>14. QED
    BY <1>1, <2>9, <2>10, <2>11, <2>13 DEF OrderInv
<1>9. QED
  BY <1>7, <1>8

\* A file reads the events in the order in which they were sent and none twice,
\* whatever is dropped, discarded or sent meanwhile, for any number of files and
\* events (VNodeAdapterSendDevEventToClient, HdfVNodeAdapterReadDevEvent).
THEOREM ReadInSendOrderThm == Spec => []ReadInSendOrder
<1>1. Init => OrderInv
  <2> SUFFICES ASSUME Init PROVE OrderInv
    OBVIOUS
  <2>1. ListInv /\ SendInv /\ AheadInv
    BY DEF Init, ListInv, SendInv, AheadInv
  <2>2. NotNewer
    BY EmptyOrder DEF Init, NotNewer
  <2>3. ReadInSendOrder
    BY DEF Init, ReadInSendOrder
  <2>4. QED
    BY <2>1, <2>2, <2>3 DEF OrderInv
<1>2. TypeOK /\ QueueBounded /\ OrderInv /\ [Next]_vars => OrderInv'
  BY OrderStep
<1>3. OrderInv => ReadInSendOrder
  BY DEF OrderInv
<1>4. Spec => [](TypeOK /\ QueueBounded)
  BY QueueBoundedThm
<1>5. QED
  BY <1>1, <1>2, <1>3, <1>4, PTL DEF Spec
(***************************************************************************)
(* Broadcasts.  The invariant is about the clients behind the walk.        *)
(***************************************************************************)
\* A client whose Open callback is still running does not listen.
OpeningInv == \A c \in Clients : file[c] = "opening" => status[c] # "LISTENING"

\* The event reached client c, or c need not be reached.
Served(c) == \/ c \in reached \cup late
             \/ file[c] # "open"
             \/ status[c] # "LISTENING"

\* The clients behind the walk's position are served.
BehindInv ==
    send # NoSend /\ send.target = All =>
        \A k \in 1..Len(clientList) : k < send.pos => Served(clientList[k])

\* Listening begins on open files only.
LEMMA OpeningStep == TypeOK /\ OpeningInv /\ [Next]_vars => OpeningInv'
<1> SUFFICES ASSUME TypeOK, OpeningInv, [Next]_vars PROVE OpeningInv'
  OBVIOUS
<1> USE DEF OpeningInv
<1>1. CASE UNCHANGED <<status, file>>
  BY <1>1
<1>2. ASSUME NEW c \in Clients, HdfNewVNodeAdapterClient(c) PROVE OpeningInv'
  BY <1>2 DEF HdfNewVNodeAdapterClient, TypeOK
<1>3. ASSUME NEW c \in Clients, HdfVNodeAdapterOpen(c) PROVE OpeningInv'
  BY <1>3 DEF HdfVNodeAdapterOpen, TypeOK
<1>4. ASSUME NEW c \in Clients, HdfVNodeAdapterClose(c) PROVE OpeningInv'
  BY <1>4 DEF HdfVNodeAdapterClose, TypeOK
<1>5. ASSUME NEW c \in Clients, HdfDestoryVNodeAdapterClient(c) PROVE OpeningInv'
  <2>1. file' = [file EXCEPT ![c] = "closed"] /\ UNCHANGED status
    BY <1>5 DEF HdfDestoryVNodeAdapterClient
  <2>2. QED
    BY <2>1 DEF TypeOK
<1>6. ASSUME NEW c \in Clients, HdfVNodeAdapterClientStartListening(c)
      PROVE  OpeningInv'
  BY <1>6 DEF HdfVNodeAdapterClientStartListening, Usable, TypeOK
<1>7. ASSUME NEW c \in Clients,
             \/ HdfVNodeAdapterClientStopListening(c)
             \/ HdfVNodeAdapterClientExitListening(c)
      PROVE  OpeningInv'
  BY <1>7 DEF HdfVNodeAdapterClientStopListening, HdfVNodeAdapterClientExitListening,
       TypeOK
<1>8. ASSUME NEW c \in Clients,
             \/ HdfVNodeAdapterClientWakeup(c) \/ HdfVNodeAdapterPoll(c)
             \/ HdfVNodeAdapterReadDevEvent(c)
      PROVE  UNCHANGED <<status, file>>
  BY <1>8 DEF HdfVNodeAdapterClientWakeup, HdfVNodeAdapterPoll,
       HdfVNodeAdapterReadDevEvent
<1>9. ASSUME NEW t \in Clients \cup {All}, HdfDeviceSendEvent(t)
      PROVE  UNCHANGED <<status, file>>
  BY <1>9 DEF HdfDeviceSendEvent, kernelVars
<1>10. SendStep => UNCHANGED <<status, file>>
  BY DEF SendStep, SkipClient, VNodeAdapterSendDevEventToClient, SendOutOfMemory,
       SendDropsListHead, SendReturn, kernelVars
<1>11. UNCHANGED vars => UNCHANGED <<status, file>>
  BY DEF vars
<1>12. QED
  BY <1>1, <1>2, <1>3, <1>4, <1>5, <1>6, <1>7, <1>8, <1>9, <1>10, <1>11
     DEF Next, UserStep

\* During a send a user's step leaves a client that is served served: one that
\* begins to listen is late.
LEMMA UserServes ==
    ASSUME TypeOK, OpeningInv, NEW c \in Clients, UserStep(c), send # NoSend
    PROVE  /\ UNCHANGED <<send, clientList>>
           /\ \A d \in Clients : Served(d) => Served(d)'
<1> USE DEF Served
<1>1. CASE HdfVNodeAdapterOpen(c)
  <2>1. /\ UNCHANGED <<send, clientList, reached, late>> /\ file[c] = "opening"
        /\ \/ file' = [file EXCEPT ![c] = "open"] /\ UNCHANGED status
           \/ /\ file' = [file EXCEPT ![c] = "destroying"]
              /\ status' = [status EXCEPT ![c] = "STOPPED"]
    BY <1>1 DEF HdfVNodeAdapterOpen, histVars
  <2>2. status[c] # "LISTENING"
    BY <2>1 DEF OpeningInv
  <2>3. QED
    BY <2>1, <2>2 DEF TypeOK
<1>2. CASE HdfVNodeAdapterClose(c)
  BY <1>2 DEF HdfVNodeAdapterClose, histVars, TypeOK
<1>3. CASE HdfVNodeAdapterClientStartListening(c)
  <2>1. /\ UNCHANGED <<send, clientList, reached, file>>
        /\ status' = [status EXCEPT ![c] = "LISTENING"]
        /\ late' = IF status[c] = "LISTENING" THEN late ELSE late \cup {c}
    BY <1>3 DEF HdfVNodeAdapterClientStartListening, AdapterMutexFree
  <2>2. QED
    BY <2>1 DEF TypeOK
<1>4. CASE \/ HdfVNodeAdapterClientStopListening(c)
           \/ HdfVNodeAdapterClientExitListening(c)
  <2>1. /\ UNCHANGED <<send, clientList, reached, late, file>>
        /\ \/ status' = [status EXCEPT ![c] = "STOPPED"]
           \/ status' = [status EXCEPT ![c] = "EXITED"]
    BY <1>4 DEF HdfVNodeAdapterClientStopListening, HdfVNodeAdapterClientExitListening,
         histVars
  <2>2. QED
    BY <2>1 DEF TypeOK
<1>5. CASE \/ HdfVNodeAdapterClientWakeup(c) \/ HdfVNodeAdapterPoll(c)
           \/ HdfVNodeAdapterReadDevEvent(c)
  BY <1>5 DEF HdfVNodeAdapterClientWakeup, HdfVNodeAdapterPoll,
       HdfVNodeAdapterReadDevEvent, histVars
<1>6. ~HdfNewVNodeAdapterClient(c) /\ ~HdfDestoryVNodeAdapterClient(c)
  BY DEF HdfNewVNodeAdapterClient, HdfDestoryVNodeAdapterClient, AdapterMutexFree
<1>7. QED
  BY <1>1, <1>2, <1>3, <1>4, <1>5, <1>6 DEF UserStep

\* The walk of a broadcast leaves every client it passes served.
LEMMA BehindStep ==
    TypeOK /\ OpeningInv /\ BehindInv /\ [Next]_vars => BehindInv'
<1> SUFFICES ASSUME TypeOK, OpeningInv, BehindInv, [Next]_vars PROVE BehindInv'
  OBVIOUS
<1>0. /\ clientList \in Seq(Clients)
      /\ \A k \in 1..Len(clientList) : clientList[k] \in Clients
      /\ send # NoSend => send \in Walk
  BY DEF TypeOK, SendState
<1>1. ASSUME NEW c \in Clients, UserStep(c) PROVE BehindInv'
  <2>1. CASE send = NoSend
    <3>1. send' = NoSend
      BY <1>1, <2>1 DEF UserStep, HdfNewVNodeAdapterClient, HdfVNodeAdapterOpen,
       HdfVNodeAdapterClose, HdfDestoryVNodeAdapterClient,
       HdfVNodeAdapterClientStartListening, HdfVNodeAdapterClientStopListening,
       HdfVNodeAdapterClientExitListening, HdfVNodeAdapterClientWakeup,
       HdfVNodeAdapterPoll, HdfVNodeAdapterReadDevEvent
    <3>2. QED
      BY <3>1 DEF BehindInv
  <2>2. CASE send # NoSend
    <3>1. /\ UNCHANGED <<send, clientList>>
          /\ \A d \in Clients : Served(d) => Served(d)'
      BY <1>1, <2>2, UserServes
    <3>2. ASSUME send.target = All, NEW k \in 1..Len(clientList), k < send.pos
          PROVE  Served(clientList[k])'
      <4>1. Served(clientList[k]) /\ clientList[k] \in Clients
        BY <1>0, <2>2, <3>2 DEF BehindInv
      <4>2. clientList'[k] = clientList[k]
        BY <3>1
      <4>3. PICK d \in Clients : d = clientList[k]
        BY <4>1
      <4>4. Served(d)'
        BY <3>1, <4>1, <4>3
      <4>5. QED
        BY <4>2, <4>3, <4>4 DEF Served
    <3>3. QED
      BY <3>1, <3>2 DEF BehindInv
  <2>3. QED
    BY <2>1, <2>2
<1>2. ASSUME NEW t \in Clients \cup {All}, HdfDeviceSendEvent(t) PROVE BehindInv'
  <2>1. send'.pos = 1
    BY <1>2 DEF HdfDeviceSendEvent
  <2>2. \A k \in 1..Len(clientList') : ~(k < send'.pos)
    BY <2>1
  <2>3. QED
    BY <2>2 DEF BehindInv
<1>3. CASE SkipClient \/ VNodeAdapterSendDevEventToClient
  <2>1. /\ UNCHANGED <<clientList, file, status, late>> /\ Walking
        /\ \/ send' = [send EXCEPT !.pos = @ + 1]
           \/ send' = [send EXCEPT !.pos = @ + 1, !.ret = "SUCCESS"]
        /\ reached \subseteq reached'
    BY <1>3 DEF SkipClient, VNodeAdapterSendDevEventToClient, kernelVars, histVars
  <2>2. send.target = All => status[Visited] # "LISTENING" \/ Visited \in reached'
    BY <1>3 DEF SkipClient, VNodeAdapterSendDevEventToClient, TakesEvents
  <2>3. /\ send # NoSend /\ send \in Walk /\ send.pos \in 1..Len(clientList)
        /\ Visited = clientList[send.pos]
    BY <2>1, VisitedFacts DEF Walking
  <2>4. send'.pos = send.pos + 1 /\ send'.target = send.target
    BY <2>1, <2>3, WalkMoves
  <2>5. ASSUME send.target = All, NEW k \in 1..Len(clientList), k < send.pos + 1
        PROVE  Served(clientList[k])'
    <3>1. k < send.pos \/ k = send.pos
      BY <2>3, <2>5
    <3>2. CASE k = send.pos
      BY <2>1, <2>2, <2>3, <2>5, <3>2 DEF Served
    <3>3. CASE k < send.pos
      BY <2>1, <2>3, <2>5, <3>3 DEF BehindInv, Served
    <3>4. QED
      BY <3>1, <3>2, <3>3
  <2>6. QED
    BY <2>1, <2>4, <2>5 DEF BehindInv
<1>4. CASE SendOutOfMemory
  <2>1. /\ UNCHANGED <<clientList, file, status, reached, late>> /\ Walking
        /\ send' = [send EXCEPT !.ret = "NO_MEMORY"]
    BY <1>4 DEF SendOutOfMemory, LeaveWalk, histVars
  <2>2. send # NoSend /\ send'.pos = send.pos /\ send'.target = send.target
    BY <1>0, <2>1, WalkMoves DEF Walking
  <2>3. QED
    BY <2>1, <2>2 DEF BehindInv, Served
<1>5. CASE SendDropsListHead \/ UNCHANGED vars
  <2>1. UNCHANGED <<clientList, file, status, reached, late, send>>
    BY <1>5 DEF SendDropsListHead, kernelVars, histVars, vars
  <2>2. QED
    BY <2>1 DEF BehindInv, Served
<1>6. CASE SendReturn
  BY <1>6 DEF SendReturn, BehindInv
<1>7. QED
  BY <1>1, <1>2, <1>3, <1>4, <1>5, <1>6 DEF Next, SendStep

\* A broadcast that ends with HDF_SUCCESS has reached every client that was
\* listening when it began and still is, for any number of clients that start,
\* stop and close during the walk (HdfVNodeAdapterSendDevEvent).
THEOREM BroadcastThm == Spec => []BroadcastReachesListeners
<1>1. Init => ListInv /\ OpeningInv /\ BehindInv
  BY DEF Init, ListInv, OpeningInv, BehindInv
<1>2. TypeOK /\ ListInv /\ OpeningInv /\ BehindInv /\ [Next]_vars
          => (ListInv /\ OpeningInv /\ BehindInv)'
  BY ListStep, OpeningStep, BehindStep
<1>3. TypeOK /\ ListInv /\ BehindInv => BroadcastReachesListeners
  <2> SUFFICES ASSUME TypeOK, ListInv, BehindInv, WalkOver, send.ret = "SUCCESS",
                      send.target = All, NEW c \in Clients, file[c] = "open",
                      status[c] = "LISTENING", c \notin late
               PROVE  c \in reached
    BY DEF BroadcastReachesListeners
  <2>1. PICK k \in 1..Len(clientList) : clientList[k] = c
    BY DEF ListInv
  <2>2. send # NoSend /\ send.pos > Len(clientList)
    BY DEF WalkOver
  <2>3. send.pos \in Nat /\ Len(clientList) \in Nat
    <3>1. send \in Walk
      BY <2>2 DEF TypeOK, SendState
    <3>2. send.pos \in Nat \ {0}
      BY <3>1, WalkFacts
    <3>3. Len(clientList) \in Nat
      BY DEF TypeOK
    <3>4. QED
      BY <3>2, <3>3
  <2>4. Served(clientList[k])
    BY <2>2, <2>3 DEF BehindInv
  <2>5. QED
    BY <2>1, <2>4 DEF Served
<1>4. Spec => [](TypeOK /\ QueueBounded)
  BY QueueBoundedThm
<1>5. QED
  BY <1>1, <1>2, <1>3, <1>4, PTL DEF Spec
=============================================================================

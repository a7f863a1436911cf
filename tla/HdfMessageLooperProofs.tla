----------------------- MODULE HdfMessageLooperProofs -----------------------
(***************************************************************************)
(* Proofs about HdfMessageLooper for any number of senders, delays,        *)
(* messages and clock ticks.                                               *)
(*                                                                         *)
(* The messages of one sender and one delay are in turn along the whole    *)
(* line, from the first dispatched to the last queued: QueueInv says it of *)
(* the list, which is ordered by time, and DoneInv and LineInv of what was *)
(* taken out of it.  An insertion keeps it by SendInv, about the message   *)
(* in a sender's hand: it was stamped later than all that its sender has   *)
(* queued, so with the same delay its time is not the earlier one and its  *)
(* place is behind them.  A looper that is told to stop dispatches first   *)
(* what was in the list to be dispatched at once by StopInv: every stop is *)
(* behind it, or will be.                                                  *)
(***************************************************************************)
EXTENDS HdfMessageLooper, FiniteSetTheorems, TLAPS

-----------------------------------------------------------------------------
(* The invariant.                                                           *)

LooperNames == /\ IsFiniteSet(Senders) /\ Looper \notin Senders /\ Delays \subseteq Nat
               /\ MaxSends \in Nat /\ MaxTime \in Nat

LooperAt == {"next", "scan", "wait", "dispatch", "stop", "flush", "stopped"}
SenderAt == {"idle", "insert", "post"}
Sending  == {s \in Senders : at[s] \in {"insert", "post"}}

\* A sender posts at most once for a message.
LooperType ==
    /\ now \in 0..MaxTime /\ currentTime \in 0..now
    /\ queue \in Seq(Messages) /\ handled \in Seq(Messages)
    /\ sem \in Nat /\ destroyed \in BOOLEAN
    /\ at \in [Senders \cup {Looper} -> LooperAt \cup SenderAt]
    /\ at[Looper] \in LooperAt
    /\ \A s \in Senders : at[s] \in SenderAt
    /\ msg \in [Senders \cup {Looper} -> Messages]
    /\ sent \in 0..MaxSends
    /\ stopCalled \in BOOLEAN /\ before \subseteq Messages
    /\ sem + Cardinality(Sending) <= sent

\* The messages that the looper has dispatched or is about to dispatch.
Done == IF at[Looper] = "dispatch"
        THEN Append(handled, msg[Looper]) ELSE handled
In(m, s) == \E i \in 1..Len(s) : s[i] = m

InTurn(m, n) == ~m.stop /\ ~n.stop /\ m.by = n.by /\ m.left = n.left => m.id < n.id

\* The messages are in line, and those that are being sent come after them.
DoneInv  == \A i, j \in 1..Len(Done) : i < j => InTurn(Done[i], Done[j])
QueueInv ==
    \A i, j \in 1..Len(queue) :
        i < j => InTurn(queue[i], queue[j]) /\ queue[i].timeStamp <= queue[j].timeStamp
LineInv ==
    \A i \in 1..Len(Done), j \in 1..Len(queue) : InTurn(Done[i], queue[j])
DueInv ==
    /\ \A i \in 1..Len(Done) : Done[i].id <= sent
    /\ \A i \in 1..Len(queue) : /\ queue[i].id <= sent
                                /\ queue[i].timeStamp <= queue[i].left + now
SendInv(s) ==
    at[s] = "insert" =>
        /\ msg[s].by = s /\ msg[s].id <= sent /\ msg[s].timeStamp <= msg[s].left + now
        /\ \A i \in 1..Len(Done) : Done[i].by = s => Done[i].id < msg[s].id
        /\ \A i \in 1..Len(queue) : queue[i].by = s =>
              /\ queue[i].id < msg[s].id
              /\ queue[i].left = msg[s].left => queue[i].timeStamp <= msg[s].timeStamp

\* What was in the list when the looper was told to stop is dispatched, or comes
\* before every stop.
Stopping == at[Looper] \in {"stop", "flush", "stopped"}
StopInv ==
    /\ ~stopCalled => /\ before = {} /\ ~Stopping
                      /\ \A i \in 1..Len(queue) : ~queue[i].stop
                      /\ \A s \in Senders : at[s] = "insert" => ~msg[s].stop
    /\ \A m \in before :
          /\ ~m.stop /\ m.left = 0 /\ m.timeStamp <= now
          /\ In(m, Done) \/ (~Stopping /\ In(m, queue))
          /\ ~In(m, Done) =>
                /\ \A i, j \in 1..Len(queue) : queue[i] = m /\ queue[j].stop => i < j
                /\ \A s \in Senders : at[s] = "insert" /\ msg[s].stop
                                          => m.timeStamp <= msg[s].timeStamp

LooperInv == /\ LooperType /\ DoneInv /\ QueueInv /\ LineInv /\ DueInv
             /\ \A s \in Senders : SendInv(s)
             /\ StopInv

\* Insertion into a sequence, and removal of its head.
LEMMA InsertFacts ==
    ASSUME NEW S, NEW q \in Seq(S), NEW m \in S, NEW n \in 1..(Len(q) + 1)
    PROVE  /\ InsertAt(q, n, m) \in Seq(S) /\ Len(InsertAt(q, n, m)) = Len(q) + 1
           /\ \A i \in 1..(n - 1) : InsertAt(q, n, m)[i] = q[i]
           /\ InsertAt(q, n, m)[n] = m
           /\ \A i \in (n + 1)..(Len(q) + 1) : InsertAt(q, n, m)[i] = q[i - 1]
<1> DEFINE a == SubSeq(q, 1, n - 1)
           b == SubSeq(q, n, Len(q))
<1>1. Len(q) \in Nat /\ n \in Nat /\ 1 <= n /\ n <= Len(q) + 1
  OBVIOUS
<1>2. a \in Seq(S) /\ Len(a) = n - 1 /\ \A i \in 1..(n - 1) : a[i] = q[i]
  BY <1>1
<1>3. b \in Seq(S) /\ Len(b) = Len(q) - n + 1
      /\ \A i \in 1..(Len(q) - n + 1) : b[i] = q[n + i - 1]
  BY <1>1
<1> HIDE DEF a, b
<1>4. InsertAt(q, n, m) = (a \o <<m>>) \o b
  BY DEF InsertAt, a, b
<1>5. a \o <<m>> \in Seq(S) /\ Len(a \o <<m>>) = n /\ (a \o <<m>>)[n] = m
      /\ \A i \in 1..(n - 1) : (a \o <<m>>)[i] = q[i]
  BY <1>1, <1>2
<1>6. PICK c : c = a \o <<m>>
  OBVIOUS
<1>7. c \in Seq(S) /\ Len(c) = n /\ c[n] = m /\ \A i \in 1..(n - 1) : c[i] = q[i]
  BY <1>5, <1>6
<1>8. /\ c \o b \in Seq(S) /\ Len(c \o b) = Len(q) + 1
      /\ \A i \in 1..n : (c \o b)[i] = c[i]
      /\ \A i \in (n + 1)..(Len(q) + 1) : (c \o b)[i] = b[i - n]
  BY <1>1, <1>3, <1>7
<1>9. \A i \in (n + 1)..(Len(q) + 1) : b[i - n] = q[i - 1]
  BY <1>1, <1>3
<1>10. QED
  BY <1>1, <1>4, <1>6, <1>7, <1>8, <1>9

LEMMA RemoveFacts ==
    ASSUME NEW S, NEW q \in Seq(S), q # <<>>
    PROVE  RemoveAt(q, 1) = Tail(q)
  BY DEF RemoveAt

\* Every message there is.
LEMMA MessageFacts ==
    ASSUME LooperNames, LooperInv
    PROVE  /\ \A s \in Senders : msg[s] \in Messages /\ msg[s].timeStamp \in Nat
           /\ \A i \in 1..Len(queue) :
                 queue[i] \in Messages /\ queue[i].timeStamp \in Nat
           /\ msg[Looper] \in Messages
           /\ \A m \in Messages :
                 m.timeStamp \in Nat /\ m.id \in Nat /\ m.left \in Nat
           /\ \A i \in 1..Len(Done) : Done[i] \in Messages
           /\ Done \in Seq(Messages)
<1>1. \A m \in Messages : m.timeStamp \in Nat /\ m.id \in Nat /\ m.left \in Nat
  <2> SUFFICES ASSUME NEW m \in Messages
               PROVE  m.timeStamp \in Nat /\ m.id \in Nat /\ m.left \in Nat
    OBVIOUS
  <2>1. m.timeStamp \in Nat
    BY DEF Messages
  <2>2. m.id \in 0..MaxSends
    BY DEF Messages
  <2>3. m.left \in Delays \cup {0}
    <3>1. PICK D : D = Delays \cup {0}
      OBVIOUS
    <3>2. m \in [id : 0..MaxSends, by : Senders \cup {"none"}, left : D,
                 timeStamp : Nat, stop : BOOLEAN]
      BY <3>1 DEF Messages
    <3>3. m.left \in D
      BY <3>2
    <3>4. QED
      BY <3>1, <3>3
  <2>4. m.id \in Nat
    BY <2>2 DEF LooperNames
  <2>5. m.left \in Nat
    <3>1. Delays \cup {0} \subseteq Nat
      BY DEF LooperNames
    <3>2. QED
      BY <2>3, <3>1
  <2>6. QED
    BY <2>1, <2>4, <2>5
<1>2. /\ \A s \in Senders : msg[s] \in Messages
      /\ \A i \in 1..Len(queue) : queue[i] \in Messages
      /\ msg[Looper] \in Messages /\ handled \in Seq(Messages)
  BY DEF LooperInv, LooperType
<1>3. Done \in Seq(Messages)
  BY <1>2 DEF Done
<1>4. \A i \in 1..Len(Done) : Done[i] \in Messages
  BY <1>3
<1>5. QED
  BY <1>1, <1>2, <1>3, <1>4

\* A message goes into its place: all before it are of its time or earlier, and all
\* behind it later.
LEMMA PlaceFacts ==
    ASSUME LooperNames, LooperInv, NEW s \in Senders, NEW n \in Place(queue, msg[s])
    PROVE  /\ n \in 1..(Len(queue) + 1)
           /\ \A i \in 1..(n - 1) : i \in 1..Len(queue) /\ queue[i].timeStamp <= msg[s].timeStamp
           /\ \A i \in n..Len(queue) : queue[i].timeStamp > msg[s].timeStamp
<1>1. /\ n \in 1..(Len(queue) + 1) /\ Len(queue) \in Nat
      /\ \A i \in 1..(n - 1) : queue[i].timeStamp <= msg[s].timeStamp
      /\ n <= Len(queue) => queue[n].timeStamp > msg[s].timeStamp
  BY DEF Place, LooperInv, LooperType
<1>2. msg[s].timeStamp \in Nat /\ \A i \in 1..Len(queue) : queue[i].timeStamp \in Nat
  BY MessageFacts
<1>3. ASSUME NEW i \in n..Len(queue) PROVE queue[i].timeStamp > msg[s].timeStamp
  <2>1. n \in 1..Len(queue) /\ i \in 1..Len(queue)
    BY <1>1, <1>3
  <2>2. n = i \/ queue[n].timeStamp <= queue[i].timeStamp
    BY <1>1, <2>1 DEF LooperInv, QueueInv
  <2>3. QED
    BY <1>1, <1>2, <2>1, <2>2
<1>4. QED
  BY <1>1, <1>3

\* The senders that are sending, and what the post of one makes of them.
LEMMA SendingFacts ==
    ASSUME LooperNames, NEW s \in Senders, NEW T, T \subseteq Senders
    PROVE  /\ IsFiniteSet(T) /\ Cardinality(T) \in Nat
           /\ s \in T => Cardinality(T \ {s}) = Cardinality(T) - 1
           /\ s \notin T => Cardinality(T \cup {s}) = Cardinality(T) + 1
<1>1. IsFiniteSet(T) /\ Cardinality(T) \in Nat
  BY FS_Subset, FS_CardinalityType DEF LooperNames
<1>2. s \in T => Cardinality(T \ {s}) = Cardinality(T) - 1
  BY <1>1, FS_RemoveElement
<1>3. s \notin T => Cardinality(T \cup {s}) = Cardinality(T) + 1
  BY <1>1, FS_AddElement
<1>4. QED
  BY <1>1, <1>2, <1>3

LEMMA NoMessageFact == ASSUME LooperNames PROVE NoMessage \in Messages
  BY DEF NoMessage, Messages, LooperNames

LEMMA LooperInit == ASSUME LooperNames, Init PROVE LooperInv
<1> USE DEF LooperNames
<1>1. /\ now = 0 /\ queue = <<>> /\ sem = 0 /\ destroyed = FALSE /\ currentTime = 0
      /\ at = [t \in Senders \cup {Looper} |->
                 IF t = Looper THEN "next" ELSE "idle"]
      /\ msg = [t \in Senders \cup {Looper} |-> NoMessage]
      /\ sent = 0 /\ handled = <<>> /\ stopCalled = FALSE /\ before = {}
  BY DEF Init
<1>2. at[Looper] = "next" /\ \A s \in Senders : at[s] = "idle"
  BY <1>1
<1>3. at \in [Senders \cup {Looper} -> LooperAt \cup SenderAt]
  BY <1>1 DEF LooperAt, SenderAt
<1>4. NoMessage \in Messages
  BY NoMessageFact
<1>5. Sending = {}
  BY <1>2 DEF Sending
<1>6. Cardinality(Sending) = 0
  BY <1>5, FS_EmptySet
<1>7. LooperType
  <2>1. msg \in [Senders \cup {Looper} -> Messages] /\ before \subseteq Messages
    BY <1>1, <1>4
  <2>2. /\ now \in 0..MaxTime /\ currentTime \in 0..now /\ sent \in 0..MaxSends
        /\ queue \in Seq(Messages) /\ handled \in Seq(Messages)
        /\ sem \in Nat /\ sem + Cardinality(Sending) <= sent
    BY <1>1, <1>6
  <2>3. at[Looper] \in LooperAt /\ \A s \in Senders : at[s] \in SenderAt
    BY <1>2 DEF LooperAt, SenderAt
  <2>4. QED
    BY <1>1, <1>3, <2>1, <2>2, <2>3 DEF LooperType
<1>8. Done = <<>>
  BY <1>1, <1>2 DEF Done
<1>9. DoneInv /\ QueueInv /\ LineInv /\ DueInv
  BY <1>1, <1>8 DEF DoneInv, QueueInv, LineInv, DueInv
<1>10. StopInv /\ \A s \in Senders : SendInv(s)
  BY <1>1, <1>2 DEF SendInv, StopInv, Stopping
<1>11. QED
  BY <1>7, <1>9, <1>10 DEF LooperInv

\* A step that sends nothing and leaves the line of messages alone.
LEMMA LineKept ==
    ASSUME LooperNames, LooperInv, Done' = Done, now <= now', now' \in Nat,
           UNCHANGED <<queue, sent, stopCalled, before>>, Stopping' = Stopping,
           \A s \in Senders : at'[s] = "insert" => at[s] = "insert" /\ msg'[s] = msg[s]
    PROVE  /\ DoneInv' /\ QueueInv' /\ LineInv' /\ DueInv'
           /\ \A s \in Senders : SendInv(s)'
           /\ StopInv'
<1>1. now \in Nat
  BY DEF LooperInv, LooperType
<1>2. DoneInv' /\ QueueInv' /\ LineInv'
  BY DEF LooperInv, DoneInv, QueueInv, LineInv
<1>3. \A m \in Messages : m.timeStamp \in Nat /\ m.left \in Nat
  BY MessageFacts
<1>4. DueInv'
  BY <1>1, <1>3, MessageFacts DEF LooperInv, DueInv
<1>5. ASSUME NEW s \in Senders PROVE SendInv(s)'
  <2> SUFFICES ASSUME at'[s] = "insert" PROVE SendInv(s)'
    BY DEF SendInv
  <2>1. at[s] = "insert" /\ msg'[s] = msg[s] /\ msg[s] \in Messages
    BY MessageFacts
  <2>2. msg[s].timeStamp <= msg[s].left + now'
    BY <1>1, <1>3, <2>1 DEF LooperInv, SendInv
  <2>3. QED
    BY <2>1, <2>2 DEF LooperInv, SendInv
<1>6. StopInv'
  <2>1. StopInv /\ before \subseteq Messages
    BY DEF LooperInv, LooperType
  <2>2. ~stopCalled' => /\ before' = {} /\ ~Stopping'
                        /\ \A i \in 1..Len(queue') : ~queue'[i].stop
                        /\ \A s \in Senders : at'[s] = "insert" => ~msg'[s].stop
    BY <2>1 DEF StopInv
  <2>3. ASSUME NEW m \in before
        PROVE  /\ ~m.stop /\ m.left = 0 /\ m.timeStamp <= now'
               /\ In(m, Done)' \/ (~Stopping' /\ In(m, queue)')
               /\ ~In(m, Done)' =>
                     /\ \A i, j \in 1..Len(queue') : queue'[i] = m /\ queue'[j].stop => i < j
                     /\ \A s \in Senders : at'[s] = "insert" /\ msg'[s].stop
                                          => m.timeStamp <= msg'[s].timeStamp
    <3>1. In(m, Done)' = In(m, Done) /\ In(m, queue)' = In(m, queue)
      BY DEF In
    <3>2. m.timeStamp \in Nat
      BY <1>3, <2>1
    <3>3. QED
      BY <1>1, <2>1, <3>1, <3>2 DEF StopInv
  <2>4. QED
    BY <2>2, <2>3 DEF StopInv
<1>7. QED
  BY <1>2, <1>4, <1>5, <1>6

\* Steps of a sender change nothing of the looper's, and the other way round.
LEMMA DoneKept ==
    ASSUME LooperNames, LooperInv, NEW s \in Senders, handled' = handled,
           at' = [at EXCEPT ![s] = at'[s]], msg' = [msg EXCEPT ![s] = msg'[s]]
    PROVE  /\ Done' = Done /\ at'[Looper] = at[Looper] /\ msg'[Looper] = msg[Looper]
           /\ Stopping' = Stopping
           /\ \A u \in Senders : u # s => at'[u] = at[u] /\ msg'[u] = msg[u]
<1>1. /\ at'[Looper] = at[Looper] /\ msg'[Looper] = msg[Looper]
      /\ \A u \in Senders : u # s => at'[u] = at[u] /\ msg'[u] = msg[u]
  BY DEF LooperNames, LooperInv, LooperType
<1>2. Done' = Done /\ Stopping' = Stopping
  BY <1>1 DEF Done, Stopping
<1>3. QED
  BY <1>1, <1>2

\* A step of the looper's thread changes nothing of the senders'.
LEMMA LooperMoves ==
    ASSUME LooperNames, LooperInv, NEW p \in LooperAt, at' = [at EXCEPT ![Looper] = p],
           msg' = [msg EXCEPT ![Looper] = msg'[Looper]], msg'[Looper] \in Messages,
           UNCHANGED sent
    PROVE  /\ at' \in [Senders \cup {Looper} -> LooperAt \cup SenderAt] /\ at'[Looper] = p
           /\ \A s \in Senders : at'[s] = at[s] /\ msg'[s] = msg[s] /\ at'[s] \in SenderAt
           /\ msg' \in [Senders \cup {Looper} -> Messages]
           /\ Sending' = Sending
           /\ sem' \in Nat /\ sem' <= sem => sem' + Cardinality(Sending') <= sent'
<1>1. LooperType /\ Looper \notin Senders
  BY DEF LooperInv, LooperNames
<1>2. /\ at' \in [Senders \cup {Looper} -> LooperAt \cup SenderAt] /\ at'[Looper] = p
      /\ \A s \in Senders : at'[s] = at[s] /\ at'[s] \in SenderAt
  BY <1>1 DEF LooperType
<1>3. /\ msg' \in [Senders \cup {Looper} -> Messages]
      /\ \A s \in Senders : msg'[s] = msg[s]
  BY <1>1 DEF LooperType
<1>4. Sending' = Sending
  BY <1>2 DEF Sending
<1>5. Cardinality(Sending) \in Nat
  BY FS_Subset, FS_CardinalityType DEF LooperNames, Sending
<1>6. sem' \in Nat /\ sem' <= sem => sem' + Cardinality(Sending') <= sent'
  BY <1>1, <1>4, <1>5 DEF LooperType
<1>7. QED
  BY <1>2, <1>3, <1>4, <1>6

\* The looper steps that take nothing out of the list.
LEMMA LooperRests ==
    ASSUME LooperNames, LooperInv,
           \/ HdfMessageQueueNext \/ NextWait
           \/ HdfMessageTaskDispatchMessage \/ OsalMessageQueueDestroy
           \/ NextScan /\ at'[Looper] = "wait"
    PROVE  LooperInv'
<1>1. LooperType /\ Looper \notin Senders
  BY DEF LooperInv, LooperNames
<1>2. PICK p \in {"next", "scan", "wait", "flush"} : at' = [at EXCEPT ![Looper] = p]
  BY DEF HdfMessageQueueNext, NextWait, HdfMessageTaskDispatchMessage,
     OsalMessageQueueDestroy, NextScan, Goes, Empties
<1>3. NoMessage \in Messages
  BY NoMessageFact
<1>4. /\ msg' = [msg EXCEPT ![Looper] = msg'[Looper]] /\ msg'[Looper] \in Messages
      /\ at'[Looper] = p /\ p \in LooperAt
  <2>1. at'[Looper] = p /\ p \in LooperAt
    BY <1>1, <1>2 DEF LooperType, LooperAt
  <2>2. CASE HdfMessageTaskDispatchMessage
    BY <1>1, <1>3, <2>1, <2>2 DEF HdfMessageTaskDispatchMessage, Empties, LooperType
  <2>3. CASE ~HdfMessageTaskDispatchMessage
    <3>1. msg' = msg
      BY <1>1, <2>1, <2>3 DEF HdfMessageQueueNext, NextWait, OsalMessageQueueDestroy,
         NextScan, Goes, LooperType
    <3>2. QED
      BY <1>1, <2>1, <3>1 DEF LooperType
  <2>4. QED
    BY <2>2, <2>3
<1>5. /\ UNCHANGED <<now, queue, sent, stopCalled, before>>
      /\ sem' \in Nat /\ sem' <= sem
      /\ currentTime' \in 0..now' /\ destroyed' \in BOOLEAN
      /\ handled' \in Seq(Messages)
      /\ Done' = Done /\ Stopping' = Stopping
  <2>1. CASE HdfMessageQueueNext
    BY <1>1, <2>1 DEF HdfMessageQueueNext, Goes, queueVars, history, LooperType, Done, Stopping
  <2>2. CASE NextWait
    BY <1>1, <2>2 DEF NextWait, Goes, history, LooperType, Done, Stopping
  <2>3. CASE HdfMessageTaskDispatchMessage
    <3>1. at'[Looper] = "next" /\ at[Looper] = "dispatch" /\ msg[Looper] \in Messages
          /\ handled' = Append(handled, msg[Looper])
      BY <1>1, <2>3 DEF HdfMessageTaskDispatchMessage, Empties, Goes, LooperType
    <3>2. Done' = Done /\ Stopping' = Stopping
      BY <3>1 DEF Done, Stopping
    <3>3. QED
      BY <1>1, <2>3, <3>1, <3>2 DEF HdfMessageTaskDispatchMessage, queueVars, LooperType
  <2>4. CASE OsalMessageQueueDestroy
    BY <1>1, <2>4 DEF OsalMessageQueueDestroy, Goes, history, LooperType, Done, Stopping
  <2>5. CASE NextScan /\ at'[Looper] = "wait"
    <3>1. UNCHANGED <<queue, now, sem, destroyed, currentTime, sent, handled, stopCalled, before>>
          /\ at[Looper] = "scan"
      BY <1>1, <2>5 DEF NextScan, Goes, history, LooperType
    <3>2. QED
      BY <1>1, <2>5, <3>1 DEF LooperType, Done, Stopping
  <2>6. QED
    BY <2>1, <2>2, <2>3, <2>4, <2>5
<1>6. /\ at' \in [Senders \cup {Looper} -> LooperAt \cup SenderAt] /\ at'[Looper] = p
      /\ \A s \in Senders : at'[s] = at[s] /\ msg'[s] = msg[s] /\ at'[s] \in SenderAt
      /\ msg' \in [Senders \cup {Looper} -> Messages]
      /\ sem' + Cardinality(Sending') <= sent'
  BY <1>2, <1>4, <1>5, LooperMoves
<1>7. LooperType'
  BY <1>1, <1>4, <1>5, <1>6 DEF LooperType
<1>8. now' \in Nat /\ now <= now'
  BY <1>1, <1>5 DEF LooperType, LooperNames
<1>9. QED
  BY <1>5, <1>6, <1>7, <1>8, LineKept DEF LooperInv

LEMMA TickStep == ASSUME LooperNames, LooperInv, Tick PROVE LooperInv'
<1>1. LooperType
  BY DEF LooperInv
<1>2. /\ now' \in 0..MaxTime /\ now <= now' /\ now' \in Nat /\ currentTime' \in 0..now'
      /\ UNCHANGED <<queue, handled, sem, destroyed, at, msg, sent, stopCalled, before>>
  BY <1>1 DEF Tick, queueVars, history, LooperType, LooperNames
<1>3. Done' = Done /\ Stopping' = Stopping /\ Sending' = Sending
  BY <1>2 DEF Done, Stopping, Sending
<1>4. LooperType'
  BY <1>1, <1>2, <1>3 DEF LooperType
<1>5. QED
  BY <1>2, <1>3, <1>4, LineKept DEF LooperInv

LEMMA PostStep ==
    ASSUME LooperNames, LooperInv, NEW s \in Senders, EnqueuePost(s)
    PROVE  LooperInv'
<1>1. LooperType /\ s # Looper
  BY DEF LooperInv, LooperNames
<1>2. /\ at[s] = "post" /\ sem' = IF destroyed THEN sem ELSE sem + 1
      /\ at' = [at EXCEPT ![s] = "idle"] /\ msg' = [msg EXCEPT ![s] = NoMessage]
      /\ UNCHANGED <<now, queue, destroyed, currentTime, sent, handled, stopCalled, before>>
  BY <1>1 DEF EnqueuePost, Empties, Goes, history
<1>3. at'[s] = "idle" /\ msg'[s] = NoMessage /\ NoMessage \in Messages
  BY <1>1, <1>2, NoMessageFact DEF LooperType
<1>4. /\ Done' = Done /\ at'[Looper] = at[Looper] /\ Stopping' = Stopping
      /\ \A u \in Senders : u # s => at'[u] = at[u] /\ msg'[u] = msg[u]
  BY <1>2, <1>3, DoneKept
<1>5. sem' \in Nat /\ sem' + Cardinality(Sending') <= sent'
  <2>1. s \in Sending /\ Sending' = Sending \ {s} /\ Sending \subseteq Senders
    BY <1>2, <1>3, <1>4 DEF Sending
  <2>2. Cardinality(Sending') = Cardinality(Sending) - 1 /\ Cardinality(Sending) \in Nat
    BY <2>1, SendingFacts
  <2>3. QED
    BY <1>1, <1>2, <2>2 DEF LooperType
<1>6. /\ at' \in [Senders \cup {Looper} -> LooperAt \cup SenderAt]
      /\ msg' \in [Senders \cup {Looper} -> Messages]
      /\ \A u \in Senders : at'[u] \in SenderAt
  <2>1. at' \in [Senders \cup {Looper} -> LooperAt \cup SenderAt]
    BY <1>1, <1>2 DEF LooperType, SenderAt
  <2>2. msg' \in [Senders \cup {Looper} -> Messages]
    BY <1>1, <1>2, <1>3 DEF LooperType
  <2>3. \A u \in Senders : at'[u] \in SenderAt
    BY <1>1, <1>3, <1>4 DEF LooperType, SenderAt
  <2>4. QED
    BY <2>1, <2>2, <2>3
<1>7. LooperType'
  BY <1>1, <1>2, <1>4, <1>5, <1>6 DEF LooperType
<1>8. now' \in Nat /\ now <= now'
  BY <1>1, <1>2 DEF LooperType, LooperNames
<1>9. \A u \in Senders : at'[u] = "insert" => at[u] = "insert" /\ msg'[u] = msg[u]
  BY <1>3, <1>4
<1>10. QED
  BY <1>2, <1>4, <1>7, <1>8, <1>9, LineKept DEF LooperInv

LEMMA FlushStep == ASSUME LooperNames, LooperInv, DestroyFlush PROVE LooperInv'
<1>1. LooperType
  BY DEF LooperInv
<1>2. /\ at[Looper] = "flush" /\ queue' = <<>> /\ at' = [at EXCEPT ![Looper] = "stopped"]
      /\ UNCHANGED <<now, sem, destroyed, msg, currentTime, sent, handled, stopCalled, before>>
  BY DEF DestroyFlush, Goes, history
<1>3. /\ msg' = [msg EXCEPT ![Looper] = msg'[Looper]] /\ msg'[Looper] \in Messages
      /\ "stopped" \in LooperAt
  BY <1>1, <1>2 DEF LooperType, LooperAt
<1>4. sem' \in Nat /\ sem' <= sem
  BY <1>1, <1>2 DEF LooperType
<1>5. /\ at' \in [Senders \cup {Looper} -> LooperAt \cup SenderAt] /\ at'[Looper] = "stopped"
      /\ \A s \in Senders : at'[s] = at[s] /\ msg'[s] = msg[s] /\ at'[s] \in SenderAt
      /\ msg' \in [Senders \cup {Looper} -> Messages]
      /\ sem' + Cardinality(Sending') <= sent'
  BY <1>2, <1>3, <1>4, LooperMoves
<1>6. LooperType'
  BY <1>1, <1>2, <1>3, <1>4, <1>5 DEF LooperType
<1>7. Done' = Done /\ Done = handled /\ Stopping /\ Stopping'
  BY <1>2, <1>5 DEF Done, Stopping
<1>8. DoneInv' /\ QueueInv' /\ LineInv' /\ DueInv'
  BY <1>2, <1>7 DEF LooperInv, DoneInv, QueueInv, LineInv, DueInv
<1>9. ASSUME NEW s \in Senders PROVE SendInv(s)'
  BY <1>2, <1>5, <1>7 DEF LooperInv, SendInv
<1>10. StopInv'
  <2>1. stopCalled /\ \A m \in before : ~m.stop /\ m.left = 0 /\ m.timeStamp <= now /\ In(m, Done)
    BY <1>7 DEF LooperInv, StopInv
  <2>2. \A m \in before : In(m, Done)'
    BY <1>7, <2>1 DEF In
  <2>3. stopCalled' /\ before' = before /\ now' = now
    BY <1>2, <2>1
  <2>4. QED
    BY <2>1, <2>2, <2>3 DEF StopInv
<1>11. QED
  BY <1>6, <1>8, <1>9, <1>10 DEF LooperInv

\* The looper takes the first message of the list, for no other is due before it.
LEMMA ScanTakes ==
    ASSUME LooperNames, LooperInv, NEW i \in Due(queue)
    PROVE  i = 1 /\ queue # <<>> /\ Len(queue) >= 1
<1>1. /\ i \in 1..Len(queue) /\ queue[i].timeStamp <= currentTime /\ Len(queue) \in Nat
      /\ \A j \in 1..Len(queue) : queue[j].timeStamp <= currentTime => i <= j
      /\ currentTime \in Int
  BY DEF Due, LooperInv, LooperType
<1>2. 1 \in 1..Len(queue)
  BY <1>1
<1>3. i = 1 \/ queue[1].timeStamp <= queue[i].timeStamp
  BY <1>1, <1>2 DEF LooperInv, QueueInv
<1>4. queue[1].timeStamp \in Nat /\ queue[i].timeStamp \in Nat
  BY <1>1, <1>2, MessageFacts
<1>5. i <= 1
  BY <1>1, <1>2, <1>3, <1>4
<1>6. QED
  BY <1>1, <1>5

LEMMA ScanStep ==
    ASSUME LooperNames, LooperInv, NextScan, at'[Looper] # "wait"
    PROVE  LooperInv'
<1>1. LooperType /\ Looper \notin Senders
  BY DEF LooperInv, LooperNames
<1>2. PICK i \in Due(queue) :
         /\ msg' = [msg EXCEPT ![Looper] = queue[i]]
         /\ queue' = RemoveAt(queue, i)
         /\ at' = [at EXCEPT ![Looper] = IF queue[i].stop THEN "stop" ELSE "dispatch"]
  BY <1>1 DEF NextScan, Goes, LooperType
<1>3. i = 1 /\ queue # <<>> /\ Len(queue) >= 1
  BY ScanTakes
<1>4. PICK m, q : m = queue[1] /\ q = Tail(queue)
  OBVIOUS
<1>5. /\ q \in Seq(Messages) /\ Len(q) = Len(queue) - 1 /\ Len(queue) \in Nat
      /\ \A j \in 1..Len(q) : q[j] = queue[j + 1]
      /\ m \in Messages
  BY <1>1, <1>3, <1>4 DEF LooperType
<1>6. /\ queue' = q /\ msg' = [msg EXCEPT ![Looper] = m]
      /\ at' = [at EXCEPT ![Looper] = IF m.stop THEN "stop" ELSE "dispatch"]
      /\ at[Looper] = "scan"
      /\ UNCHANGED <<now, sem, destroyed, currentTime, sent, handled, stopCalled, before>>
  BY <1>1, <1>2, <1>3, <1>4, RemoveFacts DEF NextScan, history, LooperType
<1>7. PICK p : p = IF m.stop THEN "stop" ELSE "dispatch"
  OBVIOUS
<1>8. p \in LooperAt /\ msg'[Looper] = m
  BY <1>1, <1>6, <1>7 DEF LooperAt, LooperType
<1>9. sem' \in Nat /\ sem' <= sem
  BY <1>1, <1>6 DEF LooperType
<1>10. /\ at' \in [Senders \cup {Looper} -> LooperAt \cup SenderAt] /\ at'[Looper] = p
       /\ \A s \in Senders : at'[s] = at[s] /\ msg'[s] = msg[s] /\ at'[s] \in SenderAt
       /\ msg' \in [Senders \cup {Looper} -> Messages]
       /\ sem' + Cardinality(Sending') <= sent'
  BY <1>5, <1>6, <1>7, <1>8, <1>9, LooperMoves
<1>11. LooperType'
  BY <1>1, <1>5, <1>6, <1>8, <1>9, <1>10 DEF LooperType
<1>12. /\ Done = handled /\ ~Stopping
       /\ m.stop => Done' = Done /\ Stopping'
       /\ ~m.stop => Done' = Append(Done, m) /\ ~Stopping'
  BY <1>6, <1>7, <1>8, <1>10 DEF Done, Stopping
<1>13. PICK done, new : done = Done /\ new = Done'
  OBVIOUS
<1>14. /\ done \in Seq(Messages) /\ Len(done) \in Nat
       /\ m.stop => new = done
       /\ ~m.stop => /\ Len(new) = Len(done) + 1 /\ new[Len(done) + 1] = m
                     /\ \A j \in 1..Len(done) : new[j] = done[j]
  <2>1. done \in Seq(Messages)
    BY <1>13, MessageFacts
  <2>2. PICK w : w = Append(done, m)
    OBVIOUS
  <2>3. /\ Len(done) \in Nat /\ Len(w) = Len(done) + 1 /\ w[Len(done) + 1] = m
        /\ \A j \in 1..Len(done) : w[j] = done[j]
    BY <1>5, <2>1, <2>2
  <2>4. (m.stop => new = done) /\ (~m.stop => new = w)
    BY <1>12, <1>13, <2>2
  <2>5. QED
    BY <2>1, <2>3, <2>4
<1>15. \A j \in 1..Len(new) : (j \in 1..Len(done) /\ new[j] = done[j])
                              \/ (~m.stop /\ j = Len(done) + 1 /\ new[j] = m)
  BY <1>14
<1>16. /\ \A j, k \in 1..Len(done) : j < k => InTurn(done[j], done[k])
       /\ \A j \in 1..Len(done), k \in 1..Len(queue) : InTurn(done[j], queue[k])
       /\ \A j, k \in 1..Len(queue) : j < k =>
             InTurn(queue[j], queue[k]) /\ queue[j].timeStamp <= queue[k].timeStamp
       /\ \A j \in 1..Len(done) : done[j].id <= sent
       /\ \A j \in 1..Len(queue) : queue[j].id <= sent
                                   /\ queue[j].timeStamp <= queue[j].left + now
  BY <1>13 DEF LooperInv, DoneInv, LineInv, QueueInv, DueInv
<1>17. /\ 1 \in 1..Len(queue)
       /\ \A j \in 1..Len(q) : j + 1 \in 1..Len(queue) /\ q[j] = queue[j + 1] /\ 1 < j + 1
  BY <1>3, <1>5
<1>18. DoneInv'
  <2>1. ASSUME NEW j \in 1..Len(new), NEW k \in 1..Len(new), j < k
        PROVE  InTurn(new[j], new[k])
    <3>1. j \in 1..Len(done) /\ new[j] = done[j]
      BY <1>14, <1>15, <2>1
    <3>2. QED
      BY <1>4, <1>15, <1>16, <1>17, <2>1, <3>1
  <2>2. QED
    BY <1>13, <2>1 DEF DoneInv
<1>19. LineInv'
  <2>1. ASSUME NEW j \in 1..Len(new), NEW k \in 1..Len(q) PROVE InTurn(new[j], q[k])
    BY <1>4, <1>15, <1>16, <1>17
  <2>2. QED
    BY <1>6, <1>13, <2>1 DEF LineInv
<1>20. QueueInv'
  <2>1. ASSUME NEW j \in 1..Len(q), NEW k \in 1..Len(q), j < k
        PROVE  InTurn(q[j], q[k]) /\ q[j].timeStamp <= q[k].timeStamp
    <3>1. j + 1 < k + 1
      BY <2>1
    <3>2. QED
      BY <1>16, <1>17, <3>1
  <2>2. QED
    BY <1>6, <2>1 DEF QueueInv
<1>21. DueInv'
  <2>1. /\ \A j \in 1..Len(new) : new[j].id <= sent
        /\ \A j \in 1..Len(q) : q[j].id <= sent /\ q[j].timeStamp <= q[j].left + now
    BY <1>4, <1>15, <1>16, <1>17
  <2>2. QED
    BY <1>6, <1>13, <2>1 DEF DueInv
<1>22. ASSUME NEW s \in Senders PROVE SendInv(s)'
  <2> SUFFICES ASSUME at'[s] = "insert" PROVE SendInv(s)'
    BY DEF SendInv
  <2>1. at[s] = "insert" /\ msg'[s] = msg[s]
    BY <1>10
  <2>2. /\ msg[s].by = s /\ msg[s].id <= sent /\ msg[s].timeStamp <= msg[s].left + now
        /\ \A j \in 1..Len(done) : done[j].by = s => done[j].id < msg[s].id
        /\ \A j \in 1..Len(queue) : queue[j].by = s =>
              /\ queue[j].id < msg[s].id
              /\ queue[j].left = msg[s].left => queue[j].timeStamp <= msg[s].timeStamp
    BY <1>13, <2>1 DEF LooperInv, SendInv
  <2>3. \A j \in 1..Len(new) : new[j].by = s => new[j].id < msg[s].id
    BY <1>4, <1>15, <1>17, <2>2
  <2>4. \A j \in 1..Len(q) : q[j].by = s =>
              /\ q[j].id < msg[s].id
              /\ q[j].left = msg[s].left => q[j].timeStamp <= msg[s].timeStamp
    BY <1>17, <2>2
  <2>5. QED
    BY <1>6, <1>13, <2>1, <2>2, <2>3, <2>4 DEF SendInv
<1>23. StopInv'
  <2>1. StopInv
    BY DEF LooperInv
  <2>2. ~stopCalled' => /\ before' = {} /\ ~Stopping'
                        /\ \A j \in 1..Len(queue') : ~queue'[j].stop
                        /\ \A s \in Senders : at'[s] = "insert" => ~msg'[s].stop
    <3> SUFFICES ASSUME ~stopCalled
                 PROVE  /\ before = {} /\ ~Stopping'
                        /\ \A j \in 1..Len(q) : ~q[j].stop
                        /\ \A s \in Senders : at'[s] = "insert" => ~msg'[s].stop
      BY <1>6
    <3>1. /\ before = {} /\ \A j \in 1..Len(queue) : ~queue[j].stop
          /\ \A s \in Senders : at[s] = "insert" => ~msg[s].stop
      BY <2>1 DEF StopInv
    <3>2. QED
      BY <1>4, <1>10, <1>12, <1>17, <3>1
  <2>3. ASSUME NEW x \in before
        PROVE  /\ ~x.stop /\ x.left = 0 /\ x.timeStamp <= now
               /\ In(x, new) \/ (~Stopping' /\ In(x, q))
               /\ ~In(x, new) =>
                     /\ \A j, k \in 1..Len(q) : q[j] = x /\ q[k].stop => j < k
                     /\ \A s \in Senders : at'[s] = "insert" /\ msg'[s].stop
                                          => x.timeStamp <= msg'[s].timeStamp
    <3>1. /\ ~x.stop /\ x.left = 0 /\ x.timeStamp <= now
          /\ In(x, done) \/ In(x, queue)
          /\ ~In(x, done) =>
                /\ \A j, k \in 1..Len(queue) : queue[j] = x /\ queue[k].stop => j < k
                /\ \A s \in Senders : at[s] = "insert" /\ msg[s].stop
                                          => x.timeStamp <= msg[s].timeStamp
      BY <1>13, <2>1 DEF StopInv
    <3>2. CASE In(x, done)
      <4>1. In(x, new)
        BY <1>14, <3>2 DEF In
      <4>2. QED
        BY <3>1, <4>1
    <3>3. CASE ~In(x, done)
      <4>1. PICK j \in 1..Len(queue) : queue[j] = x
        BY <3>1, <3>3 DEF In
      <4>2. ~m.stop
        BY <1>4, <1>17, <3>1, <3>3, <4>1
      <4>3. CASE j = 1
        <5>1. In(x, new)
          BY <1>4, <1>14, <4>1, <4>2, <4>3 DEF In
        <5>2. QED
          BY <3>1, <5>1
      <4>4. CASE j # 1
        <5>1. j - 1 \in 1..Len(q) /\ q[j - 1] = x
          BY <1>5, <4>1, <4>4
        <5>2. In(x, q) /\ ~Stopping'
          BY <1>12, <4>2, <5>1 DEF In
        <5>3. \A k, l \in 1..Len(q) : q[k] = x /\ q[l].stop => k < l
          <6> SUFFICES ASSUME NEW k \in 1..Len(q), NEW l \in 1..Len(q), q[k] = x, q[l].stop
                       PROVE  k < l
            OBVIOUS
          <6>1. k + 1 < l + 1
            BY <1>17, <3>1, <3>3
          <6>2. QED
            BY <6>1
        <5>4. QED
          BY <1>10, <3>1, <3>3, <5>2, <5>3
      <4>5. QED
        BY <4>3, <4>4
    <3>4. QED
      BY <3>2, <3>3
  <2>4. QED
    BY <1>6, <1>13, <2>2, <2>3 DEF StopInv, In
<1>24. QED
  BY <1>11, <1>18, <1>19, <1>20, <1>21, <1>22, <1>23 DEF LooperInv

\* A message that is being sent is behind all that its sender has sent.
LEMMA StampsFacts ==
    ASSUME LooperNames, LooperInv, NEW s \in Senders, NEW left \in Delays \cup {0},
           NEW stop \in BOOLEAN, Stamps(s, left, stop),
           UNCHANGED <<now, queueVars, currentTime, handled>>,
           stopCalled' \in BOOLEAN, before' \subseteq Messages
    PROVE  /\ LooperType' /\ DoneInv' /\ QueueInv' /\ LineInv' /\ DueInv'
           /\ \A u \in Senders : SendInv(u)'
           /\ Done' = Done /\ Stopping' = Stopping
           /\ \A u \in Senders : u # s => at'[u] = at[u] /\ msg'[u] = msg[u]
           /\ msg'[s].stop = stop /\ msg'[s].timeStamp = left + now
<1>1. LooperType /\ s # Looper
  BY DEF LooperInv, LooperNames
<1>2. PICK m : m = [id |-> sent + 1, by |-> s, left |-> left, timeStamp |-> left + now, stop |-> stop]
  OBVIOUS
<1>3. /\ at[s] = "idle" /\ sent < MaxSends /\ sent' = sent + 1
      /\ msg' = [msg EXCEPT ![s] = m] /\ at' = [at EXCEPT ![s] = "insert"]
      /\ UNCHANGED <<now, queue, sem, destroyed, currentTime, handled>>
  BY <1>2 DEF Stamps, Goes, queueVars
<1>4. now \in Nat /\ sent \in Nat /\ left \in Nat /\ MaxSends \in Nat
  <2>1. Delays \cup {0} \subseteq Nat
    BY DEF LooperNames
  <2>2. QED
    BY <1>1, <2>1 DEF LooperType, LooperNames
<1>5. m \in Messages
  <2>1. PICK D, B : D = Delays \cup {0} /\ B = Senders \cup {"none"}
    OBVIOUS
  <2>2. sent + 1 \in 0..MaxSends /\ s \in B /\ left \in D /\ left + now \in Nat
    BY <1>3, <1>4, <2>1
  <2>3. m \in [id : 0..MaxSends, by : B, left : D, timeStamp : Nat, stop : BOOLEAN]
    BY <1>2, <2>2
  <2>4. QED
    BY <2>1, <2>3 DEF Messages
<1>6. m.id = sent + 1 /\ m.by = s /\ m.left = left /\ m.timeStamp = left + now /\ m.stop = stop
  BY <1>2
<1>7. at'[s] = "insert" /\ msg'[s] = m
  BY <1>1, <1>3 DEF LooperType
<1>8. /\ Done' = Done /\ at'[Looper] = at[Looper] /\ Stopping' = Stopping
      /\ \A u \in Senders : u # s => at'[u] = at[u] /\ msg'[u] = msg[u]
  BY <1>3, <1>7, DoneKept
<1>9. sem' + Cardinality(Sending') <= sent'
  <2>1. s \notin Sending /\ Sending' = Sending \cup {s} /\ Sending \subseteq Senders
    BY <1>3, <1>7, <1>8 DEF Sending
  <2>2. Cardinality(Sending') = Cardinality(Sending) + 1 /\ Cardinality(Sending) \in Nat
    BY <2>1, SendingFacts
  <2>3. QED
    BY <1>1, <1>3, <1>4, <2>2 DEF LooperType
<1>10. LooperType'
  <2>1. at' \in [Senders \cup {Looper} -> LooperAt \cup SenderAt]
    BY <1>1, <1>3 DEF LooperType, SenderAt
  <2>2. msg' \in [Senders \cup {Looper} -> Messages]
    BY <1>1, <1>3, <1>5 DEF LooperType
  <2>3. \A u \in Senders : at'[u] \in SenderAt
    BY <1>1, <1>7, <1>8 DEF LooperType, SenderAt
  <2>4. sent' \in 0..MaxSends
    BY <1>3, <1>4
  <2>5. QED
    BY <1>1, <1>3, <1>8, <1>9, <2>1, <2>2, <2>3, <2>4 DEF LooperType
<1>11. DoneInv' /\ QueueInv' /\ LineInv'
  BY <1>3, <1>8 DEF LooperInv, DoneInv, QueueInv, LineInv
<1>12. /\ \A i \in 1..Len(Done) : Done[i].id <= sent
       /\ \A i \in 1..Len(queue) :
             queue[i].id <= sent /\ queue[i].timeStamp <= queue[i].left + now
       /\ \A i \in 1..Len(Done) : Done[i].id \in Nat
       /\ \A i \in 1..Len(queue) : queue[i].id \in Nat
  BY MessageFacts DEF LooperInv, DueInv
<1>13. DueInv'
  <2>1. /\ \A i \in 1..Len(Done) : Done[i].id <= sent + 1
        /\ \A i \in 1..Len(queue) : queue[i].id <= sent + 1
    BY <1>4, <1>12
  <2>2. QED
    BY <1>3, <1>8, <1>12, <2>1 DEF DueInv
<1>14. ASSUME NEW u \in Senders PROVE SendInv(u)'
  <2>1. CASE u = s
    <3>1. \A i \in 1..Len(Done) : Done[i].id < m.id
      BY <1>4, <1>6, <1>12
    <3>2. \A i \in 1..Len(queue) :
             /\ queue[i].id < m.id
             /\ queue[i].left = m.left => queue[i].timeStamp <= m.timeStamp
      BY <1>4, <1>6, <1>12
    <3>3. m.id <= sent' /\ m.timeStamp <= m.left + now'
      BY <1>3, <1>4, <1>6
    <3>4. QED
      BY <1>3, <1>6, <1>7, <1>8, <2>1, <3>1, <3>2, <3>3 DEF SendInv
  <2>2. CASE u # s
    <3> SUFFICES ASSUME at'[u] = "insert" PROVE SendInv(u)'
      BY DEF SendInv
    <3>1. at[u] = "insert" /\ msg'[u] = msg[u] /\ msg[u].id \in Nat
      BY <1>8, <2>2, MessageFacts
    <3>2. msg[u].id <= sent'
      BY <1>3, <1>4, <3>1 DEF LooperInv, SendInv
    <3>3. QED
      BY <1>3, <1>8, <3>1, <3>2 DEF LooperInv, SendInv
  <2>3. QED
    BY <2>1, <2>2
<1>15. QED
  BY <1>6, <1>7, <1>8, <1>10, <1>11, <1>13, <1>14

LEMMA SendStep ==
    ASSUME LooperNames, LooperInv, NEW s \in Senders, HdfMessageTaskSendMessage(s)
    PROVE  LooperInv'
<1>1. PICK left \in Delays : Stamps(s, left, FALSE)
  BY DEF HdfMessageTaskSendMessage
<1>2. UNCHANGED <<now, queueVars, currentTime, handled, queue, stopCalled, before>>
  BY DEF HdfMessageTaskSendMessage, history, queueVars
<1>3. stopCalled' \in BOOLEAN /\ before' \subseteq Messages
  BY <1>2 DEF LooperInv, LooperType
<1>4. /\ LooperType' /\ DoneInv' /\ QueueInv' /\ LineInv' /\ DueInv'
      /\ \A u \in Senders : SendInv(u)'
      /\ Done' = Done /\ Stopping' = Stopping
      /\ \A u \in Senders : u # s => at'[u] = at[u] /\ msg'[u] = msg[u]
      /\ msg'[s].stop = FALSE
  <2>1. left \in Delays \cup {0} /\ FALSE \in BOOLEAN
    OBVIOUS
  <2>2. QED
    BY <1>1, <1>2, <1>3, <2>1, StampsFacts
<1>5. StopInv'
  <2>1. StopInv
    BY DEF LooperInv
  <2>2. \A u \in Senders : at'[u] = "insert" /\ msg'[u].stop
                              => at[u] = "insert" /\ msg[u].stop /\ msg'[u] = msg[u]
    BY <1>4
  <2>3. \A m : In(m, Done)' = In(m, Done) /\ In(m, queue)' = In(m, queue)
    BY <1>2, <1>4 DEF In
  <2>4. ~stopCalled => \A u \in Senders : at'[u] = "insert" => ~msg'[u].stop
    BY <2>1, <2>2 DEF StopInv
  <2>5. ASSUME NEW m \in before
        PROVE  /\ ~m.stop /\ m.left = 0 /\ m.timeStamp <= now
               /\ In(m, Done)' \/ (~Stopping' /\ In(m, queue)')
               /\ ~In(m, Done)' =>
                     /\ \A i, j \in 1..Len(queue) : queue[i] = m /\ queue[j].stop => i < j
                     /\ \A u \in Senders : at'[u] = "insert" /\ msg'[u].stop
                                              => m.timeStamp <= msg'[u].timeStamp
    BY <1>4, <2>1, <2>2, <2>3 DEF StopInv
  <2>6. QED
    BY <1>2, <1>4, <2>1, <2>4, <2>5 DEF StopInv
<1>6. QED
  BY <1>4, <1>5 DEF LooperInv

LEMMA StopStep ==
    ASSUME LooperNames, LooperInv, NEW s \in Senders, HdfMessageLooperStop(s)
    PROVE  LooperInv'
<1>1. /\ Stamps(s, 0, TRUE) /\ stopCalled' = TRUE
      /\ before' = IF stopCalled THEN before ELSE {m \in ToSet(queue) : m.left = 0}
      /\ UNCHANGED <<now, queueVars, currentTime, handled, queue>>
  BY DEF HdfMessageLooperStop, queueVars
<1>2. /\ LooperType /\ StopInv /\ now \in Nat
      /\ \A i \in 1..Len(queue) : queue[i] \in Messages
                                  /\ queue[i].timeStamp <= queue[i].left + now
  BY MessageFacts DEF LooperInv, LooperType, DueInv
<1>3. \A m \in ToSet(queue) : \E i \in 1..Len(queue) : m = queue[i]
  BY <1>2 DEF ToSet, LooperType
<1>4. stopCalled' \in BOOLEAN /\ before' \subseteq Messages
  BY <1>1, <1>2, <1>3 DEF LooperType
<1>5. /\ LooperType' /\ DoneInv' /\ QueueInv' /\ LineInv' /\ DueInv'
      /\ \A u \in Senders : SendInv(u)'
      /\ Done' = Done /\ Stopping' = Stopping
      /\ \A u \in Senders : u # s => at'[u] = at[u] /\ msg'[u] = msg[u]
      /\ msg'[s].timeStamp = now
  <2>1. 0 \in Delays \cup {0} /\ TRUE \in BOOLEAN
    OBVIOUS
  <2>2. msg'[s].timeStamp = 0 + now
    BY <1>1, <1>4, <2>1, StampsFacts
  <2>3. /\ LooperType' /\ DoneInv' /\ QueueInv' /\ LineInv' /\ DueInv'
        /\ \A u \in Senders : SendInv(u)'
        /\ Done' = Done /\ Stopping' = Stopping
        /\ \A u \in Senders : u # s => at'[u] = at[u] /\ msg'[u] = msg[u]
    BY <1>1, <1>4, <2>1, StampsFacts
  <2>4. QED
    BY <1>2, <2>2, <2>3
<1>6. \A m : In(m, Done)' = In(m, Done) /\ In(m, queue)' = In(m, queue)
  BY <1>1, <1>5 DEF In
<1>7. ASSUME NEW m \in before'
      PROVE  /\ ~m.stop /\ m.left = 0 /\ m.timeStamp <= now
             /\ In(m, Done)' \/ (~Stopping' /\ In(m, queue)')
             /\ ~In(m, Done)' =>
                   /\ \A i, j \in 1..Len(queue) : queue[i] = m /\ queue[j].stop => i < j
                   /\ \A u \in Senders : at'[u] = "insert" /\ msg'[u].stop
                                            => m.timeStamp <= msg'[u].timeStamp
  <2>1. CASE stopCalled
    <3>1. m \in before
      BY <1>1, <2>1
    <3>2. /\ ~m.stop /\ m.left = 0 /\ m.timeStamp <= now
          /\ In(m, Done) \/ (~Stopping /\ In(m, queue))
          /\ ~In(m, Done) =>
                /\ \A i, j \in 1..Len(queue) : queue[i] = m /\ queue[j].stop => i < j
                /\ \A u \in Senders : at[u] = "insert" /\ msg[u].stop
                                         => m.timeStamp <= msg[u].timeStamp
      BY <1>2, <3>1 DEF StopInv
    <3>3. ASSUME ~In(m, Done), NEW u \in Senders, at'[u] = "insert", msg'[u].stop
          PROVE  m.timeStamp <= msg'[u].timeStamp
      BY <1>5, <3>2, <3>3
    <3>4. QED
      BY <1>5, <1>6, <3>2, <3>3
  <2>2. CASE ~stopCalled
    <3>1. /\ \A i \in 1..Len(queue) : ~queue[i].stop
          /\ \A u \in Senders : at[u] = "insert" => ~msg[u].stop
          /\ ~Stopping
      BY <1>2, <2>2 DEF StopInv
    <3>2. m \in ToSet(queue) /\ m.left = 0
      BY <1>1, <2>2
    <3>3. PICK i \in 1..Len(queue) : m = queue[i]
      BY <1>3, <3>2
    <3>4. ~m.stop /\ m.timeStamp <= now /\ In(m, queue)
      <4>1. m.timeStamp <= 0 + now /\ 0 + now = now
        BY <1>2, <3>2, <3>3
      <4>2. QED
        BY <3>1, <3>3, <4>1 DEF In
    <3>5. ASSUME NEW u \in Senders, at'[u] = "insert", msg'[u].stop
          PROVE  m.timeStamp <= msg'[u].timeStamp
      BY <1>5, <3>1, <3>4, <3>5
    <3>6. QED
      BY <1>5, <1>6, <3>1, <3>2, <3>4, <3>5
  <2>3. QED
    BY <2>1, <2>2
<1>8. StopInv'
  BY <1>1, <1>7 DEF StopInv
<1>9. QED
  BY <1>5, <1>8 DEF LooperInv

LEMMA EnqueueStep ==
    ASSUME LooperNames, LooperInv, NEW s \in Senders, HdfMessageQueueEnqueue(s)
    PROVE  LooperInv'
<1>1. LooperType /\ s # Looper
  BY DEF LooperInv, LooperNames
<1>2. PICK m, q : m = msg[s] /\ q = queue'
  OBVIOUS
<1>3. PICK n \in Place(queue, m) : q = InsertAt(queue, n, m)
  BY <1>2 DEF HdfMessageQueueEnqueue
<1>4. /\ at[s] = "insert" /\ at' = [at EXCEPT ![s] = "post"] /\ msg' = msg
      /\ UNCHANGED <<now, sem, destroyed, currentTime, sent, handled, stopCalled, before>>
  BY DEF HdfMessageQueueEnqueue, Goes, history
<1>5. /\ n \in 1..(Len(queue) + 1) /\ Len(queue) \in Nat
      /\ \A i \in 1..(n - 1) : i \in 1..Len(queue) /\ queue[i].timeStamp <= m.timeStamp
      /\ \A i \in n..Len(queue) : queue[i].timeStamp > m.timeStamp
  BY <1>1, <1>2, <1>3, PlaceFacts DEF LooperType
<1>6. m \in Messages /\ queue \in Seq(Messages)
  BY <1>1, <1>2, MessageFacts DEF LooperType
<1>7. /\ q \in Seq(Messages) /\ Len(q) = Len(queue) + 1
      /\ \A i \in 1..(n - 1) : q[i] = queue[i]
      /\ q[n] = m
      /\ \A i \in (n + 1)..(Len(queue) + 1) : q[i] = queue[i - 1]
  <2>1. PICK S : S = Messages
    OBVIOUS
  <2>2. m \in S /\ queue \in Seq(S) /\ n \in 1..(Len(queue) + 1)
    BY <1>5, <1>6, <2>1
  <2>3. /\ InsertAt(queue, n, m) \in Seq(S) /\ Len(InsertAt(queue, n, m)) = Len(queue) + 1
        /\ \A i \in 1..(n - 1) : InsertAt(queue, n, m)[i] = queue[i]
        /\ InsertAt(queue, n, m)[n] = m
        /\ \A i \in (n + 1)..(Len(queue) + 1) :
              InsertAt(queue, n, m)[i] = queue[i - 1]
    BY <2>2, InsertFacts
  <2>4. QED
    BY <1>3, <2>1, <2>3
<1>8. \A i \in 1..Len(q) :
         \/ i < n /\ i \in 1..Len(queue) /\ q[i] = queue[i] /\ queue[i].timeStamp <= m.timeStamp
         \/ i = n /\ q[i] = m
         \/ i > n /\ i - 1 \in 1..Len(queue) /\ q[i] = queue[i - 1]
                  /\ queue[i - 1].timeStamp > m.timeStamp
  <2> SUFFICES ASSUME NEW i \in 1..Len(q)
               PROVE  \/ /\ i < n /\ i \in 1..Len(queue) /\ q[i] = queue[i]
                         /\ queue[i].timeStamp <= m.timeStamp
                      \/ i = n /\ q[i] = m
                      \/ /\ i > n /\ i - 1 \in 1..Len(queue) /\ q[i] = queue[i - 1]
                         /\ queue[i - 1].timeStamp > m.timeStamp
    OBVIOUS
  <2>1. n \in Nat /\ i \in 1..(Len(queue) + 1) /\ n <= Len(queue) + 1 /\ 1 <= n
    BY <1>5, <1>7
  <2>2. CASE i < n
    <3>1. i \in 1..(n - 1)
      BY <2>1, <2>2
    <3>2. QED
      BY <1>5, <1>7, <2>2, <3>1
  <2>3. CASE i > n
    <3>1. i \in (n + 1)..(Len(queue) + 1) /\ i - 1 \in n..Len(queue)
          /\ i - 1 \in 1..Len(queue)
      BY <1>5, <2>1, <2>3
    <3>2. QED
      BY <1>5, <1>7, <2>3, <3>1
  <2>4. QED
    BY <1>7, <2>1, <2>2, <2>3
<1>9. /\ at'[s] = "post" /\ msg' = [msg EXCEPT ![s] = msg'[s]]
      /\ at' = [at EXCEPT ![s] = at'[s]]
  BY <1>1, <1>4 DEF LooperType
<1>10. /\ Done' = Done /\ at'[Looper] = at[Looper] /\ Stopping' = Stopping
       /\ \A u \in Senders : u # s => at'[u] = at[u] /\ msg'[u] = msg[u]
  BY <1>4, <1>9, DoneKept
<1>11. LooperType'
  <2>1. Sending' = Sending
    BY <1>4, <1>9, <1>10 DEF Sending
  <2>2. at' \in [Senders \cup {Looper} -> LooperAt \cup SenderAt]
    BY <1>1, <1>4 DEF LooperType, SenderAt
  <2>3. \A u \in Senders : at'[u] \in SenderAt
    BY <1>1, <1>9, <1>10 DEF LooperType, SenderAt
  <2>4. queue' \in Seq(Messages)
    BY <1>2, <1>7
  <2>5. QED
    BY <1>1, <1>4, <1>10, <2>1, <2>2, <2>3, <2>4 DEF LooperType
<1>12. /\ m.by = s /\ m.id <= sent /\ m.timeStamp <= m.left + now
       /\ \A i \in 1..Len(Done) : Done[i].by = s => Done[i].id < m.id
       /\ \A i \in 1..Len(queue) : queue[i].by = s =>
             /\ queue[i].id < m.id
             /\ queue[i].left = m.left => queue[i].timeStamp <= m.timeStamp
  BY <1>2, <1>4 DEF LooperInv, SendInv
<1>13. /\ m.timeStamp \in Nat
       /\ \A i \in 1..Len(queue) : queue[i].timeStamp \in Nat
  BY <1>2, MessageFacts
<1>14. DoneInv'
  BY <1>10 DEF LooperInv, DoneInv
<1>15. LineInv'
  <2>1. ASSUME NEW i \in 1..Len(Done), NEW j \in 1..Len(q) PROVE InTurn(Done[i], q[j])
    <3>1. CASE q[j] = m
      BY <1>12, <3>1 DEF InTurn
    <3>2. CASE q[j] # m
      <4>1. PICK k \in 1..Len(queue) : q[j] = queue[k]
        BY <1>8, <3>2
      <4>2. QED
        BY <4>1 DEF LooperInv, LineInv
    <3>3. QED
      BY <3>1, <3>2
  <2>2. QED
    BY <1>2, <1>10, <2>1 DEF LineInv
<1>16. QueueInv'
  <2>1. \A i, j \in 1..Len(queue) :
           i < j => InTurn(queue[i], queue[j]) /\ queue[i].timeStamp <= queue[j].timeStamp
    BY DEF LooperInv, QueueInv
  <2>2. ASSUME NEW i \in 1..Len(q), NEW j \in 1..Len(q), i < j
        PROVE  InTurn(q[i], q[j]) /\ q[i].timeStamp <= q[j].timeStamp
    <3>1. CASE j < n
      <4>1. /\ i \in 1..Len(queue) /\ j \in 1..Len(queue)
            /\ q[i] = queue[i] /\ q[j] = queue[j]
        BY <1>5, <1>8, <2>2, <3>1
      <4>2. QED
        BY <2>1, <2>2, <4>1
    <3>2. CASE j = n
      <4>1. /\ i \in 1..Len(queue) /\ q[i] = queue[i] /\ q[j] = m
            /\ queue[i].timeStamp <= m.timeStamp
        BY <1>5, <1>8, <2>2, <3>2
      <4>2. InTurn(queue[i], m)
        BY <1>12, <4>1 DEF InTurn
      <4>3. QED
        BY <4>1, <4>2
    <3>3. CASE j > n /\ i = n
      <4>1. /\ j - 1 \in 1..Len(queue) /\ q[j] = queue[j - 1] /\ q[i] = m
            /\ queue[j - 1].timeStamp > m.timeStamp
        BY <1>5, <1>8, <2>2, <3>3
      <4>2. PICK x : x = queue[j - 1]
        OBVIOUS
      <4>3. x.timeStamp \in Nat /\ ~(x.timeStamp <= m.timeStamp) /\ m.timeStamp <= x.timeStamp
        BY <1>13, <4>1, <4>2
      <4>4. x.by = s => x.left # m.left
        BY <1>12, <4>1, <4>2, <4>3
      <4>5. InTurn(m, x)
        BY <1>12, <4>4 DEF InTurn
      <4>6. QED
        BY <4>1, <4>2, <4>3, <4>5
    <3>4. CASE j > n /\ i < n
      <4>1. /\ i \in 1..Len(queue) /\ q[i] = queue[i]
            /\ j - 1 \in 1..Len(queue) /\ q[j] = queue[j - 1] /\ i < j - 1
        BY <1>5, <1>8, <2>2, <3>4
      <4>2. QED
        BY <2>1, <4>1
    <3>5. CASE j > n /\ i > n
      <4>1. /\ i - 1 \in 1..Len(queue) /\ q[i] = queue[i - 1]
            /\ j - 1 \in 1..Len(queue) /\ q[j] = queue[j - 1] /\ i - 1 < j - 1
        BY <1>5, <1>8, <2>2, <3>5
      <4>2. QED
        BY <2>1, <4>1
    <3>6. QED
      BY <1>5, <2>2, <3>1, <3>2, <3>3, <3>4, <3>5
  <2>3. QED
    BY <1>2, <2>2 DEF QueueInv
<1>17. DueInv'
  <2>1. ASSUME NEW i \in 1..Len(q)
        PROVE  q[i].id <= sent /\ q[i].timeStamp <= q[i].left + now
    <3>1. CASE q[i] = m
      BY <1>12, <3>1
    <3>2. CASE q[i] # m
      <4>1. PICK k \in 1..Len(queue) : q[i] = queue[k]
        BY <1>8, <3>2
      <4>2. QED
        BY <4>1 DEF LooperInv, DueInv
    <3>3. QED
      BY <3>1, <3>2
  <2>2. QED
    BY <1>2, <1>4, <1>10, <2>1 DEF LooperInv, DueInv
<1>18. ASSUME NEW u \in Senders PROVE SendInv(u)'
  <2> SUFFICES ASSUME at'[u] = "insert" PROVE SendInv(u)'
    BY DEF SendInv
  <2>1. u # s /\ at[u] = "insert" /\ msg'[u] = msg[u]
    BY <1>9, <1>10
  <2>2. /\ msg[u].by = u /\ msg[u].id <= sent /\ msg[u].timeStamp <= msg[u].left + now
        /\ \A i \in 1..Len(Done) : Done[i].by = u => Done[i].id < msg[u].id
        /\ \A i \in 1..Len(queue) : queue[i].by = u =>
              /\ queue[i].id < msg[u].id
              /\ queue[i].left = msg[u].left => queue[i].timeStamp <= msg[u].timeStamp
    BY <2>1 DEF LooperInv, SendInv
  <2>3. ASSUME NEW i \in 1..Len(q), q[i].by = u
        PROVE  /\ q[i].id < msg[u].id
               /\ q[i].left = msg[u].left => q[i].timeStamp <= msg[u].timeStamp
    <3>1. PICK k \in 1..Len(queue) : q[i] = queue[k]
      BY <1>8, <1>12, <2>1, <2>3
    <3>2. QED
      BY <2>2, <2>3, <3>1
  <2>4. QED
    BY <1>2, <1>4, <1>10, <2>1, <2>2, <2>3 DEF SendInv
<1>19. StopInv'
  <2>1. StopInv
    BY DEF LooperInv
  <2>2. ASSUME ~stopCalled
        PROVE  /\ before = {} /\ ~Stopping
               /\ \A i \in 1..Len(q) : ~q[i].stop
               /\ \A u \in Senders : at'[u] = "insert" => ~msg'[u].stop
    <3>1. /\ before = {} /\ ~Stopping
          /\ \A i \in 1..Len(queue) : ~queue[i].stop
          /\ \A u \in Senders : at[u] = "insert" => ~msg[u].stop
      BY <2>1, <2>2 DEF StopInv
    <3>2. ~m.stop
      BY <1>2, <1>4, <3>1
    <3>3. \A i \in 1..Len(q) : ~q[i].stop
      BY <1>8, <3>1, <3>2
    <3>4. \A u \in Senders : at'[u] = "insert" => ~msg'[u].stop
      BY <1>9, <1>10, <3>1
    <3>5. QED
      BY <3>1, <3>3, <3>4
  <2>3. ASSUME NEW x \in before
        PROVE  /\ ~x.stop /\ x.left = 0 /\ x.timeStamp <= now
               /\ In(x, Done) \/ (~Stopping /\ In(x, q))
               /\ ~In(x, Done) =>
                     /\ \A i, j \in 1..Len(q) : q[i] = x /\ q[j].stop => i < j
                     /\ \A u \in Senders : at'[u] = "insert" /\ msg'[u].stop
                                              => x.timeStamp <= msg'[u].timeStamp
    <3>1. /\ ~x.stop /\ x.left = 0 /\ x.timeStamp <= now
          /\ In(x, Done) \/ (~Stopping /\ In(x, queue))
          /\ ~In(x, Done) =>
                /\ \A i, j \in 1..Len(queue) : queue[i] = x /\ queue[j].stop => i < j
                /\ \A u \in Senders : at[u] = "insert" /\ msg[u].stop
                                         => x.timeStamp <= msg[u].timeStamp
      BY <2>1 DEF StopInv
    <3>2. CASE In(x, Done)
      BY <3>1, <3>2
    <3>3. CASE ~In(x, Done)
      <4>1. PICK k \in 1..Len(queue) : queue[k] = x
        BY <3>1, <3>3 DEF In
      <4>2. In(x, q)
        <5>1. CASE k < n
          <6>1. k \in 1..Len(q) /\ q[k] = x
            BY <1>5, <1>7, <4>1, <5>1
          <6>2. QED
            BY <6>1 DEF In
        <5>2. CASE k >= n
          <6>1. k + 1 \in (n + 1)..(Len(queue) + 1) /\ k + 1 \in 1..Len(q) /\ (k + 1) - 1 = k
            BY <1>5, <1>7, <4>1, <5>2
          <6>2. q[k + 1] = x
            BY <1>7, <4>1, <6>1
          <6>3. QED
            BY <6>1, <6>2 DEF In
        <5>3. QED
          BY <1>5, <5>1, <5>2
      <4>3. ~Stopping
        BY <3>1, <3>3
      <4>4. x # m /\ x.timeStamp \in Nat
        <5>1. x.by = s => x.id < m.id
          BY <1>12, <4>1
        <5>2. x.id \in Nat /\ x.timeStamp \in Nat
          BY <4>1, MessageFacts
        <5>3. QED
          BY <1>12, <5>1, <5>2
      <4>5. ASSUME NEW i \in 1..Len(q), NEW j \in 1..Len(q), q[i] = x, q[j].stop
            PROVE  i < j
        <5>1. i # n /\ q[j] # x
          BY <1>7, <3>1, <4>4, <4>5
        <5>2. CASE j = n
          <6>1. q[j] = m /\ m.stop
            BY <1>7, <4>5, <5>2
          <6>2. x.timeStamp <= m.timeStamp
            BY <1>2, <1>4, <3>1, <3>3, <6>1
          <6>3. ~(x.timeStamp > m.timeStamp)
            BY <1>13, <4>4, <6>2
          <6>4. i < n
            BY <1>8, <4>5, <5>1, <6>3
          <6>5. QED
            BY <5>2, <6>4
        <5>3. CASE j < n
          <6>1. j \in 1..Len(queue) /\ queue[j].stop
            BY <1>5, <1>8, <4>5, <5>3
          <6>2. CASE i < n
            <7>1. i \in 1..Len(queue) /\ queue[i] = x
              BY <1>5, <1>8, <4>5, <6>2
            <7>2. QED
              BY <3>1, <3>3, <6>1, <7>1
          <6>3. CASE i > n
            <7>1. i - 1 \in 1..Len(queue) /\ queue[i - 1] = x
              BY <1>5, <1>8, <4>5, <6>3
            <7>2. i - 1 < j
              BY <3>1, <3>3, <6>1, <7>1
            <7>3. QED
              BY <1>5, <5>3, <6>3, <7>2
          <6>4. QED
            BY <1>5, <5>1, <6>2, <6>3
        <5>4. CASE j > n
          <6>1. j - 1 \in 1..Len(queue) /\ queue[j - 1].stop
            BY <1>5, <1>8, <4>5, <5>4
          <6>2. CASE i < n
            BY <1>5, <5>4, <6>2
          <6>3. CASE i > n
            <7>1. i - 1 \in 1..Len(queue) /\ queue[i - 1] = x
              BY <1>5, <1>8, <4>5, <6>3
            <7>2. i - 1 < j - 1
              BY <3>1, <3>3, <6>1, <7>1
            <7>3. QED
              BY <7>2
          <6>4. QED
            BY <1>5, <5>1, <6>2, <6>3
        <5>5. QED
          BY <1>5, <5>2, <5>3, <5>4
      <4>6. \A u \in Senders : at'[u] = "insert" /\ msg'[u].stop
                                  => x.timeStamp <= msg'[u].timeStamp
        BY <1>9, <1>10, <3>1, <3>3
      <4>7. QED
        BY <3>1, <4>2, <4>3, <4>5, <4>6
    <3>4. QED
      BY <3>2, <3>3
  <2>4. \A x : In(x, Done)' = In(x, Done) /\ In(x, queue)' = In(x, q)
    BY <1>2, <1>10 DEF In
  <2>5. QED
    BY <1>2, <1>4, <1>10, <2>2, <2>3, <2>4 DEF StopInv
<1>20. QED
  BY <1>11, <1>14, <1>15, <1>16, <1>17, <1>18, <1>19 DEF LooperInv

LEMMA LooperStutter == ASSUME LooperNames, LooperInv, UNCHANGED vars PROVE LooperInv'
<1>1. UNCHANGED <<now, queue, sem, destroyed, at, msg, currentTime, sent, handled, stopCalled, before>>
  BY DEF vars, queueVars, history
<1>2. Done' = Done /\ Stopping' = Stopping /\ Sending' = Sending
  BY <1>1 DEF Done, Stopping, Sending
<1>3. LooperType'
  BY <1>1, <1>2 DEF LooperInv, LooperType
<1>4. now' \in Nat /\ now <= now'
  BY <1>1 DEF LooperInv, LooperType, LooperNames
<1>5. QED
  BY <1>1, <1>2, <1>3, <1>4, LineKept DEF LooperInv

LEMMA LooperNext == ASSUME LooperNames, LooperInv, [Next]_vars PROVE LooperInv'
<1>1. CASE Tick
  BY <1>1, TickStep
<1>2. ASSUME NEW s \in Senders, HdfMessageTaskSendMessage(s) PROVE LooperInv'
  BY <1>2, SendStep
<1>3. ASSUME NEW s \in Senders, HdfMessageLooperStop(s) PROVE LooperInv'
  BY <1>3, StopStep
<1>4. ASSUME NEW s \in Senders, HdfMessageQueueEnqueue(s) PROVE LooperInv'
  BY <1>4, EnqueueStep
<1>5. ASSUME NEW s \in Senders, EnqueuePost(s) PROVE LooperInv'
  BY <1>5, PostStep
<1>6. CASE \/ HdfMessageQueueNext \/ NextWait
           \/ HdfMessageTaskDispatchMessage \/ OsalMessageQueueDestroy
  BY <1>6, LooperRests
<1>7. CASE NextScan
  BY <1>7, LooperRests, ScanStep
<1>8. CASE DestroyFlush
  BY <1>8, FlushStep
<1>9. CASE UNCHANGED vars
  BY <1>9, LooperStutter
<1>10. QED
  BY <1>1, <1>2, <1>3, <1>4, <1>5, <1>6, <1>7, <1>8, <1>9 DEF Next

LEMMA LooperSafe == ASSUME LooperNames, LooperInv PROVE TypeOK /\ SenderOrder /\ StopDrains
<1>1. LooperType
  BY DEF LooperInv
<1>2. TypeOK
  <2>1. Cardinality(Sending) \in Nat
    BY FS_Subset, FS_CardinalityType DEF LooperNames, Sending
  <2>2. sem \in 0..sent
    BY <1>1, <2>1 DEF LooperType, LooperNames
  <2>3. QED
    BY <1>1, <2>2 DEF TypeOK, LooperType, LooperAt, SenderAt
<1>3. SenderOrder
  <2>1. PICK done :
          done = handled \o (IF at[Looper] = "dispatch" THEN <<msg[Looper]>> ELSE <<>>)
    OBVIOUS
  <2>2. done = Done /\ done \in Seq(Messages) /\ queue \in Seq(Messages)
    <3>1. handled \in Seq(Messages) /\ queue \in Seq(Messages) /\ Done \in Seq(Messages)
      BY <1>1, MessageFacts DEF LooperType
    <3>2. CASE at[Looper] = "dispatch"
      <4>1. done = handled \o <<msg[Looper]>> /\ Done = Append(handled, msg[Looper])
        BY <2>1, <3>2 DEF Done
      <4>2. handled \o <<msg[Looper]>> = Append(handled, msg[Looper])
        BY <3>1, MessageFacts
      <4>3. QED
        BY <3>1, <4>1, <4>2
    <3>3. CASE at[Looper] # "dispatch"
      <4>1. done = handled \o <<>> /\ Done = handled
        BY <2>1, <3>3 DEF Done
      <4>2. handled \o <<>> = handled
        BY <3>1
      <4>3. QED
        BY <3>1, <4>1, <4>2
    <3>4. QED
      BY <3>2, <3>3
  <2>3. PICK line : line = done \o queue
    OBVIOUS
  <2>4. /\ Len(done) \in Nat /\ Len(queue) \in Nat /\ Len(line) = Len(done) + Len(queue)
        /\ DOMAIN line = 1..(Len(done) + Len(queue))
        /\ \A i \in 1..Len(done) : line[i] = done[i]
        /\ \A i \in 1..Len(queue) : line[Len(done) + i] = queue[i]
    BY <2>2, <2>3
  <2>5. ASSUME NEW i \in DOMAIN line, NEW j \in DOMAIN line, i < j PROVE InTurn(line[i], line[j])
    <3>1. CASE j <= Len(done)
      <4>1. i \in 1..Len(done) /\ j \in 1..Len(done)
        BY <2>4, <2>5, <3>1
      <4>2. QED
        BY <2>2, <2>4, <2>5, <4>1 DEF LooperInv, DoneInv
    <3>2. CASE i <= Len(done) /\ j > Len(done)
      <4>1. i \in 1..Len(done) /\ j - Len(done) \in 1..Len(queue)
            /\ j = Len(done) + (j - Len(done))
        BY <2>4, <2>5, <3>2
      <4>2. PICK k \in 1..Len(queue) : line[j] = queue[k]
        BY <2>4, <4>1
      <4>3. QED
        BY <2>2, <2>4, <4>1, <4>2 DEF LooperInv, LineInv
    <3>3. CASE i > Len(done)
      <4>1. PICK k, l : k = i - Len(done) /\ l = j - Len(done)
        OBVIOUS
      <4>2. /\ k \in 1..Len(queue) /\ l \in 1..Len(queue) /\ k < l
            /\ i = Len(done) + k /\ j = Len(done) + l
        BY <2>4, <2>5, <3>3, <4>1
      <4>3. line[i] = queue[k] /\ line[j] = queue[l]
        BY <2>4, <4>2
      <4>4. QED
        BY <4>2, <4>3 DEF LooperInv, QueueInv
    <3>4. QED
      BY <2>4, <2>5, <3>1, <3>2, <3>3
  <2>6. QED
    BY <2>1, <2>3, <2>5 DEF SenderOrder, InTurn
<1>4. StopDrains
  <2> SUFFICES ASSUME Stopping, NEW m \in before PROVE m \in ToSet(handled)
    BY DEF StopDrains, Stopping
  <2>1. In(m, Done) /\ Done = handled
    BY DEF LooperInv, StopInv, Stopping, Done
  <2>2. PICK i \in 1..Len(handled) : handled[i] = m
    BY <2>1 DEF In
  <2>3. QED
    BY <1>1, <2>2 DEF ToSet, LooperType
<1>5. QED
  BY <1>2, <1>3, <1>4
=============================================================================

-------------------------- MODULE HdfMessageLooper --------------------------
(***************************************************************************)
(* Message tasks, the looper's queue ordered by time and its thread        *)
(* (hdf_message_task.c, osal_msg_queue.c, hdf_message_looper.c).           *)
(*                                                                         *)
(* Atomicity.  The list is changed under queue->mutex only, and nothing    *)
(* else happens with that mutex held, so each critical section is one      *)
(* step; the clock is read, and the semaphore posted and waited for,       *)
(* outside of it.  Once the queue is destroyed, locking and posting return *)
(* an error that no caller looks at, and the sender goes on.               *)
(*                                                                         *)
(* The clock is the wall clock of OsalGetTime; the model does not let it   *)
(* be set back.  A synchronous message is dispatched by its sender and     *)
(* never seen here; HdfMessageQueueFlush has no caller.                    *)
(***************************************************************************)
EXTENDS Integers, Sequences, SequencesExt

CONSTANTS Senders,    \* threads that send messages, or stop the looper
          Delays,     \* time stamps a caller leaves in a message before sending it
          MaxSends,   \* bound on the messages sent
          MaxTime     \* bound on the clock

Looper == "looper"

VARIABLES
    now,         \* OsalGetSysTimeMs
    queue,       \* queue->list
    sem,         \* queue->semaphore
    destroyed,   \* mutex and semaphore have been destroyed
    at,          \* where each sender, and the looper, stands
    msg,         \* the message each of them has in hand
    currentTime, \* of HdfMessageQueueNext
    sent,        \* number of messages sent
    handled,     \* history: the messages dispatched
    stopCalled,  \* history: HdfMessageLooperStop has been called
    before       \* history: messages in the list when it was called first

queueVars == <<queue, sem, destroyed>>
history   == <<handled, stopCalled, before>>
vars == <<now, queueVars, at, msg, currentTime, sent, history>>

\* id: order of sending; left: the time stamp the caller left in it.
NoMessage == [id |-> 0, by |-> "none", left |-> 0, timeStamp |-> 0, stop |-> FALSE]

Init ==
    /\ now = 0
    /\ queue = <<>> /\ sem = 0 /\ destroyed = FALSE
    /\ at = [t \in Senders \cup {Looper} |-> IF t = Looper THEN "next" ELSE "idle"]
    /\ msg = [t \in Senders \cup {Looper} |-> NoMessage]
    /\ currentTime = 0
    /\ sent = 0
    /\ handled = <<>> /\ stopCalled = FALSE /\ before = {}

Goes(t, p) == at' = [at EXCEPT ![t] = p]

\* A sender's call is at an end, or the looper has recycled its message.
Empties(t) ==
    /\ Goes(t, IF t = Looper THEN "next" ELSE "idle")
    /\ msg' = [msg EXCEPT ![t] = NoMessage]

Tick ==
    /\ now < MaxTime
    /\ now' = now + 1
    /\ UNCHANGED <<queueVars, at, msg, currentTime, sent, history>>

(***************************************************************************)
(* Senders.                                                                *)
(***************************************************************************)
\* The time is read before the mutex is taken; "delayed" is ignored.
Stamps(s, left, stop) ==
    /\ at[s] = "idle" /\ sent < MaxSends
    /\ sent' = sent + 1
    /\ msg' = [msg EXCEPT ![s] =
                 [id |-> sent + 1, by |-> s, left |-> left,
                  timeStamp |-> left + now, stop |-> stop]]
    /\ Goes(s, "insert")

HdfMessageTaskSendMessage(s) ==
    /\ \E left \in Delays : Stamps(s, left, FALSE)
    /\ UNCHANGED <<now, queueVars, currentTime, history>>

HdfMessageLooperStop(s) ==
    /\ Stamps(s, 0, TRUE)
    /\ stopCalled' = TRUE
    /\ before' = IF stopCalled THEN before
                 ELSE {m \in ToSet(queue) : m.left = 0}
    /\ UNCHANGED <<now, queueVars, currentTime, handled>>

\* Mutant: a message goes before those of its own time.
PlaceBeforeEqual(q, m) ==
    {n \in 1..(Len(q) + 1) : /\ \A i \in 1..(n - 1) : q[i].timeStamp < m.timeStamp
                             /\ n <= Len(q) => q[n].timeStamp >= m.timeStamp}

\* Before the first message of a later time, or at the end of the list.
Place(q, m) ==
    {n \in 1..(Len(q) + 1) : /\ \A i \in 1..(n - 1) : q[i].timeStamp <= m.timeStamp
                             /\ n <= Len(q) => q[n].timeStamp > m.timeStamp}

HdfMessageQueueEnqueue(s) ==
    /\ at[s] = "insert"
    /\ \E n \in Place(queue, msg[s]) : queue' = InsertAt(queue, n, msg[s])
    /\ Goes(s, "post")
    /\ UNCHANGED <<now, sem, destroyed, msg, currentTime, sent, history>>

\* Mutant: a sender posts only if its message is the only one.
PostIfAlone(s) ==
    /\ at[s] = "post"
    /\ sem' = IF destroyed \/ Len(queue) # 1 THEN sem ELSE sem + 1
    /\ Empties(s)
    /\ UNCHANGED <<now, queue, destroyed, currentTime, sent, history>>

EnqueuePost(s) ==
    /\ at[s] = "post"
    /\ sem' = IF destroyed THEN sem ELSE sem + 1
    /\ Empties(s)
    /\ UNCHANGED <<now, queue, destroyed, currentTime, sent, history>>

(***************************************************************************)
(* The looper.                                                             *)
(***************************************************************************)
HdfMessageQueueNext ==
    /\ at[Looper] = "next"
    /\ currentTime' = now
    /\ Goes(Looper, "scan")
    /\ UNCHANGED <<now, queueVars, msg, sent, history>>

\* The first message that is due.
Due(q) ==
    LET due == {i \in DOMAIN q : q[i].timeStamp <= currentTime}
    IN  {i \in due : \A j \in due : i <= j}

NextScan ==
    /\ at[Looper] = "scan"
    /\ \/ \E i \in Due(queue) :
             /\ msg' = [msg EXCEPT ![Looper] = queue[i]]
             /\ queue' = RemoveAt(queue, i)
             /\ Goes(Looper, IF queue[i].stop THEN "stop" ELSE "dispatch")
       \/ /\ Due(queue) = {}
          /\ Goes(Looper, "wait")
          /\ UNCHANGED <<msg, queue>>
    /\ UNCHANGED <<now, sem, destroyed, currentTime, sent, history>>

\* OsalSemWait for ever; Next returns NULL.
NextWait ==
    /\ at[Looper] = "wait"
    /\ sem > 0
    /\ sem' = sem - 1
    /\ Goes(Looper, "next")
    /\ UNCHANGED <<now, queue, destroyed, msg, currentTime, sent, history>>

HdfMessageTaskDispatchMessage ==
    /\ at[Looper] = "dispatch"
    /\ handled' = Append(handled, msg[Looper])
    /\ Empties(Looper)
    /\ UNCHANGED <<now, queueVars, currentTime, sent, stopCalled, before>>

\* OsalMessageQueueDestroy: mutex and semaphore ...
OsalMessageQueueDestroy ==
    /\ at[Looper] = "stop"
    /\ destroyed' = TRUE
    /\ Goes(Looper, "flush")
    /\ UNCHANGED <<now, queue, sem, msg, currentTime, sent, history>>

\* ... and the messages left.
DestroyFlush ==
    /\ at[Looper] = "flush"
    /\ queue' = <<>>
    /\ Goes(Looper, "stopped")
    /\ UNCHANGED <<now, sem, destroyed, msg, currentTime, sent, history>>

LooperStep ==
    HdfMessageQueueNext \/ NextScan \/ NextWait \/ HdfMessageTaskDispatchMessage
    \/ OsalMessageQueueDestroy \/ DestroyFlush

Next ==
    \/ Tick
    \/ \E s \in Senders :
          HdfMessageTaskSendMessage(s) \/ HdfMessageLooperStop(s)
          \/ HdfMessageQueueEnqueue(s) \/ EnqueuePost(s)
    \/ HdfMessageQueueNext \/ NextScan \/ NextWait \/ HdfMessageTaskDispatchMessage
    \/ OsalMessageQueueDestroy \/ DestroyFlush

\* Threads that can run are run; nobody has to send, and the clock need not
\* advance while the model looks.
Fairness ==
    /\ \A s \in Senders : WF_vars(HdfMessageQueueEnqueue(s)) /\ WF_vars(EnqueuePost(s))
    /\ WF_vars(LooperStep)

Spec == Init /\ [][Next]_vars /\ Fairness

(***************************************************************************)
(* Properties.                                                             *)
(***************************************************************************)
Messages == [id : 0..MaxSends, by : Senders \cup {"none"}, left : Delays \cup {0},
             timeStamp : Nat, stop : BOOLEAN]

\* Type invariant; a post never exceeds the messages sent.
TypeOK ==
    /\ now \in 0..MaxTime /\ currentTime \in 0..now
    /\ queue \in Seq(Messages) /\ handled \in Seq(Messages)
    /\ sem \in 0..sent /\ destroyed \in BOOLEAN
    /\ at[Looper] \in {"next", "scan", "wait", "dispatch", "stop", "flush", "stopped"}
    /\ \A s \in Senders : at[s] \in {"idle", "insert", "post"}
    /\ msg \in [Senders \cup {Looper} -> Messages]
    /\ sent \in 0..MaxSends
    /\ stopCalled \in BOOLEAN /\ before \subseteq Messages

\* What one sender queues with the same delay is dispatched in the order it was
\* sent, whatever other messages are queued and although every dispatch looks
\* at a time read before the list: HdfMessageQueueEnqueue keeps messages of
\* one time in order of arrival.
SenderOrder ==
    LET line == handled \o (IF at[Looper] = "dispatch" THEN <<msg[Looper]>> ELSE <<>>) \o queue
    IN  \A i, j \in DOMAIN line :
          /\ i < j /\ ~line[i].stop /\ ~line[j].stop
          /\ line[i].by = line[j].by /\ line[i].left = line[j].left
          => line[i].id < line[j].id

\* A looper that stops has dispatched every message that was in its queue, to be
\* dispatched at once, when HdfMessageLooperStop was first called: a stop is a
\* message like the others and OsalMessageQueueDestroy flushes only later ones.
StopDrains ==
    at[Looper] \in {"stop", "flush", "stopped"} => before \subseteq ToSet(handled)

=============================================================================

--------------------------- MODULE HdfVNodeAdapter ---------------------------
(***************************************************************************)
(* The kernel side of the device-event channel                             *)
(* (core/adapter/vnode/src/hdf_vnode_adapter.c): one adapter per published *)
(* device node, one client per open file, a bounded event queue per        *)
(* client.  A driver broadcasts events to the clients, or sends one to a   *)
(* single client; user threads open, start, stop, wake, poll, read and     *)
(* close concurrently.                                                     *)
(*                                                                         *)
(* Atomicity.  A client's operations run under client->mutex and are one   *)
(* step each.  A send holds adapter->mutex over its walk of clientList but *)
(* takes each client->mutex separately: one step per client, with any      *)
(* client operation in between.  `send' is that walk, and adapter->mutex   *)
(* is held exactly while send # NoSend.                                    *)
(*                                                                         *)
(* Events are numbered in the order the adapter mutex admits their senders.*)
(***************************************************************************)
EXTENDS Naturals, Sequences, FiniteSets

CONSTANTS
    Clients,          \* the open-file slots of the device node
    EVENT_QUEUE_MAX,  \* capacity of a client's queue (100 in the code)
    MaxEvents,        \* bound on the number of sends
    MaxWakeup,        \* bound on the pending wake-ups of a client
    All               \* the NULL vnodeClient of a broadcast

ASSUME VNodeAssumption ==
    /\ EVENT_QUEUE_MAX \in Nat \ {0}
    /\ MaxEvents \in Nat
    /\ MaxWakeup \in Nat
    /\ All \notin Clients

VARIABLES
    clientList,      \* adapter->clientList
    file,            \* phase of the file behind each slot
    status,          \* client->status
    eventQueue,      \* client->eventQueue, oldest event first
    eventQueueSize,  \* client->eventQueueSize
    wakeup,          \* client->wakeup
    send,            \* the send in progress under adapter->mutex, or NoSend
    lastEvent,       \* number of the last event handed to the adapter
    corrupted,       \* a list head was freed as if it were an event
    lastRead,        \* history: the last event each open file has read
    reached,         \* history: clients the send in progress enqueued to
    late             \* history: clients that began to listen during the send

kernelVars == <<clientList, file, status, eventQueue, eventQueueSize, wakeup>>
histVars   == <<lastRead, reached, late>>
vars == <<clientList, file, status, eventQueue, eventQueueSize, wakeup,
          send, lastEvent, corrupted, lastRead, reached, late>>

HdfVNodeClientStatus == {"RUNNING", "LISTENING", "STOPPED", "EXITED"}
FilePhase == {"closed", "opening", "open", "destroying"}
Event     == 1..MaxEvents
NoSend    == [ev |-> 0, target |-> All, pos |-> 0, ret |-> "FAILURE"]
Walk      == [ev : Event, target : Clients \cup {All}, pos : Nat \ {0},
              ret : {"FAILURE", "SUCCESS", "NO_MEMORY"}]
SendState == Walk \cup {NoSend}

Init ==
    /\ clientList = <<>>
    /\ file = [c \in Clients |-> "closed"]
    /\ status = [c \in Clients |-> "STOPPED"]
    /\ eventQueue = [c \in Clients |-> <<>>]
    /\ eventQueueSize = [c \in Clients |-> 0]
    /\ wakeup = [c \in Clients |-> 0]
    /\ send = NoSend
    /\ lastEvent = 0
    /\ corrupted = FALSE
    /\ lastRead = [c \in Clients |-> 0]
    /\ reached = {}
    /\ late = {}

AdapterMutexFree == send = NoSend

\* The file is open and its ioctls can run; nothing runs once the heap is
\* corrupted.
Usable(c) == file[c] = "open" /\ ~corrupted

(***************************************************************************)
(* Opening and closing a file.                                             *)
(***************************************************************************)
\* HdfVNodeAdapterOpen up to the service's Open callback: the new client is
\* already in clientList when the callback runs.
HdfNewVNodeAdapterClient(c) ==
    /\ file[c] = "closed" /\ AdapterMutexFree
    /\ clientList' = Append(clientList, c)
    /\ file' = [file EXCEPT ![c] = "opening"]
    /\ status' = [status EXCEPT ![c] = "RUNNING"]
    /\ eventQueue' = [eventQueue EXCEPT ![c] = <<>>]
    /\ eventQueueSize' = [eventQueueSize EXCEPT ![c] = 0]
    /\ wakeup' = [wakeup EXCEPT ![c] = 0]
    /\ lastRead' = [lastRead EXCEPT ![c] = 0]
    /\ UNCHANGED <<send, lastEvent, corrupted, reached, late>>

\* The rest of HdfVNodeAdapterOpen: the callback succeeds, or the client is
\* destroyed again.
HdfVNodeAdapterOpen(c) ==
    /\ file[c] = "opening" /\ ~corrupted
    /\ \/ /\ file' = [file EXCEPT ![c] = "open"]
          /\ UNCHANGED status
       \/ /\ file' = [file EXCEPT ![c] = "destroying"]
          /\ status' = [status EXCEPT ![c] = "STOPPED"]
    /\ UNCHANGED <<clientList, eventQueue, eventQueueSize, wakeup, send,
                   lastEvent, corrupted, histVars>>

\* HdfVNodeAdapterClose: service Release, then the unlocked first assignment
\* of HdfDestoryVNodeAdapterClient.
HdfVNodeAdapterClose(c) ==
    /\ Usable(c)
    /\ file' = [file EXCEPT ![c] = "destroying"]
    /\ status' = [status EXCEPT ![c] = "STOPPED"]
    /\ UNCHANGED <<clientList, eventQueue, eventQueueSize, wakeup, send,
                   lastEvent, corrupted, histVars>>

\* HdfDestoryVNodeAdapterClient once it has adapter->mutex: unlink, empty the
\* queue, free.  No other thread can reach the client once it is unlinked.
HdfDestoryVNodeAdapterClient(c) ==
    /\ file[c] = "destroying" /\ AdapterMutexFree
    /\ \E i \in 1..Len(clientList) :
          /\ clientList[i] = c
          /\ clientList' = SubSeq(clientList, 1, i - 1)
                              \o SubSeq(clientList, i + 1, Len(clientList))
    /\ file' = [file EXCEPT ![c] = "closed"]
    /\ eventQueue' = [eventQueue EXCEPT ![c] = <<>>]
    /\ UNCHANGED <<status, eventQueueSize, wakeup, send, lastEvent, corrupted,
                   histVars>>

(***************************************************************************)
(* The driver's side: HdfDeviceSendEvent (target = All) and                *)
(* HdfDeviceSendEventToClient (target = a client).                         *)
(***************************************************************************)
\* HdfVNodeAdapterSendDevEvent locks the adapter and starts its walk.
HdfDeviceSendEvent(target) ==
    /\ AdapterMutexFree /\ lastEvent < MaxEvents
    /\ lastEvent' = lastEvent + 1
    /\ send' = [ev |-> lastEvent + 1, target |-> target, pos |-> 1,
                ret |-> "FAILURE"]
    /\ reached' = {} /\ late' = {}
    /\ UNCHANGED <<kernelVars, corrupted, lastRead>>

\* The loop over clientList: another client to visit, or the loop is over.
Walking  == /\ send # NoSend /\ ~corrupted
            /\ send.pos <= Len(clientList) /\ send.ret # "NO_MEMORY"
WalkOver == /\ send # NoSend /\ ~corrupted
            /\ send.pos > Len(clientList) \/ send.ret = "NO_MEMORY"
Visited  == clientList[send.pos]

\* HdfVnodeAdapterDropOldEventLocked on an empty list unlinks and frees the
\* list head itself: the kernel heap is corrupted and the model stops.
DropsListHead(c) == eventQueueSize[c] >= EVENT_QUEUE_MAX /\ eventQueue[c] = <<>>

\* What is left of the queue, and of the counter, before the new event is
\* linked in.
QueueAfterDrop(c) == IF eventQueueSize[c] >= EVENT_QUEUE_MAX
                     THEN Tail(eventQueue[c]) ELSE eventQueue[c]
SizeAfterDrop(c)  == IF eventQueueSize[c] >= EVENT_QUEUE_MAX
                     THEN eventQueueSize[c] - 1 ELSE eventQueueSize[c]

\* Mutant: the status is not tested.
TakesEventsAlways(c) == TRUE

\* Only a listening client is sent anything.
TakesEvents(c) == status[c] = "LISTENING"

\* Mutant: the event is linked in at the head.
InsertHead(q, e) == <<e>> \o q

\* DListInsertTail of the new event.
InsertTail(q, e) == Append(q, e)

\* Mutant: the walk goes on after a failed allocation.
SkipAfterNoMemory == [send EXCEPT !.pos = @ + 1, !.ret = "SUCCESS"]

\* The walk after a failed allocation: the loop is left with the error.
LeaveWalk == [send EXCEPT !.ret = "NO_MEMORY"]

\* The walk passes over a client that is not the target or not listening.
SkipClient ==
    /\ Walking
    /\ \/ /\ send.target \notin {All, Visited}
          /\ send' = [send EXCEPT !.pos = @ + 1]
       \/ /\ send.target \in {All, Visited} /\ ~TakesEvents(Visited)
          /\ send' = [send EXCEPT !.pos = @ + 1, !.ret = "SUCCESS"]
    /\ UNCHANGED <<kernelVars, lastEvent, corrupted, histVars>>

\* VNodeAdapterSendDevEventToClient on a listening client: drop the oldest
\* event when the counter says the queue is full, then allocate, link and wake.
VNodeAdapterSendDevEventToClient ==
    /\ Walking
    /\ LET c == Visited IN
       /\ send.target \in {All, c}
       /\ TakesEvents(c)
       /\ ~DropsListHead(c)
       /\ eventQueue' = [eventQueue EXCEPT ![c] = InsertTail(QueueAfterDrop(c), send.ev)]
       /\ eventQueueSize' = [eventQueueSize EXCEPT ![c] = SizeAfterDrop(c) + 1]
       /\ reached' = reached \cup {c}
    /\ send' = [send EXCEPT !.pos = @ + 1, !.ret = "SUCCESS"]
    /\ UNCHANGED <<clientList, file, status, wakeup, lastEvent, corrupted,
                   lastRead, late>>

\* The same with OsalMemAlloc or HdfSbufCopy failing: the oldest event is
\* already gone, and the walk is abandoned.
SendOutOfMemory ==
    /\ Walking
    /\ LET c == Visited IN
       /\ send.target \in {All, c}
       /\ TakesEvents(c)
       /\ ~DropsListHead(c)
       /\ eventQueue' = [eventQueue EXCEPT ![c] = QueueAfterDrop(c)]
       /\ eventQueueSize' = [eventQueueSize EXCEPT ![c] = SizeAfterDrop(c)]
    /\ send' = LeaveWalk
    /\ UNCHANGED <<clientList, file, status, wakeup, lastEvent, corrupted,
                   histVars>>

\* The same with nothing to drop although the counter is at the limit.
SendDropsListHead ==
    /\ Walking
    /\ send.target \in {All, Visited}
    /\ TakesEvents(Visited)
    /\ DropsListHead(Visited)
    /\ corrupted' = TRUE
    /\ UNCHANGED <<kernelVars, send, lastEvent, histVars>>

\* The walk is over: unlock the adapter and return ret.
SendReturn ==
    /\ WalkOver
    /\ send' = NoSend
    /\ reached' = {} /\ late' = {}
    /\ UNCHANGED <<kernelVars, lastEvent, corrupted, lastRead>>

(***************************************************************************)
(* The user's side: the ioctls and poll of an open file.                   *)
(***************************************************************************)
HdfVNodeAdapterClientStartListening(c) ==
    /\ Usable(c)
    /\ status' = [status EXCEPT ![c] = "LISTENING"]
    /\ late' = IF status[c] = "LISTENING" \/ AdapterMutexFree
               THEN late ELSE late \cup {c}
    /\ UNCHANGED <<clientList, file, eventQueue, eventQueueSize, wakeup, send,
                   lastEvent, corrupted, lastRead, reached>>

\* Mutant: the counter is reset and the events are kept.
ResetCounterOnly(c) ==
    /\ eventQueueSize' = [eventQueueSize EXCEPT ![c] = 0]
    /\ UNCHANGED eventQueue

\* HdfVnodeCleanEventQueue: every event is unlinked and freed.  The counter
\* keeps its value.
HdfVnodeCleanEventQueue(c) ==
    /\ eventQueue' = [eventQueue EXCEPT ![c] = <<>>]
    /\ UNCHANGED eventQueueSize

HdfVNodeAdapterClientStopListening(c) ==
    /\ Usable(c)
    /\ status' = [status EXCEPT ![c] = "STOPPED"]
    /\ HdfVnodeCleanEventQueue(c)
    /\ UNCHANGED <<clientList, file, wakeup, send, lastEvent, corrupted, histVars>>

HdfVNodeAdapterClientExitListening(c) ==
    /\ Usable(c)
    /\ status' = [status EXCEPT ![c] = "EXITED"]
    /\ HdfVnodeCleanEventQueue(c)
    /\ UNCHANGED <<clientList, file, wakeup, send, lastEvent, corrupted, histVars>>

HdfVNodeAdapterClientWakeup(c) ==
    /\ Usable(c)
    /\ status[c] = "LISTENING"
    /\ wakeup[c] < MaxWakeup
    /\ wakeup' = [wakeup EXCEPT ![c] = @ + 1]
    /\ UNCHANGED <<clientList, file, status, eventQueue, eventQueueSize, send,
                   lastEvent, corrupted, histVars>>

\* Mutant: the count of wake-ups is not tested.
ReadyWhenEmpty(c) == eventQueue[c] = <<>>

\* The last branch of HdfVNodeAdapterPoll: nothing queued, a wake-up pending.
WakeupPending(c) == eventQueue[c] = <<>> /\ wakeup[c] > 0

\* HdfVNodeAdapterPoll reporting POLLIN on account of a wake-up, which it
\* consumes; its other answers change nothing.
HdfVNodeAdapterPoll(c) ==
    /\ Usable(c)
    /\ status[c] # "EXITED" /\ WakeupPending(c)
    /\ wakeup' = [wakeup EXCEPT ![c] = @ - 1]
    /\ UNCHANGED <<clientList, file, status, eventQueue, eventQueueSize, send,
                   lastEvent, corrupted, histVars>>

\* A successful HdfVNodeAdapterReadDevEvent; when the buffer is too small or a
\* copy fails the event stays at the head of the queue.
HdfVNodeAdapterReadDevEvent(c) ==
    /\ Usable(c)
    /\ eventQueue[c] # <<>>
    /\ lastRead' = [lastRead EXCEPT ![c] = Head(eventQueue[c])]
    /\ eventQueue' = [eventQueue EXCEPT ![c] = Tail(@)]
    /\ eventQueueSize' = [eventQueueSize EXCEPT ![c] = @ - 1]
    /\ UNCHANGED <<clientList, file, status, wakeup, send, lastEvent, corrupted,
                   reached, late>>

UserStep(c) ==
    \/ HdfNewVNodeAdapterClient(c)
    \/ HdfVNodeAdapterOpen(c)
    \/ HdfVNodeAdapterClose(c)
    \/ HdfDestoryVNodeAdapterClient(c)
    \/ HdfVNodeAdapterClientStartListening(c)
    \/ HdfVNodeAdapterClientStopListening(c)
    \/ HdfVNodeAdapterClientExitListening(c)
    \/ HdfVNodeAdapterClientWakeup(c)
    \/ HdfVNodeAdapterPoll(c)
    \/ HdfVNodeAdapterReadDevEvent(c)

SendStep ==
    \/ SkipClient
    \/ VNodeAdapterSendDevEventToClient
    \/ SendOutOfMemory
    \/ SendDropsListHead
    \/ SendReturn

Next ==
    \/ \E c \in Clients : UserStep(c)
    \/ \E t \in Clients \cup {All} : HdfDeviceSendEvent(t)
    \/ SendStep

Spec == Init /\ [][Next]_vars

(***************************************************************************)
(* Properties.                                                             *)
(***************************************************************************)
\* Type invariant of the adapter and its clients.
TypeOK ==
    /\ clientList \in Seq(Clients)
    /\ file \in [Clients -> FilePhase]
    /\ status \in [Clients -> HdfVNodeClientStatus]
    /\ eventQueue \in [Clients -> Seq(Event)]
    /\ eventQueueSize \in [Clients -> Nat]
    /\ wakeup \in [Clients -> 0..MaxWakeup]
    /\ send \in SendState
    /\ lastEvent \in 0..MaxEvents
    /\ corrupted \in BOOLEAN
    /\ lastRead \in [Clients -> 0..MaxEvents]
    /\ reached \in SUBSET Clients
    /\ late \in SUBSET Clients

\* Kernel memory is bounded: the counter that the overflow test reads never
\* falls below the real length of the queue and never exceeds the capacity, so
\* no client ever holds more than EVENT_QUEUE_MAX events, across any number of
\* stops, exits and failed allocations (hdf_vnode_adapter.c:324).
QueueBounded ==
    \A c \in Clients :
        /\ Len(eventQueue[c]) <= eventQueueSize[c]
        /\ eventQueueSize[c] <= EVENT_QUEUE_MAX

\* A client that is not listening holds no event: a send that raced with a
\* stop or an exit cannot leave an event behind for the next listener of the
\* same file (hdf_vnode_adapter.c:320).  A client being destroyed is exempt:
\* its status is set before the queue is emptied.
NothingQueuedUnlessListening ==
    \A c \in Clients :
        status[c] # "LISTENING" /\ file[c] # "destroying" => eventQueue[c] = <<>>

\* A file reads events in the order they were sent and none twice, whatever
\* is dropped on overflow or discarded by a stop: the queue is strictly
\* increasing and later than everything read (hdf_vnode_adapter.c:276, 340).
ReadInSendOrder ==
    \A c \in Clients :
        \A i \in 1..Len(eventQueue[c]) :
            /\ lastRead[c] < eventQueue[c][i]
            /\ \A j \in 1..(i - 1) : eventQueue[c][j] < eventQueue[c][i]

\* A broadcast that ends with HDF_SUCCESS has reached every client that was
\* listening before it began and still is: none is passed over, although
\* listeners come and go during the walk (hdf_vnode_adapter.c:358).
BroadcastReachesListeners ==
    WalkOver /\ send.ret = "SUCCESS" /\ send.target = All =>
        \A c \in Clients :
            file[c] = "open" /\ status[c] = "LISTENING" /\ c \notin late
                => c \in reached

\* The oldest event is dropped only when the queue is full, as the message the
\* code logs when it drops one says (hdf_vnode_adapter.c:308).
DropsOnlyWhenFull ==
    [][\A c \in Clients :
          send # NoSend /\ eventQueue'[c] # eventQueue[c] /\ send' # send
              /\ eventQueue[c] # <<>>
              /\ (eventQueue'[c] = <<>> \/ Head(eventQueue'[c]) # Head(eventQueue[c]))
          => Len(eventQueue[c]) >= EVENT_QUEUE_MAX]_vars
=============================================================================

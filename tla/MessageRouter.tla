--------------------------- MODULE MessageRouter ---------------------------
(***************************************************************************)
(* The message engine of the WLAN model on one node: services              *)
(* (message_router.c, nodes/local_node.c) that send each other messages    *)
(* through their sidecars (sidecar.c), and dispatchers, each a thread with *)
(* a queue of several priorities (message_dispatcher.c,                    *)
(* hdf_wlan_priority_queue.c).                                             *)
(*                                                                         *)
(* Atomicity.  g_routerMutex is held through the removal of a service from *)
(* the index and through each RefRemoteService.  A reference is given back *)
(* outside of it, in two steps: the count is decremented, then read        *)
(* (shared_obj.h).  The bounded queues are external; pushing and popping   *)
(* are one step each.                                                      *)
(*                                                                         *)
(* The model starts when services and dispatchers have been set up; the    *)
(* dispatchers then run for ever.  ShutdownMessageRouter is left out.      *)
(***************************************************************************)
EXTENDS Integers, Sequences, FiniteSets

CONSTANTS Services,      \* services registered at the start
          Dispatchers,   \* dispatcher threads
          DispatcherOf,  \* the dispatcher of each service
          Clients,       \* threads that send, and destroy services
          QueueSize,     \* of each priority of a dispatcher
          Levels,        \* priorityLevelCount
          Priorities,    \* priorities in the services' message definitions
          DestroyWhen,   \* what clients wait for before they destroy a service
          MaxMessages,   \* bound on the messages sent
          MaxDestroys    \* bound on the services destroyed

Threads  == Clients \cup Dispatchers
Contexts == 1..MaxMessages

VARIABLES
    index,       \* services in g_servicesIndex
    refCount,    \* refCount of each RemoteService
    destroyed,   \* number of times each RemoteService was destroyed
    queues,      \* the queues of each dispatcher, by priority
    sem,         \* messageSemaphore of each dispatcher
    at,          \* where each thread stands
    level,       \* PopQueueByPri: the priority a dispatcher looks at
    cur,         \* the context in the hands of each thread, or 0
    held,        \* references of each thread, in the order it gives them back
    ctx,         \* the contexts
    freed,       \* number of times each context was released
    sent,        \* number of contexts made
    sender,      \* history: the service that sent each context
    accepted,    \* history: contexts whose SendAsyncMessage succeeded
    executed,    \* history: requests in the order their handlers ran
    answered     \* history: the dispatchers that called each context's callback

serviceVars == <<index, refCount, destroyed>>
queueVars   == <<queues, sem>>
outcome     == <<accepted, executed, answered>>
history     == <<sender, outcome>>
vars == <<serviceVars, queueVars, at, level, cur, held, ctx, freed, sent, history>>

NoContext == [type |-> "NONE", from |-> "none", to |-> "none", cb |-> FALSE, pri |-> 0,
              by |-> "none"]

Init ==
    /\ index = Services
    /\ refCount = [s \in Services |-> 1]
    /\ destroyed = [s \in Services |-> 0]
    /\ queues = [d \in Dispatchers |-> [l \in 0..(Levels - 1) |-> <<>>]]
    /\ sem = [d \in Dispatchers |-> 0]
    /\ at = [t \in Threads |-> IF t \in Clients THEN "idle" ELSE "pop"]
    /\ level = [d \in Dispatchers |-> 0]
    /\ cur = [t \in Threads |-> 0]
    /\ held = [t \in Threads |-> <<>>]
    /\ ctx = [m \in Contexts |-> NoContext]
    /\ freed = [m \in Contexts |-> 0]
    /\ sent = 0
    /\ sender = [m \in Contexts |-> "none"]
    /\ accepted = {} /\ executed = <<>> /\ answered = [m \in Contexts |-> <<>>]

Goes(t, p) == at' = [at EXCEPT ![t] = p]
Ctx(t)     == ctx[cur[t]]

\* A dispatcher looks for the next message from the highest priority on; a
\* client returns from its call.
Ends(t) == Goes(t, IF t \in Clients THEN "end" ELSE "pop")
Drops(t) == cur' = [cur EXCEPT ![t] = 0]

(***************************************************************************)
(* Shared objects and the index.                                           *)
(***************************************************************************)
RouterFree == \A c \in Clients : at[c] # "unregist"

\* RefRemoteService finds the service ...
RefRemoteService(t, s) ==
    /\ RouterFree
    /\ s \in index
    /\ refCount' = [refCount EXCEPT ![s] = @ + 1]
    /\ held' = [held EXCEPT ![t] = Append(@, s)]
    /\ UNCHANGED <<index, destroyed>>

\* ... or does not.
RefFails(t, s) ==
    /\ RouterFree
    /\ s \notin index
    /\ UNCHANGED <<serviceVars, held>>

\* Disref: OsalAtomicDec ...
Disref(t) ==
    /\ at[t] = "disref"
    /\ refCount' = [refCount EXCEPT ![Head(held[t])] = @ - 1]
    /\ Goes(t, "read")
    /\ UNCHANGED <<index, destroyed, queueVars, level, cur, held, ctx, freed, sent, history>>

\* ... and OsalAtomicRead.
DestroyIfUnused(s) ==
    destroyed' = [destroyed EXCEPT ![s] = IF refCount[s] <= 0 THEN @ + 1 ELSE @]

DisrefRead(t) ==
    /\ at[t] = "read"
    /\ DestroyIfUnused(Head(held[t]))
    /\ held' = [held EXCEPT ![t] = Tail(@)]
    /\ IF Len(held[t]) > 1 THEN Goes(t, "disref") ELSE Ends(t)
    /\ UNCHANGED <<index, refCount, queueVars, level, cur, ctx, freed, sent, history>>

(***************************************************************************)
(* Queues.                                                                 *)
(***************************************************************************)
\* AppendToLocalDispatcher, PushPriorityQueue: into the queue of the service's
\* dispatcher; priorities it does not have are its lowest.
PushPriorityQueue(s, pri, m) ==
    LET d == DispatcherOf[s]
        l == IF pri >= Levels THEN Levels - 1 ELSE pri
    IN  /\ Len(queues[d][l]) < QueueSize
        /\ queues' = [queues EXCEPT ![d][l] = Append(@, m)]

QueueFull(s, pri) ==
    /\ Len(queues[DispatcherOf[s]][IF pri >= Levels THEN Levels - 1 ELSE pri]) >= QueueSize
    /\ UNCHANGED queues

Posts(s) == sem' = [sem EXCEPT ![DispatcherOf[s]] = @ + 1]

(***************************************************************************)
(* Clients.                                                                *)
(***************************************************************************)
\* CreateMessageContext for a synchronous, an asynchronous or a one-way message.
CreateMessageContext(c, type, from, to, cb, pri) ==
    /\ at[c] = "idle" /\ sent < MaxMessages
    /\ from \in index
    /\ sent' = sent + 1
    /\ ctx' = [ctx EXCEPT ![sent + 1] =
                 [type |-> type, from |-> from, to |-> to, cb |-> cb, pri |-> pri,
                  by |-> c]]
    /\ cur' = [cur EXCEPT ![c] = sent + 1]
    /\ sender' = [sender EXCEPT ![sent + 1] = from]
    /\ Goes(c, "ref")
    /\ UNCHANGED <<serviceVars, queueVars, level, held, freed, outcome>>

SideCarSendSyncMessage(c) ==
    \E from, to \in Services :
        from # to /\ CreateMessageContext(c, "SYNC_REQ", from, to, FALSE, 0)

\* SideCarSendAsyncMessage with a callback, SideCarSendOneWayMessage without.
SideCarSendAsyncMessageInner(c) ==
    \E from, to \in Services, cb \in BOOLEAN, pri \in Priorities :
        from # to /\ CreateMessageContext(c, "ASYNC_REQ", from, to, cb, pri)

SendRef(c) ==
    /\ at[c] = "ref"
    /\ \/ RefRemoteService(c, Ctx(c).to) /\ Goes(c, "send")
       \/ RefFails(c, Ctx(c).to) /\ Goes(c, "end")
    /\ UNCHANGED <<queueVars, level, cur, ctx, freed, sent, history>>

\* SendMessageLocalNode: a synchronous request is handled by the caller ...
SendMessageSync(c) ==
    /\ at[c] = "send" /\ Ctx(c).type = "SYNC_REQ"
    /\ executed' = Append(executed, cur[c])
    /\ Goes(c, "disref")
    /\ UNCHANGED <<serviceVars, queueVars, level, cur, held, ctx, freed, sent, sender, accepted, answered>>

\* ... an asynchronous one is queued.
SendMessageLocalNode(c) ==
    /\ at[c] = "send" /\ Ctx(c).type = "ASYNC_REQ"
    /\ \/ /\ PushPriorityQueue(Ctx(c).to, Ctx(c).pri, cur[c])
          /\ accepted' = accepted \cup {cur[c]}
          /\ Drops(c)
          /\ Goes(c, "post")
       \/ /\ QueueFull(Ctx(c).to, Ctx(c).pri)
          /\ Goes(c, "disref")
          /\ UNCHANGED <<accepted, cur>>
    /\ UNCHANGED <<serviceVars, sem, level, held, ctx, freed, sent, sender, executed, answered>>

SendPost(c) ==
    /\ at[c] = "post"
    /\ Posts(Head(held[c]))
    /\ Goes(c, "disref")
    /\ UNCHANGED <<serviceVars, queues, level, cur, held, ctx, freed, sent, history>>

\* The caller frees the context of a synchronous message, or of one that could
\* not be sent.
SendEnd(c) ==
    /\ at[c] = "end"
    /\ freed' = [m \in Contexts |-> IF m = cur[c] THEN freed[m] + 1 ELSE freed[m]]
    /\ Drops(c)
    /\ Goes(c, "idle")
    /\ UNCHANGED <<serviceVars, queueVars, level, held, ctx, sent, history>>

MayDestroy(s) ==
    CASE DestroyWhen = "unused"   -> refCount[s] = 1 /\ \A t \in Threads : at[t] # "read"
      [] DestroyWhen = "answered" -> /\ sent > 0 /\ accepted = 1..sent
                                     /\ \A m \in 1..sent : ctx[m].cb /\ answered[m] # <<>>

\* DestroyService, UnregistServiceInner: the reference of the index is given
\* back with g_routerMutex held.
DestroyService(c, s) ==
    /\ at[c] = "idle"
    /\ RouterFree /\ s \in index
    /\ Cardinality(Services \ index) < MaxDestroys
    /\ MayDestroy(s)
    /\ refCount' = [refCount EXCEPT ![s] = @ - 1]
    /\ held' = [held EXCEPT ![c] = <<s>>]
    /\ Goes(c, "unregist")
    /\ UNCHANGED <<index, destroyed, queueVars, level, cur, ctx, freed, sent, history>>

UnregistServiceInner(c) ==
    /\ at[c] = "unregist"
    /\ DestroyIfUnused(Head(held[c]))
    /\ index' = index \ {Head(held[c])}
    /\ held' = [held EXCEPT ![c] = <<>>]
    /\ Goes(c, "idle")
    /\ UNCHANGED <<refCount, queueVars, level, cur, ctx, freed, sent, history>>

(***************************************************************************)
(* Dispatchers.                                                            *)
(***************************************************************************)
\* PopQueueByPri: one priority after the other.
PopPriorityQueue(d) ==
    /\ at[d] = "pop"
    /\ \/ /\ queues[d][level[d]] # <<>>
          /\ cur' = [cur EXCEPT ![d] = Head(queues[d][level[d]])]
          /\ queues' = [queues EXCEPT ![d][level[d]] = Tail(@)]
          /\ level' = [level EXCEPT ![d] = 0]
          /\ Goes(d, "handle")
       \/ /\ queues[d][level[d]] = <<>> /\ level[d] < Levels - 1
          /\ level' = [level EXCEPT ![d] = @ + 1]
          /\ UNCHANGED <<at, cur, queues>>
       \/ /\ queues[d][level[d]] = <<>> /\ level[d] = Levels - 1
          /\ level' = [level EXCEPT ![d] = 0]
          /\ Goes(d, "wait")
          /\ UNCHANGED <<cur, queues>>
    /\ UNCHANGED <<serviceVars, sem, held, ctx, freed, sent, history>>

\* OsalSemWait for QUEUE_OPER_TIMEOUT.
PopWait(d) ==
    /\ at[d] = "wait"
    /\ \/ sem[d] > 0 /\ sem' = [sem EXCEPT ![d] = @ - 1]
       \/ sem[d] = 0 /\ UNCHANGED sem
    /\ Goes(d, "pop")
    /\ UNCHANGED <<serviceVars, queues, level, cur, held, ctx, freed, sent, history>>

ReleaseMessageContext(t) ==
    /\ freed' = [freed EXCEPT ![cur[t]] = @ + 1]
    /\ Drops(t)

\* Mutant: a callback, and the context stays.
HandleKeepsContext(d) ==
    /\ at[d] = "handle" /\ Ctx(d).type = "ASYNC_RSP"
    /\ answered' = [answered EXCEPT ![cur[d]] = Append(@, d)]
    /\ Drops(d)
    /\ Ends(d)
    /\ UNCHANGED <<serviceVars, queueVars, level, held, ctx, freed, sent, sender, accepted, executed>>

HandleAsyncResponse(d) ==
    /\ at[d] = "handle" /\ Ctx(d).type = "ASYNC_RSP"
    /\ answered' = [answered EXCEPT ![cur[d]] = Append(@, d)]
    /\ ReleaseMessageContext(d)
    /\ Ends(d)
    /\ UNCHANGED <<serviceVars, queueVars, level, held, ctx, sent, sender, accepted, executed>>

\* HandleRequestMessage: the receiver may be gone.
HandleRequestMessage(d) ==
    /\ at[d] = "handle" /\ Ctx(d).type = "ASYNC_REQ"
    /\ \/ /\ RefRemoteService(d, Ctx(d).to)
          /\ Goes(d, "exec")
          /\ UNCHANGED <<freed, cur>>
       \/ /\ RefFails(d, Ctx(d).to)
          /\ ReleaseMessageContext(d)
          /\ Ends(d)
    /\ UNCHANGED <<queueVars, level, ctx, sent, history>>

\* SetToResponse.
AsResponse(m) == [ctx[m] EXCEPT !.type = "ASYNC_RSP", !.from = ctx[m].to, !.to = ctx[m].from]

\* The handler; a one-way message ends here.
ExecRequestMsg(d) ==
    /\ at[d] = "exec"
    /\ executed' = Append(executed, cur[d])
    /\ \/ /\ ~Ctx(d).cb
          /\ ReleaseMessageContext(d)
          /\ Goes(d, "disref")
          /\ UNCHANGED ctx
       \/ /\ Ctx(d).cb
          /\ ctx' = [ctx EXCEPT ![cur[d]] = AsResponse(cur[d])]
          /\ Goes(d, "rspref")
          /\ UNCHANGED <<freed, cur>>
    /\ UNCHANGED <<serviceVars, queueVars, level, held, sent, sender, accepted, answered>>

ResponseRef(d) ==
    /\ at[d] = "rspref"
    /\ \/ /\ RefRemoteService(d, Ctx(d).to)
          /\ Goes(d, "rspsend")
          /\ UNCHANGED <<freed, cur>>
       \/ /\ RefFails(d, Ctx(d).to)
          /\ ReleaseMessageContext(d)
          /\ Goes(d, "disref")
    /\ UNCHANGED <<queueVars, level, ctx, sent, history>>

\* The response goes to the sender's dispatcher with the highest priority, and
\* is dropped if that queue is full.
ResponseSend(d) ==
    /\ at[d] = "rspsend"
    /\ \/ /\ PushPriorityQueue(Ctx(d).to, 0, cur[d])
          /\ Drops(d)
          /\ Goes(d, "rsppost")
          /\ UNCHANGED freed
       \/ /\ QueueFull(Ctx(d).to, 0)
          /\ ReleaseMessageContext(d)
          /\ Goes(d, "disref")
    /\ UNCHANGED <<serviceVars, sem, level, held, ctx, sent, history>>

ResponsePost(d) ==
    /\ at[d] = "rsppost"
    /\ Posts(held[d][2])
    /\ Goes(d, "disref")
    /\ UNCHANGED <<serviceVars, queues, level, cur, held, ctx, freed, sent, history>>

Runs(t) ==
    \/ Disref(t) \/ DisrefRead(t)
    \/ t \in Clients /\ (SendRef(t) \/ SendMessageSync(t) \/ SendMessageLocalNode(t)
                         \/ SendPost(t) \/ SendEnd(t) \/ UnregistServiceInner(t))
    \/ t \in Dispatchers /\ (PopPriorityQueue(t) \/ PopWait(t) \/ HandleAsyncResponse(t)
                             \/ HandleRequestMessage(t) \/ ExecRequestMsg(t)
                             \/ ResponseRef(t) \/ ResponseSend(t) \/ ResponsePost(t))

Next ==
    \/ \E t \in Threads : Disref(t) \/ DisrefRead(t)
    \/ \E c \in Clients :
          \/ SideCarSendSyncMessage(c) \/ SideCarSendAsyncMessageInner(c)
          \/ SendRef(c) \/ SendMessageSync(c) \/ SendMessageLocalNode(c)
          \/ SendPost(c) \/ SendEnd(c)
          \/ UnregistServiceInner(c)
          \/ \E s \in Services : DestroyService(c, s)
    \/ \E d \in Dispatchers :
          \/ PopPriorityQueue(d) \/ PopWait(d) \/ HandleAsyncResponse(d)
          \/ HandleRequestMessage(d) \/ ExecRequestMsg(d)
          \/ ResponseRef(d) \/ ResponseSend(d) \/ ResponsePost(d)

\* Every thread that can run does; handlers and callbacks return.
Spec == Init /\ [][Next]_vars /\ \A t \in Threads : WF_vars(Runs(t))

(***************************************************************************)
(* Properties.                                                             *)
(***************************************************************************)
ContextType == [type : {"NONE", "SYNC_REQ", "ASYNC_REQ", "ASYNC_RSP"},
                from : Services \cup {"none"}, to : Services \cup {"none"},
                cb : BOOLEAN, pri : Priorities \cup {0}, by : Clients \cup {"none"}]

\* Type invariant; queues keep their size.
TypeOK ==
    /\ index \subseteq Services
    /\ refCount \in [Services -> Int] /\ destroyed \in [Services -> Nat]
    /\ \A d \in Dispatchers : \A l \in 0..(Levels - 1) :
          queues[d][l] \in Seq(Contexts) /\ Len(queues[d][l]) <= QueueSize
    /\ sem \in [Dispatchers -> Nat] /\ level \in [Dispatchers -> 0..(Levels - 1)]
    /\ at \in [Threads -> {"idle", "ref", "send", "post", "end", "unregist", "pop", "wait",
                           "handle", "exec", "rspref", "rspsend", "rsppost",
                           "disref", "read"}]
    /\ cur \in [Threads -> 0..sent] /\ held \in [Threads -> Seq(Services)]
    /\ ctx \in [Contexts -> ContextType] /\ freed \in [Contexts -> Nat]
    /\ sent \in 0..MaxMessages /\ sender \in [Contexts -> Services \cup {"none"}]
    /\ accepted \subseteq 1..sent
    /\ executed \in Seq(1..sent) /\ answered \in [Contexts -> Seq(Dispatchers)]

\* A message context has one owner: the sender, one queue or one dispatcher; or
\* it has been released, once.  Neither a full queue nor a service that goes
\* while messages for it, or from it, are on their way leaks a context or
\* releases one that somebody still has.
Owners(m) ==
    {<<t, 0, 0>> : t \in {t \in Threads : cur[t] = m}}
    \cup {o \in Dispatchers \X (0..(Levels - 1)) \X (1..QueueSize) :
             LET q == queues[o[1]][o[2]] IN o[3] <= Len(q) /\ q[o[3]] = m}
ContextOwned ==
    \A m \in 1..sent : Cardinality(Owners(m)) + freed[m] = 1

\* A service that a thread has a reference to has not been destroyed, although
\* references are counted outside of the router's mutex.
HeldIsAlive ==
    \A t \in Threads : \A i \in DOMAIN held[t] :
        i > 1 \/ at[t] \notin {"read", "unregist"} => destroyed[held[t][i]] = 0

\* A callback runs once, after the handler, on the dispatcher of the service that
\* sent the message and not on that of the one that executed it, and never for a
\* message that its sender was told could not be sent.
CallbackOnce ==
    \A m \in Contexts :
        answered[m] # <<>> =>
            /\ Len(answered[m]) = 1 /\ m \in accepted /\ ctx[m].cb
            /\ \E i \in DOMAIN executed : executed[i] = m
            /\ answered[m][1] = DispatcherOf[sender[m]]

\* What a client queues for one service with one priority is executed in the order
\* it was sent, with or without callbacks.
Receiver(m) == IF ctx[m].type = "ASYNC_RSP" THEN ctx[m].from ELSE ctx[m].to
ExecutedInOrder ==
    \A i, j \in DOMAIN executed :
        LET m == executed[i]  n == executed[j]
        IN  i < j /\ {m, n} \subseteq accepted /\ ctx[m].by = ctx[n].by
            /\ Receiver(m) = Receiver(n) /\ ctx[m].pri = ctx[n].pri
            => m < n

=============================================================================

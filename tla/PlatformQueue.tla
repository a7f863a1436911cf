--------------------------- MODULE PlatformQueue ---------------------------
(***************************************************************************)
(* A platform queue: clients add messages, a worker thread handles them    *)
(* one after the other.  A semaphore counts what the worker has to look    *)
(* at; the end of the queue is told by the flag `start' and one more post, *)
(* and it is the worker that frees the queue.                              *)
(* Mapped code: platform_queue.c, and the controllers that own a queue and *)
(* wait for their messages (mmc_core.c).                                   *)
(***************************************************************************)
EXTENDS Integers, Sequences

CONSTANTS
  Clients,
  WhenQuiet, \* is the queue destroyed only while no client waits?
  MaxAdded   \* bound on the messages added

VARIABLES
  memory,  \* "none", "live" or "freed": the queue
  start,   \* its flag
  sem,     \* its semaphore
  msgs,    \* its list: the numbers of messages
  owner,   \* where the owner is: Create, Start and Destroy
  worker,  \* where the worker thread is
  msg,     \* its local variable, 0 for none
  client,  \* per client: "idle", "add" (the list is written), "wait"
  waitsFor,\* per client: the message it waits for
  added,   \* history: messages added
  handled, \* history: the messages handled, in order
  broken   \* was the freed queue used?

queue == <<memory, start, sem, msgs>>
clients == <<client, waitsFor, added>>
vars == <<queue, owner, worker, msg, clients, handled, broken>>

TypeOK ==
  /\ memory \in {"none", "live", "freed"} /\ start \in BOOLEAN /\ sem \in Nat
  /\ msgs \in Seq(1..MaxAdded)
  /\ owner \in {"create", "start", "started", "running", "destroy", "done"}
  /\ worker \in {"none", "wait", "look", "take", "handle", "gone"}
  /\ msg \in 0..MaxAdded
  /\ client \in [Clients -> {"idle", "add", "wait"}]
  /\ waitsFor \in [Clients -> 0..MaxAdded]
  /\ added \in 0..MaxAdded /\ handled \in Seq(1..MaxAdded) /\ broken \in BOOLEAN

Init ==
  /\ memory = "none" /\ start = FALSE /\ sem = 0 /\ msgs = << >>
  /\ owner = "create" /\ worker = "none" /\ msg = 0
  /\ client = [k \in Clients |-> "idle"] /\ waitsFor = [k \in Clients |-> 0]
  /\ added = 0 /\ handled = << >> /\ broken = FALSE

\* A step uses the queue.
Uses == broken' = (broken \/ memory = "freed")

-----------------------------------------------------------------------------
(* The owner.                                                              *)

PlatformQueueCreate ==
  /\ owner = "create"
  /\ memory' = "live" /\ owner' = "start"
  /\ UNCHANGED <<start, sem, msgs, worker, msg, clients, handled, broken>>

\* PlatformQueueStart: the thread runs before the flag is set.
ThreadStart ==
  /\ owner = "start"
  /\ worker' = "wait" /\ owner' = "started"
  /\ UNCHANGED <<queue, msg, clients, handled, broken>>

\* The thread cannot be started: the queue is freed at once.
StartFails ==
  /\ owner = "start"
  /\ memory' = "freed" /\ owner' = "done"
  /\ UNCHANGED <<start, sem, msgs, worker, msg, clients, handled, broken>>

SetStart ==
  /\ owner = "started"
  /\ start' = TRUE /\ owner' = "running"
  /\ Uses
  /\ UNCHANGED <<memory, sem, msgs, worker, msg, clients, handled>>

\* PlatformQueueDestroy: the flag, then the post.
PlatformQueueDestroy ==
  /\ owner = "running"
  /\ WhenQuiet => \A k \in Clients : client[k] = "idle"
  /\ start' = FALSE /\ owner' = "destroy"
  /\ Uses
  /\ UNCHANGED <<memory, sem, msgs, worker, msg, clients, handled>>

DestroyPosts ==
  /\ owner = "destroy"
  /\ sem' = sem + 1 /\ owner' = "done"
  /\ Uses
  /\ UNCHANGED <<memory, start, msgs, worker, msg, clients, handled>>

-----------------------------------------------------------------------------
(* The clients, who have the queue while it runs.                          *)

\* Mutant: the message goes to the head of the list.
AddFirst(k) ==
  /\ client[k] = "idle" /\ owner = "running" /\ added < MaxAdded
  /\ msgs' = <<added + 1>> \o msgs /\ added' = added + 1
  /\ waitsFor' = [waitsFor EXCEPT ![k] = added + 1]
  /\ client' = [client EXCEPT ![k] = "add"]
  /\ Uses
  /\ UNCHANGED <<memory, start, sem, owner, worker, msg, handled>>

\* PlatformQueueAddMsg, under the spin lock.
PlatformQueueAddMsg(k) ==
  /\ client[k] = "idle" /\ owner = "running" /\ added < MaxAdded
  /\ msgs' = Append(msgs, added + 1) /\ added' = added + 1
  /\ waitsFor' = [waitsFor EXCEPT ![k] = added + 1]
  /\ client' = [client EXCEPT ![k] = "add"]
  /\ Uses
  /\ UNCHANGED <<memory, start, sem, owner, worker, msg, handled>>

AddPosts(k) ==
  /\ client[k] = "add"
  /\ sem' = sem + 1
  /\ client' = [client EXCEPT ![k] = "wait"]
  /\ Uses
  /\ UNCHANGED <<memory, start, msgs, owner, worker, msg, waitsFor, added, handled>>

\* MmcCntlrPostMsg goes on once its message was handled.
Returns(k) ==
  /\ client[k] = "wait"
  /\ \E i \in DOMAIN handled : handled[i] = waitsFor[k]
  /\ client' = [client EXCEPT ![k] = "idle"]
  /\ UNCHANGED <<queue, owner, worker, msg, waitsFor, added, handled, broken>>

-----------------------------------------------------------------------------
(* PlatformQueueThreadWorker.                                              *)

SemWait ==
  /\ worker = "wait" /\ sem > 0
  /\ sem' = sem - 1 /\ worker' = "look"
  /\ UNCHANGED <<memory, start, msgs, owner, msg, clients, handled, broken>>

\* The end of the queue: what is in it is not handled.
Look ==
  /\ worker = "look"
  /\ IF start THEN worker' = "take" /\ memory' = memory
     ELSE worker' = "gone" /\ memory' = "freed"
  /\ UNCHANGED <<start, sem, msgs, owner, msg, clients, handled, broken>>

\* Under the spin lock.
Take ==
  /\ worker = "take"
  /\ IF msgs = << >> THEN msg' = 0 /\ msgs' = msgs
     ELSE msg' = Head(msgs) /\ msgs' = Tail(msgs)
  /\ worker' = "handle"
  /\ UNCHANGED <<memory, start, sem, owner, clients, handled, broken>>

Handle ==
  /\ worker = "handle"
  /\ handled' = IF msg = 0 THEN handled ELSE Append(handled, msg)
  /\ worker' = "wait"
  /\ UNCHANGED <<queue, owner, msg, clients, broken>>

Next ==
  \/ PlatformQueueCreate
  \/ ThreadStart
  \/ StartFails
  \/ SetStart
  \/ PlatformQueueDestroy
  \/ DestroyPosts
  \/ \E k \in Clients : PlatformQueueAddMsg(k)
  \/ \E k \in Clients : AddPosts(k)
  \/ \E k \in Clients : Returns(k)
  \/ SemWait
  \/ Look
  \/ Take
  \/ Handle

Spec == Init /\ [][Next]_vars

\* Threads run on; nobody has to add a message or to destroy the queue.
OwnerStep == SetStart \/ DestroyPosts
ClientStep(k) == AddPosts(k) \/ Returns(k)
WorkerStep == SemWait \/ Look \/ Take \/ Handle
FairSpec ==
  Spec /\ WF_vars(OwnerStep) /\ WF_vars(WorkerStep) /\ \A k \in Clients : WF_vars(ClientStep(k))

-----------------------------------------------------------------------------
\* Messages are handled in the order they were added, each at most once,
\* whatever the posts of two clients do between their insertions and the
\* worker's look at the list (platform_queue.c 26-58, 128-142).
HandledInOrder == \A i \in DOMAIN handled : handled[i] = i

\* Nobody uses the queue once it is freed (platform_queue.c 114-126).
NoUseAfterFree == ~ broken

=============================================================================

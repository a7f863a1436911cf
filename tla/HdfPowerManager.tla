--------------------------- MODULE HdfPowerManager ---------------------------
(***************************************************************************)
(* Power requests of drivers: the wake lock of a device                    *)
(* (power_state_token.c over hdf_sref.c), taken and given back directly by *)
(* any thread or through the power manager's task queue                    *)
(* (hdf_power_manager.c, hdf_task_queue.c).                                *)
(*                                                                         *)
(* Atomicity.  The counter's increment, decrement and reading are one step *)
(* each, and so is a driver's Resume or Suspend; no lock protects a token. *)
(* The queue's list is changed under queue->mutex, which the queue's       *)
(* thread keeps while it runs tasks.                                       *)
(*                                                                         *)
(* Every request is modelled for a device in HDF_POWER_DYNAMIC_CTRL mode   *)
(* with a listener; in the other mode requests do nothing.                 *)
(***************************************************************************)
EXTENDS Integers, Sequences

CONSTANTS Devices,      \* devices with a power token
          Callers,      \* threads that make requests
          Direct,       \* callers that take and give back wake locks themselves
          Balanced,     \* callers release only what they acquired
          MaxRequests   \* bound on the requests made

Worker  == "worker"     \* the queue's thread
Threads == Callers \cup {Worker}

Requests == [dev : Devices, type : {"ACQUIRE", "RELEASE"}]

VARIABLES
    refs,        \* wakeRef.refs of each token
    psmState,    \* psmState of each token
    powered,     \* what the driver was told last: Resume or Suspend
    at,          \* where each thread stands in a request
    req,         \* the request of each thread
    queue,       \* queue->head
    mutex,       \* queue->mutex is held
    sem,         \* queue->sem
    running,     \* threadRunFlag
    made,        \* number of requests made
    holds,       \* acquires of each caller that it has not released
    owed,        \* history: requests executed: acquires less the releases of them
    asked        \* history: requests made: acquires less the releases of them

tokenVars == <<refs, psmState, powered>>
queueVars == <<queue, mutex, sem, running>>
vars == <<tokenVars, at, req, queueVars, made, holds, owed, asked>>

NoRequest == [dev |-> "none", type |-> "NONE"]

Init ==
    /\ refs = [d \in Devices |-> 0]
    /\ psmState = [d \in Devices |-> "IDLE"]
    /\ powered = [d \in Devices |-> FALSE]
    /\ at = [t \in Threads |-> IF t = Worker THEN "none" ELSE "idle"]
    /\ req = [t \in Threads |-> NoRequest]
    /\ queue = <<>>
    /\ mutex = FALSE
    /\ sem = 0
    /\ running = FALSE
    /\ made = 0
    /\ holds = [c \in Callers |-> [d \in Devices |-> 0]]
    /\ owed = [d \in Devices |-> 0]
    /\ asked = [d \in Devices |-> 0]

Dev(t)     == req[t].dev
Goes(t, p) == at' = [at EXCEPT ![t] = p]

(***************************************************************************)
(* PowerStateToken.                                                        *)
(***************************************************************************)
\* A request is at an end; the worker looks for the next one.
Ends(t) == Goes(t, IF t = Worker THEN "dequeue" ELSE "idle")

\* What the request, done alone, comes to: a release at 0 is none.
After(n, r) == IF r.type = "ACQUIRE" THEN n + 1
               ELSE IF n > 0 THEN n - 1 ELSE 0
Counts(t) == owed' = [owed EXCEPT ![Dev(t)] = After(@, req[t])]

\* A caller makes a request.
Makes(t, r) ==
    /\ at[t] = "idle" /\ made < MaxRequests
    /\ Balanced /\ r.type = "RELEASE" => holds[t][r.dev] > 0
    /\ made' = made + 1
    /\ holds' = IF Balanced THEN [holds EXCEPT ![t][r.dev] = After(@, r)] ELSE holds
    /\ asked' = [asked EXCEPT ![r.dev] = After(@, r)]

\* HdfSRefAcquire: OsalAtomicInc ...
HdfSRefAcquire(t) ==
    /\ at[t] = "acquire"
    /\ refs' = [refs EXCEPT ![Dev(t)] = @ + 1]
    /\ Goes(t, "acquired")
    /\ UNCHANGED <<psmState, powered, req, queueVars, made, holds, owed, asked>>

\* ... and OsalAtomicRead.
SRefAcquired(t) ==
    /\ at[t] = "acquired"
    /\ \/ /\ refs[Dev(t)] = 1
          /\ Goes(t, "first")
          /\ UNCHANGED owed
       \/ /\ refs[Dev(t)] # 1
          /\ Ends(t)
          /\ Counts(t)
    /\ UNCHANGED <<tokenVars, req, queueVars, made, holds, asked>>

\* PowerStateTokenOnFirstAcquire.
PowerStateTokenOnFirstAcquire(t) ==
    /\ at[t] = "first"
    /\ \/ /\ psmState[Dev(t)] # "ACTIVE"
          /\ powered' = [powered EXCEPT ![Dev(t)] = TRUE]
          /\ Goes(t, "active")
          /\ UNCHANGED owed
       \/ /\ psmState[Dev(t)] = "ACTIVE"
          /\ Ends(t)
          /\ Counts(t)
          /\ UNCHANGED powered
    /\ UNCHANGED <<refs, psmState, req, queueVars, made, holds, asked>>

OnFirstAcquireDone(t) ==
    /\ at[t] = "active"
    /\ psmState' = [psmState EXCEPT ![Dev(t)] = "ACTIVE"]
    /\ Ends(t)
    /\ Counts(t)
    /\ UNCHANGED <<refs, powered, req, queueVars, made, holds, asked>>

\* Mutant: the count is not tested.
ReleaseUntested(t) ==
    /\ at[t] = "release"
    /\ Goes(t, "decrement")
    /\ UNCHANGED <<tokenVars, req, queueVars, made, holds, owed, asked>>

\* PowerStateTokenReleaseWakeLock tests the count before it gives it back.
PowerStateTokenReleaseWakeLock(t) ==
    /\ at[t] = "release"
    /\ Goes(t, IF refs[Dev(t)] = 0 THEN "last" ELSE "decrement")
    /\ UNCHANGED <<tokenVars, req, queueVars, made, holds, owed, asked>>

\* HdfSRefRelease: OsalAtomicDec ...
HdfSRefRelease(t) ==
    /\ at[t] = "decrement"
    /\ refs' = [refs EXCEPT ![Dev(t)] = @ - 1]
    /\ Goes(t, "released")
    /\ UNCHANGED <<psmState, powered, req, queueVars, made, holds, owed, asked>>

\* ... and OsalAtomicRead.
SRefReleased(t) ==
    /\ at[t] = "released"
    /\ \/ /\ refs[Dev(t)] = 0
          /\ Goes(t, "last")
          /\ UNCHANGED owed
       \/ /\ refs[Dev(t)] # 0
          /\ Ends(t)
          /\ Counts(t)
    /\ UNCHANGED <<tokenVars, req, queueVars, made, holds, asked>>

\* PowerStateTokenOnLastRelease: nothing if the device is suspended already.
PowerStateTokenOnLastRelease(t) ==
    /\ at[t] = "last"
    /\ \/ /\ psmState[Dev(t)] \in {"ACTIVE", "IDLE"}
          /\ powered' = [powered EXCEPT ![Dev(t)] = FALSE]
          /\ Goes(t, "inactive")
          /\ UNCHANGED owed
       \/ /\ psmState[Dev(t)] = "INACTIVE"
          /\ Ends(t)
          /\ Counts(t)
          /\ UNCHANGED powered
    /\ UNCHANGED <<refs, psmState, req, queueVars, made, holds, asked>>

OnLastReleaseDone(t) ==
    /\ at[t] = "inactive"
    /\ psmState' = [psmState EXCEPT ![Dev(t)] = "INACTIVE"]
    /\ Ends(t)
    /\ Counts(t)
    /\ UNCHANGED <<refs, powered, req, queueVars, made, holds, asked>>

\* HdfPmAcquireDevice and HdfPmReleaseDevice.
HdfPmRequest(t, r) ==
    /\ t \in Direct /\ Makes(t, r)
    /\ req' = [req EXCEPT ![t] = r]
    /\ Goes(t, IF r.type = "ACQUIRE" THEN "acquire" ELSE "release")
    /\ UNCHANGED <<tokenVars, queueVars, owed>>

TokenStep(t) ==
    \/ HdfSRefAcquire(t) \/ SRefAcquired(t)
    \/ PowerStateTokenOnFirstAcquire(t) \/ OnFirstAcquireDone(t)
    \/ PowerStateTokenReleaseWakeLock(t) \/ HdfSRefRelease(t) \/ SRefReleased(t)
    \/ PowerStateTokenOnLastRelease(t) \/ OnLastReleaseDone(t)

(***************************************************************************)
(* HdfTaskQueue.                                                           *)
(***************************************************************************)
\* DListInsertTail.
InsertTail(r) == Append(queue, r)

\* HdfPmTaskPut and HdfTaskEnqueue up to the unlock.  The first request starts
\* the queue's thread.  A thread that cannot be started (the queue takes it for
\* running and executes nothing) and a request that cannot be allocated (it is
\* not made) are left out.
HdfTaskEnqueue(t, r) ==
    /\ t \in Callers \ Direct /\ Makes(t, r) /\ ~mutex
    /\ queue' = InsertTail(r)
    /\ running' = TRUE
    /\ at' = [at EXCEPT ![t] = "post",
                        ![Worker] = IF running THEN @ ELSE "wait"]
    /\ UNCHANGED <<tokenVars, req, mutex, sem, owed>>

OsalSemPost(t) ==
    /\ at[t] = "post"
    /\ sem' = sem + 1
    /\ Goes(t, "idle")
    /\ UNCHANGED <<tokenVars, req, queue, mutex, running, made, holds, owed, asked>>

\* HdfThreadTasker: wait for a post and take the mutex ...
HdfThreadTasker ==
    /\ at[Worker] = "wait" /\ sem > 0
    /\ sem' = sem - 1
    /\ Goes(Worker, "lock")
    /\ UNCHANGED <<tokenVars, req, queue, mutex, running, made, holds, owed, asked>>

TaskerLock ==
    /\ at[Worker] = "lock" /\ ~mutex
    /\ mutex' = TRUE
    /\ Goes(Worker, "dequeue")
    /\ UNCHANGED <<tokenVars, req, queue, sem, running, made, holds, owed, asked>>

\* ... run every request in the queue (PmTaskFunc), one post for several ...
HdfTaskDequeue ==
    /\ at[Worker] = "dequeue" /\ queue # <<>>
    /\ queue' = Tail(queue)
    /\ req' = [req EXCEPT ![Worker] = Head(queue)]
    /\ Goes(Worker, IF Head(queue).type = "ACQUIRE" THEN "acquire" ELSE "release")
    /\ UNCHANGED <<tokenVars, mutex, sem, running, made, holds, owed, asked>>

\* ... and wait again.
TaskerUnlock ==
    /\ at[Worker] = "dequeue" /\ queue = <<>>
    /\ mutex' = FALSE
    /\ Goes(Worker, "wait")
    /\ UNCHANGED <<tokenVars, req, queue, sem, running, made, holds, owed, asked>>

WorkerStep == HdfThreadTasker \/ TaskerLock \/ HdfTaskDequeue \/ TaskerUnlock

Next ==
    \/ \E t \in Threads : TokenStep(t)
    \/ \E t \in Callers, r \in Requests : HdfPmRequest(t, r)
    \/ \E t \in Callers, r \in Requests : HdfTaskEnqueue(t, r)
    \/ \E t \in Callers : OsalSemPost(t)
    \/ WorkerStep

\* Threads in the middle of a request run on; nobody has to make requests.
Spec ==
    /\ Init /\ [][Next]_vars
    /\ \A t \in Threads : WF_vars(TokenStep(t))
    /\ \A t \in Callers : WF_vars(OsalSemPost(t))
    /\ WF_vars(WorkerStep)

(***************************************************************************)
(* Properties.                                                             *)
(***************************************************************************)
\* Type invariant of the tokens and the queue.
TypeOK ==
    /\ refs \in [Devices -> Int]
    /\ psmState \in [Devices -> {"IDLE", "ACTIVE", "INACTIVE"}]
    /\ powered \in [Devices -> BOOLEAN]
    /\ queue \in Seq(Requests)
    /\ req \in [Threads -> Requests \cup {NoRequest}]
    /\ sem \in 0..MaxRequests /\ made \in 0..MaxRequests
    /\ mutex \in BOOLEAN /\ running \in BOOLEAN

Quiet(d) == \A t \in Threads : at[t] \in {"none", "idle", "post", "wait", "lock", "dequeue"}
                               \/ Dev(t) # d

\* When no request for a device is being executed, the device is powered exactly
\* if it is held, and its count is the number of holds, whatever surplus
\* releases there were (PowerStateTokenReleaseWakeLock): for requests through
\* the queue, which run one at a time.
HeldIsPowered ==
    \A d \in Devices : Quiet(d)
        => /\ refs[d] = owed[d]
           /\ powered[d] <=> owed[d] > 0
           /\ psmState[d] = "ACTIVE" <=> owed[d] > 0

\* Requests through the queue are executed in the order in which they were made:
\* when none is left, the holds of every device are those that were asked for
\* (HdfTaskEnqueue, HdfTaskDequeue).
AsRequested == (queue = <<>> /\ \A d \in Devices : Quiet(d)) => owed = asked

\* When callers release only what they acquired, direct and queued requests may
\* interleave as they like: the count never goes below 0, and is the number of
\* holds when none is under way (HdfSRefAcquire, HdfSRefRelease).
CountIsHolds ==
    /\ \A d \in Devices : refs[d] >= 0
    /\ (queue = <<>> /\ \A d \in Devices : Quiet(d)) => refs = asked

\* The count never goes below 0 (the comment in PowerStateTokenReleaseWakeLock).
RefsNotNegative == \A d \in Devices : refs[d] >= 0
=============================================================================

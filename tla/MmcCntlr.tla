---------------------------- MODULE MmcCntlr ----------------------------
(***************************************************************************)
(* A controller of the storage model (mmc_core.c) with its message queue   *)
(* (platform_queue.c), its card, and the users of the card: the block      *)
(* layer, which reads through MmcDeviceRead, and SDIO clients, which open, *)
(* claim and release the host (sdio_if.c, mmc_sdio.c).                     *)
(*                                                                         *)
(* Atomicity.  The queue's thread, the interrupt of the card slot and the  *)
(* clients run concurrently.  cntlr.mutex is held by the thread while it   *)
(* detects or deletes a device or executes a request, and by a client that *)
(* has claimed the host.  curDev, detecting and the slot are looked at     *)
(* without it.  A step is what one of them does between two such looks,    *)
(* waits, or uses of the bus.  What a detection sends is one step, which   *)
(* fails if the card is out.                                               *)
(*                                                                         *)
(* A device lives as long as it is curDev; its name is used again once no  *)
(* client remembers it.  PlatformDeviceDel is its wait for the references. *)
(***************************************************************************)
EXTENDS Integers, Sequences, FiniteSets

CONSTANTS Clients,
          None,
          DevType,        \* "SD" or "SDIO", the controller's devType
          OsUninitWaits,  \* whether MmcBlockOsUninit waits for reads under way
          Rescans,        \* whether the host has rescanSdioDev, which SdioOpen calls
          InitMayFail,    \* whether the host has a systemInit that may fail
          Retries,        \* MMC_DETECET_RETRY
          RequestRetries, \* MMC_REQUEST_RETRY
          Chunks,         \* parts of a read of more than MMC_MAX_SECTOR_NUM sectors
          MaxMoves,       \* bound on the times the card is put in or taken out
          MaxFails,       \* bound on failures with the card in
          MaxDetects      \* bound on calls of MmcCntlrAddDetectMsgToQueue

VARIABLES
    plugged,    \* ops.devPluged: whether the card is in
    irq,        \* whether the slot's interrupt is pending
    devPluged,  \* cntlr.devPluged
    probe,      \* where MmcCntlrAddDetectMsgToQueue is
    queue,      \* cntlr.msgQueue
    lock,       \* who holds cntlr.mutex
    curDev,     \* cntlr.curDev, 0 for NULL
    present,    \* its state.bits.present
    func,       \* whether its curFunction is set
    refs,       \* references to it beyond its own
    block,      \* whether it has a block device
    detecting,  \* cntlr.detecting
    worker,     \* the queue's thread: where it is, its message and its attempts
    pc,         \* where each client is
    dev,        \* the device each client works with
    left,       \* parts each client still has to read
    bounds      \* numbers of moves, failures and detects so far

slot    == <<plugged, irq, devPluged, probe>>
device  == <<curDev, present, func, refs, block>>
clients == <<pc, dev, left>>
vars    == <<slot, queue, lock, device, detecting, worker, clients, bounds>>

NoMsg == [code |-> "none", from |-> None]

Init ==
    /\ plugged = FALSE /\ irq = FALSE /\ devPluged = FALSE /\ probe = "idle"
    /\ queue = <<>> /\ lock = None
    /\ curDev = 0 /\ present = FALSE /\ func = FALSE /\ refs = 0 /\ block = FALSE
    /\ detecting = FALSE
    /\ worker = [at |-> "idle", msg |-> NoMsg, tries |-> 0]
    /\ pc = [c \in Clients |-> "idle"]
    /\ dev = [c \in Clients |-> 0]
    /\ left = [c \in Clients |-> 0]
    /\ bounds = [moves |-> 0, fails |-> 0, detects |-> 0]

(***************************************************************************)
(* The slot and MmcCntlrAddPlugMsgToQueue, called by its interrupt.        *)
(***************************************************************************)
\* The slot is debounced: its interrupt is served before the card moves again.
CardMoves ==
    /\ ~irq /\ bounds.moves < MaxMoves /\ bounds' = [bounds EXCEPT !.moves = @ + 1]
    /\ plugged' = ~plugged /\ irq' = TRUE
    /\ UNCHANGED <<devPluged, probe, queue, lock, device, detecting, worker, clients>>

MmcCntlrAddPlugMsgToQueue ==
    /\ irq /\ irq' = FALSE
    /\ devPluged' = plugged
    /\ queue' = IF plugged = devPluged THEN queue
                ELSE Append(queue, [code |-> IF plugged THEN "PLUG" ELSE "UNPLUG", from |-> None])
    /\ UNCHANGED <<plugged, probe, lock, device, detecting, worker, clients, bounds>>

\* MmcCntlrAddDetectMsgToQueue, called by the host's driver.
DetectLook ==
    /\ probe = "idle" /\ plugged /\ probe' = "seen"
    /\ bounds.detects < MaxDetects /\ bounds' = [bounds EXCEPT !.detects = @ + 1]
    /\ UNCHANGED <<plugged, irq, devPluged, queue, lock, device, detecting, worker, clients>>

DetectPost ==
    /\ probe = "seen" /\ probe' = "idle"
    /\ devPluged' = TRUE
    /\ queue' = Append(queue, [code |-> "PLUG", from |-> None])
    /\ UNCHANGED <<plugged, irq, lock, device, detecting, worker, clients, bounds>>

(***************************************************************************)
(* The queue's thread: PlatformQueueThreadWorker and MmcMsgHandleDefault.  *)
(***************************************************************************)
Works(from, to) == worker.at = from /\ worker' = [worker EXCEPT !.at = to]
WorkerLocks == lock = None /\ lock' = "worker"

\* A command fails because the card is out, or for a reason of its own.
CardFails ==
    \/ ~plugged /\ UNCHANGED bounds
    \/ plugged /\ bounds.fails < MaxFails /\ bounds' = [bounds EXCEPT !.fails = @ + 1]

Handler == [PLUG |-> "plug", UNPLUG |-> "delLock", REQUEST |-> "reqLock", RESCAN |-> "rescan"]

TakeMsg ==
    /\ worker.at = "idle" /\ queue # <<>>
    /\ worker' = [at |-> Handler[Head(queue).code], msg |-> Head(queue), tries |-> 0]
    /\ queue' = Tail(queue)
    /\ UNCHANGED <<slot, lock, device, detecting, clients, bounds>>

\* Mutant: nobody is told that a request is done.
NotAnswered ==
    /\ Works("answer", "idle")
    /\ UNCHANGED <<slot, queue, lock, device, detecting, clients, bounds>>

\* The sender of a message that blocks is woken, whatever its request came to; a rescan
\* without a device makes SdioOpen fail.
AnswerMsg ==
    LET result == IF worker.msg.code = "RESCAN" /\ curDev = 0 THEN "idle" ELSE "answered" IN
    /\ Works("answer", "idle")
    /\ pc' = [c \in Clients |-> IF c = worker.msg.from THEN result ELSE pc[c]]
    /\ UNCHANGED <<slot, queue, lock, device, detecting, dev, left, bounds>>

\* MmcCntlrExecRequest.
RequestLock ==
    /\ Works("reqLock", "exec") /\ WorkerLocks
    /\ UNCHANGED <<slot, queue, device, detecting, clients, bounds>>

RequestDone ==
    /\ plugged /\ Works("exec", "answer") /\ lock' = None
    /\ UNCHANGED <<slot, queue, device, detecting, clients, bounds>>

RequestFails ==
    /\ worker.at = "exec" /\ lock' = None /\ CardFails
    /\ worker' = [worker EXCEPT !.tries = @ + 1,
                    !.at = IF worker.tries + 1 = RequestRetries THEN "answer" ELSE "reqLock"]
    /\ UNCHANGED <<slot, queue, device, detecting, clients>>

\* MmcCntlrSdioRescanHandle, which reads a register without the mutex.
Rescan ==
    /\ Works("rescan", IF curDev # 0 /\ present THEN "cccr" ELSE "plug")
    /\ UNCHANGED <<slot, queue, lock, device, detecting, clients, bounds>>

RescanRead ==
    /\ \/ plugged /\ Works("cccr", "answer") /\ UNCHANGED bounds
       \/ CardFails /\ Works("cccr", "plug")
    /\ UNCHANGED <<slot, queue, lock, device, detecting, clients>>

(***************************************************************************)
(* MmcCntlrUnplug and the first half of MmcCntlrPlug: MmcDeleteDev.        *)
(***************************************************************************)
Plug ==
    /\ Works("plug", IF ~plugged THEN "answer" ELSE IF curDev # 0 THEN "delLock" ELSE "detLock")
    /\ UNCHANGED <<slot, queue, lock, device, detecting, clients, bounds>>

DeleteLock ==
    /\ Works("delLock", "del") /\ WorkerLocks
    /\ UNCHANGED <<slot, queue, device, detecting, clients, bounds>>

AfterDelete == IF worker.msg.code = "UNPLUG" THEN "answer" ELSE "detLock"

Reading(c) == pc[c] \in {"check", "direct", "queue", "wait", "answered"} /\ DevType = "SD"

\* MmcDeleteDev up to MmcBlockUninit.
DeleteBlock ==
    /\ Works("del", "dead") /\ curDev # 0 /\ present
    /\ OsUninitWaits => \A c \in Clients : ~(Reading(c) /\ dev[c] = curDev)
    /\ present' = FALSE /\ block' = FALSE
    /\ UNCHANGED <<slot, queue, lock, curDev, func, refs, detecting, clients, bounds>>

DeleteNothing ==
    /\ Works("del", AfterDelete) /\ ~(curDev # 0 /\ present)
    /\ lock' = None
    /\ UNCHANGED <<slot, queue, device, detecting, clients, bounds>>

\* PlatformDeviceDel and MmcCntlrFreeDev.
DeleteDev ==
    /\ Works("dead", AfterDelete) /\ refs <= 0
    /\ curDev' = 0 /\ func' = FALSE /\ lock' = None
    /\ UNCHANGED <<slot, queue, present, refs, block, detecting, clients, bounds>>

(***************************************************************************)
(* The second half of MmcCntlrPlug: MmcDoDetect, up to Retries times.      *)
(***************************************************************************)
\* Mutant: the devices are detected without the mutex.
DetectUnlocked ==
    /\ Works("detLock", "alloc")
    /\ detecting' = TRUE
    /\ UNCHANGED <<slot, queue, lock, device, clients, bounds>>

DetectLock ==
    /\ Works("detLock", "alloc") /\ WorkerLocks
    /\ detecting' = TRUE
    /\ UNCHANGED <<slot, queue, device, clients, bounds>>

\* systemInit, which is called after the deletion and is not tried again.
SystemInitFails ==
    /\ InitMayFail /\ Works("detLock", "answer")
    /\ bounds.fails < MaxFails /\ bounds' = [bounds EXCEPT !.fails = @ + 1]
    /\ UNCHANGED <<slot, queue, lock, device, detecting, clients>>

MmcCntlrAllocDev ==
    /\ Works("alloc", "cmds")
    /\ curDev' = CHOOSE d \in 1..Cardinality(Clients) + 1 : \A c \in Clients : dev[c] # d
    /\ refs' = 0
    /\ UNCHANGED <<slot, queue, lock, present, func, block, detecting, clients, bounds>>

\* MmcDeviceAdd: references are counted from here on, and the block layer learns of
\* the device and reads it, on this thread.
DetectOk ==
    /\ plugged /\ Works("cmds", IF DevType = "SD" THEN "vfs" ELSE "present")
    /\ refs' = 0 /\ block' = (DevType = "SD")
    /\ UNCHANGED <<slot, queue, lock, curDev, present, func, detecting, clients, bounds>>

\* MmcDeviceRead on this thread, which would wait for itself if it used the queue.
VfsReads ==
    /\ Works("vfs", "present") /\ detecting
    /\ UNCHANGED <<slot, queue, lock, device, detecting, clients, bounds>>

DetectEnd ==
    /\ Works("present", "answer")
    /\ present' = TRUE /\ detecting' = FALSE /\ lock' = None
    /\ UNCHANGED <<slot, queue, curDev, func, refs, block, clients, bounds>>

DetectFails ==
    LET last == worker.tries + 1 = Retries IN
    /\ worker.at = "cmds"
    /\ worker' = [worker EXCEPT !.at = IF last THEN "answer" ELSE "alloc", !.tries = @ + 1]
    /\ CardFails
    /\ curDev' = 0
    /\ detecting' = ~last /\ lock' = IF last THEN None ELSE lock
    /\ UNCHANGED <<slot, queue, present, func, refs, block, clients>>

(***************************************************************************)
(* MmcDeviceRead, called by the block layer.                               *)
(***************************************************************************)
Goes(c, from, to) == pc[c] = from /\ pc' = [pc EXCEPT ![c] = to]
Posts(c, code) == queue' = Append(queue, [code |-> code, from |-> c])

ReadBegin(c) ==
    /\ block /\ Goes(c, "idle", "check")
    /\ dev' = [dev EXCEPT ![c] = curDev] /\ left' = [left EXCEPT ![c] = Chunks]
    /\ UNCHANGED <<slot, queue, lock, device, detecting, worker, bounds>>

ReadCheck(c) ==
    /\ Goes(c, "check", IF detecting THEN "direct" ELSE "queue")
    /\ UNCHANGED <<slot, queue, lock, device, detecting, worker, dev, left, bounds>>

\* The read returns when all parts are read, or the card is out.
ReadReturns(c) ==
    /\ pc' = [pc EXCEPT ![c] = "idle"] /\ dev' = [dev EXCEPT ![c] = 0]
    /\ left' = [left EXCEPT ![c] = 0]

ReadPart(c) ==
    /\ \/ pc[c] = "answered" /\ DevType = "SD"
       \/ pc[c] = "direct" /\ plugged
    /\ \/ left[c] = 1 /\ ReadReturns(c)
       \/ /\ left[c] > 1
          /\ pc' = [pc EXCEPT ![c] = "check"] /\ left' = [left EXCEPT ![c] = @ - 1]
          /\ UNCHANGED dev
    /\ UNCHANGED <<slot, queue, lock, device, detecting, worker, bounds>>

\* MmcSendReadWriteBlocks fails, and with it the read.
ReadFails(c) ==
    /\ pc[c] = "direct" /\ CardFails /\ ReadReturns(c)
    /\ UNCHANGED <<slot, queue, lock, device, detecting, worker>>

\* MmcCntlrAddRequestMsgToQueue and MmcCntlrPostMsg.
ReadQueue(c) ==
    /\ \/ ~plugged /\ pc[c] = "queue" /\ ReadReturns(c) /\ UNCHANGED queue
       \/ plugged /\ Goes(c, "queue", "wait") /\ Posts(c, "REQUEST") /\ UNCHANGED <<dev, left>>
    /\ UNCHANGED <<slot, lock, device, detecting, worker, bounds>>

(***************************************************************************)
(* SDIO clients.                                                           *)
(***************************************************************************)
SdioOpen(c) ==
    /\ DevType = "SDIO" /\ Goes(c, "idle", IF Rescans THEN "wait" ELSE "answered")
    /\ IF Rescans THEN Posts(c, "RESCAN") ELSE UNCHANGED queue
    /\ UNCHANGED <<slot, lock, device, detecting, worker, dev, left, bounds>>

\* SdioDeviceFindFunction, with the device referenced meanwhile.  A device gets its
\* operations when it has been detected.
SdioOpened(c) ==
    LET found == curDev # 0 /\ ~detecting IN
    /\ DevType = "SDIO" /\ Goes(c, "answered", IF found THEN "open" ELSE "idle")
    /\ func' = (func \/ found)
    /\ UNCHANGED <<slot, queue, lock, curDev, present, refs, block, detecting, worker, dev, left,
                   bounds>>

\* MmcCntlrGetDevice: the pointer, then the reference.
SdioLook(c) ==
    /\ curDev # 0 /\ Goes(c, "open", "got")
    /\ dev' = [dev EXCEPT ![c] = curDev]
    /\ UNCHANGED <<slot, queue, lock, device, detecting, worker, left, bounds>>

SdioGet(c) ==
    /\ Goes(c, "got", "claim")
    /\ refs' = IF dev[c] = curDev THEN refs + 1 ELSE refs
    /\ UNCHANGED <<slot, queue, lock, curDev, present, func, block, detecting, worker, dev, left,
                   bounds>>

\* SdioClaimHost, with MmcDevicePut.  A device without a function is not claimed; one
\* that is gone, either way.
SdioClaimHost(c) ==
    LET gone == dev[c] # curDev IN
    /\ \/ (func \/ gone) /\ Goes(c, "claim", "claimed") /\ lock = None /\ lock' = c
       \/ (~func \/ gone) /\ Goes(c, "claim", "open") /\ UNCHANGED lock
    /\ refs' = IF dev[c] = curDev THEN refs - 1 ELSE refs
    /\ dev' = [dev EXCEPT ![c] = 0]
    /\ UNCHANGED <<slot, queue, curDev, present, func, block, detecting, worker, left, bounds>>

\* Through the device there is then: without one, or a function of it, the host stays claimed.
SdioReleaseHost(c) ==
    /\ Goes(c, "claimed", "open") /\ lock' = IF func THEN None ELSE lock
    /\ UNCHANGED <<slot, queue, device, detecting, worker, dev, left, bounds>>

SdioClose(c) ==
    /\ Goes(c, "open", "idle")
    /\ UNCHANGED <<slot, queue, lock, device, detecting, worker, dev, left, bounds>>

WorkerStep ==
    \/ TakeMsg \/ AnswerMsg \/ RequestLock \/ RequestDone \/ RequestFails
    \/ Rescan \/ RescanRead \/ Plug
    \/ DeleteLock \/ DeleteBlock \/ DeleteNothing \/ DeleteDev
    \/ DetectLock \/ SystemInitFails \/ MmcCntlrAllocDev \/ DetectOk \/ VfsReads \/ DetectEnd \/ DetectFails
ClientStep(c) ==
    \/ ReadCheck(c) \/ ReadPart(c) \/ ReadFails(c) \/ ReadQueue(c)
    \/ SdioOpened(c) \/ SdioGet(c) \/ SdioClaimHost(c) \/ SdioReleaseHost(c)

Next ==
    \/ CardMoves \/ MmcCntlrAddPlugMsgToQueue \/ DetectLook \/ DetectPost
    \/ WorkerStep
    \/ \E c \in Clients :
          \/ ReadBegin(c) \/ SdioOpen(c) \/ SdioLook(c) \/ SdioClose(c) \/ ClientStep(c)

Spec == Init /\ [][Next]_vars
FairSpec ==
    /\ Spec
    /\ WF_vars(MmcCntlrAddPlugMsgToQueue) /\ WF_vars(DetectPost) /\ WF_vars(WorkerStep)
    /\ \A c \in Clients : WF_vars(ClientStep(c))

(***************************************************************************)
(* Properties.                                                             *)
(***************************************************************************)
\* Type invariant.
TypeOK ==
    /\ curDev \in 0..Cardinality(Clients) + 1
    /\ lock \in Clients \cup {None, "worker"}
    /\ detecting \in BOOLEAN
    /\ present => curDev # 0
    /\ refs \in -Cardinality(Clients)..Cardinality(Clients)
    /\ worker.tries \in 0..(Retries + RequestRetries) /\ left \in [Clients -> 0..Chunks]

\* Who is talking to the card.
OnBus == {c \in Clients : pc[c] \in {"direct", "claimed"}}
           \cup {w \in {"worker"} : worker.at \in {"cmds", "vfs", "exec", "cccr"}}

\* Two of them never do so at the same time.
BusExclusive == Cardinality(OnBus) <= 1

\* The block layer never reads through a device that is gone.
ReadsAlive ==
    \A c \in Clients : DevType = "SD" /\ pc[c] \in {"check", "direct", "queue", "answered"} =>
        dev[c] = curDev

=============================================================================

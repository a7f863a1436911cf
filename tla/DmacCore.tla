------------------------------ MODULE DmacCore ------------------------------
(***************************************************************************)
(* The core of the DMA controllers: clients ask for transfers, each on a   *)
(* channel that the core allocates.  A transfer to or from a peripheral    *)
(* returns once it is started, and the interrupt calls its callback and    *)
(* frees the channel.  A transfer from memory to memory is done in pieces: *)
(* the client's thread waits for the interrupt's event after each, frees   *)
(* the channel and calls the callback itself.                              *)
(* Mapped code: dmac_core.c, dmac_core.h.  The channels of the hardware    *)
(* are external.                                                           *)
(***************************************************************************)
EXTENDS Integers, FiniteSets, FiniteSetsExt

CONSTANTS
  Clients,
  NumChannels, \* channelNum
  Kinds,       \* subset of {"m2m", "periph", "null"}; "null": no address given
  Pieces,      \* into how many pieces maxTransSize divides a transfer
  Timeouts,    \* may the hardware take longer than DMA_EVENT_WAIT_DEF_TIME?
  MaxTransfers \* bound on the transfers of a client

Channels == 0..(NumChannels - 1)
Beyond == 65535 \* HDF_FAILURE in 16 bits
None == "none"
NoTransfer == << >>

VARIABLES
  use,      \* useStatus: "vacant" or "allocated"
  info,     \* per channel: transType, callback and whether there is an lli
  event,    \* per channel: waitEvent
  hw,       \* external: the transfer each channel of the hardware runs
  irq,      \* the status the interrupt will find, or None; "called": it has told
            \* of it, and frees the channel next
  pc,       \* per client: where its transfer is
  chan,     \* per client: the channel it was given
  kind, pieces, left, \* per client: the transfer, and the pieces still to copy
  result,   \* per client: what the callback will be told
  serial,   \* per client: how many transfers it has asked for
  copied,   \* history: pieces of the present transfer that were copied
  calls     \* history: calls of the callback of the present transfer

channels == <<use, info, event>>
hardware == <<hw, irq>>
request == <<chan, kind, pieces, serial>>
history == <<copied, calls>>
vars == <<channels, hardware, request, pc, left, result, history>>

TypeOK ==
  /\ use \in [Channels -> {"vacant", "allocated"}]
  /\ info \in [Channels -> [type : Kinds \cup {None}, cb : Clients \cup {None}, lli : BOOLEAN]]
  /\ event \in [Channels -> SUBSET {"done", "error"}]
  /\ hw \in [Channels -> (Clients \X (1..MaxTransfers)) \cup {NoTransfer}]
  /\ irq \in [Channels -> {None, "success", "error", "called"}]
  /\ pc \in [Clients -> {"idle", "got", "enable", "wait", "running", "tell", "lost"}]
  /\ chan \in [Clients -> Channels \cup {Beyond}]
  /\ kind \in [Clients -> Kinds \cup {None}]
  /\ pieces \in [Clients -> Pieces \cup {0}]
  /\ left \in [Clients -> Nat] /\ \A k \in Clients : left[k] \in 0..pieces[k]
  /\ result \in [Clients -> {None, "success", "error", "timeout"}]
  /\ serial \in [Clients -> 0..MaxTransfers]
  /\ copied \in [Clients -> Nat] /\ calls \in [Clients -> Nat]

\* DmacCntlrAdd.
Init ==
  /\ use = [c \in Channels |-> "vacant"]
  /\ info = [c \in Channels |-> [type |-> None, cb |-> None, lli |-> FALSE]]
  /\ event = [c \in Channels |-> {}]
  /\ hw = [c \in Channels |-> NoTransfer] /\ irq = [c \in Channels |-> None]
  /\ pc = [k \in Clients |-> "idle"] /\ chan = [k \in Clients |-> 0]
  /\ kind = [k \in Clients |-> None]
  /\ pieces = [k \in Clients |-> 0] /\ left = [k \in Clients |-> 0]
  /\ result = [k \in Clients |-> None] /\ serial = [k \in Clients |-> 0]
  /\ copied = [k \in Clients |-> 0] /\ calls = [k \in Clients |-> 0]

-----------------------------------------------------------------------------
Vacant == {c \in Channels : use[c] = "vacant"}

\* Mutant: the first channel is taken whether it is vacant or not.
AllocateFirst == 0

\* DmacAllocateChannel: the first vacant channel.  The failure is returned as
\* an unsigned number of 16 bits, which the caller's test does not see.
DmacAllocateChannel == IF Vacant = {} THEN Beyond ELSE Min(Vacant)

\* DmacFreeChannel.
DmacFreeChannel(c) ==
  /\ use' = [use EXCEPT ![c] = "vacant"]
  /\ info' = [info EXCEPT ![c].lli = FALSE]

\* DmaCntlrTransfer to DmacRequestChannel.  Writing the information of the
\* channel Beyond is undefined: nothing is said of what follows.
DmaCntlrTransfer(k, type, n) ==
  /\ pc[k] = "idle" /\ serial[k] < MaxTransfers
  /\ type = "m2m" \/ n = 1
  /\ LET c == DmacAllocateChannel
     IN  /\ chan' = [chan EXCEPT ![k] = c]
         /\ IF c = Beyond THEN pc' = [pc EXCEPT ![k] = "lost"] /\ UNCHANGED <<use, info>>
            ELSE /\ pc' = [pc EXCEPT ![k] = "got"]
                 /\ use' = [use EXCEPT ![c] = "allocated"]
                 /\ info' = [info EXCEPT ![c].type = type]
  /\ kind' = [kind EXCEPT ![k] = type]
  /\ pieces' = [pieces EXCEPT ![k] = n] /\ left' = [left EXCEPT ![k] = n]
  /\ serial' = [serial EXCEPT ![k] = @ + 1]
  /\ result' = [result EXCEPT ![k] = None]
  /\ copied' = [copied EXCEPT ![k] = 0] /\ calls' = [calls EXCEPT ![k] = 0]
  /\ UNCHANGED <<event, hardware>>

\* getChanInfo fails.
DmacRequestChannelFails(k) ==
  /\ pc[k] = "got"
  /\ DmacFreeChannel(chan[k])
  /\ pc' = [pc EXCEPT ![k] = "idle"]
  /\ UNCHANGED <<event, hardware, request, left, result, history>>

-----------------------------------------------------------------------------
(* DmacPeriphTransfer.                                                     *)

\* Neither address is given: the call returns as it is.
DmacPeriphNull(k) ==
  /\ pc[k] = "got" /\ kind[k] = "null"
  /\ pc' = [pc EXCEPT ![k] = "idle"]
  /\ UNCHANGED <<channels, hardware, request, left, result, history>>

\* The list is allocated and filled, and the channel enabled.
DmacPeriphTransfer(k) ==
  /\ pc[k] = "got" /\ kind[k] = "periph"
  /\ info' = [info EXCEPT ![chan[k]] = [@ EXCEPT !.cb = k, !.lli = TRUE]]
  /\ hw' = [hw EXCEPT ![chan[k]] = <<k, serial[k]>>]
  /\ pc' = [pc EXCEPT ![k] = "running"]
  /\ UNCHANGED <<use, event, irq, request, left, result, history>>

\* The list cannot be allocated or filled, or the channel not be enabled.
DmacPeriphFails(k) ==
  /\ pc[k] = "got" /\ kind[k] = "periph"
  /\ use' = [use EXCEPT ![chan[k]] = "vacant"]
  /\ info' = [info EXCEPT ![chan[k]] = [@ EXCEPT !.cb = k, !.lli = FALSE]]
  /\ pc' = [pc EXCEPT ![k] = "idle"]
  /\ UNCHANGED <<event, hardware, request, left, result, history>>

-----------------------------------------------------------------------------
(* DmacM2mTransfer.                                                        *)

DmacM2mStart(k) ==
  /\ pc[k] = "got" /\ kind[k] = "m2m"
  /\ info' = [info EXCEPT ![chan[k]].cb = k]
  /\ pc' = [pc EXCEPT ![k] = "enable"]
  /\ UNCHANGED <<use, event, hardware, request, left, result, history>>

\* The next piece.
DmacM2mEnable(k) ==
  /\ pc[k] = "enable"
  /\ hw' = [hw EXCEPT ![chan[k]] = <<k, serial[k]>>]
  /\ pc' = [pc EXCEPT ![k] = "wait"]
  /\ UNCHANGED <<channels, irq, request, left, result, history>>

\* The channel is freed; the callback is called next.
M2mEnds(k, res) ==
  /\ DmacFreeChannel(chan[k])
  /\ result' = [result EXCEPT ![k] = res]
  /\ pc' = [pc EXCEPT ![k] = "tell"]

DmacM2mEnableFails(k) ==
  /\ pc[k] = "enable"
  /\ M2mEnds(k, "error")
  /\ UNCHANGED <<event, hardware, request, left, history>>

\* DmacWaitM2mSendComplete: the wait clears the event.  The channel is
\* disabled after a piece that was done, and only then.
DmacWaitM2mSendComplete(k) ==
  /\ pc[k] = "wait" /\ event[chan[k]] \notin {{}, {"error"}}
  /\ event' = [event EXCEPT ![chan[k]] = {}]
  /\ hw' = [hw EXCEPT ![chan[k]] = NoTransfer]
  /\ left' = [left EXCEPT ![k] = @ - 1]
  /\ IF left[k] = 1 THEN M2mEnds(k, "success")
     ELSE pc' = [pc EXCEPT ![k] = "enable"] /\ UNCHANGED <<use, info, result>>
  /\ UNCHANGED <<irq, request, history>>

DmacWaitM2mError(k) ==
  /\ pc[k] = "wait" /\ event[chan[k]] = {"error"}
  /\ event' = [event EXCEPT ![chan[k]] = {}]
  /\ M2mEnds(k, "error")
  /\ UNCHANGED <<hardware, request, left, history>>

\* Mutant: a wait without a timeout.
WaitForEver(k) ==
  /\ Timeouts /\ left[k] = 0
  /\ pc[k] = "wait" /\ event[chan[k]] = {}
  /\ M2mEnds(k, "timeout")
  /\ UNCHANGED <<event, hardware, request, left, history>>

DmacWaitM2mTimeout(k) ==
  /\ Timeouts
  /\ pc[k] = "wait" /\ event[chan[k]] = {}
  /\ M2mEnds(k, "timeout")
  /\ UNCHANGED <<event, hardware, request, left, history>>

\* The callback is the one the channel has now.
DmacM2mTells(k) ==
  /\ pc[k] = "tell"
  /\ calls' = [calls EXCEPT ![info[chan[k]].cb] = @ + 1]
  /\ pc' = [pc EXCEPT ![k] = "idle"]
  /\ UNCHANGED <<channels, hardware, request, left, result, copied>>

-----------------------------------------------------------------------------
\* External: a channel of the hardware has copied its piece, or failed to.  An end
\* that comes while the interrupt frees the channel is taken after it: its own
\* interrupt is served next, and nothing looks at the hardware in between.
HwEnds(c, status) ==
  /\ hw[c] # NoTransfer /\ irq[c] # "called"
  /\ irq' = [irq EXCEPT ![c] = status]
  /\ hw' = [hw EXCEPT ![c] = NoTransfer]
  /\ copied' = IF status = "success" /\ serial[hw[c][1]] = hw[c][2]
               THEN [copied EXCEPT ![hw[c][1]] = @ + 1] ELSE copied
  /\ UNCHANGED <<channels, request, pc, left, result, calls>>

\* DmacCallbackHandle for a transfer from memory to memory.
DmacEventCallback(c) ==
  /\ event' = [event EXCEPT ![c] = @ \cup {IF irq[c] = "error" THEN "error" ELSE "done"}]
  /\ UNCHANGED <<pc, calls>>

\* DmacCallbackHandle for the others: the client is told.
Callback(c) ==
  LET k == info[c].cb
  IN  /\ calls' = [calls EXCEPT ![k] = @ + 1]
      /\ pc' = IF pc[k] = "running" /\ chan[k] = c THEN [pc EXCEPT ![k] = "idle"] ELSE pc
      /\ UNCHANGED event

\* DmacIsr, for one of the channels it finds ended: the client is told first.
DmacIsr(c) ==
  /\ irq[c] \in {"success", "error"} /\ \A d \in Channels : irq[d] # "called"
  /\ irq' = [irq EXCEPT ![c] = "called"]
  /\ IF info[c].type = "m2m" THEN DmacEventCallback(c) ELSE Callback(c)
  /\ UNCHANGED <<use, info, hw, request, left, result, copied>>

\* The channel is freed then, for every kind of transfer, whoever has it now.
DmacIsrFrees(c) ==
  /\ irq[c] = "called"
  /\ irq' = [irq EXCEPT ![c] = None]
  /\ DmacFreeChannel(c)
  /\ UNCHANGED <<event, hw, request, pc, left, result, history>>

Next ==
  \/ \E k \in Clients, type \in Kinds, n \in Pieces : DmaCntlrTransfer(k, type, n)
  \/ \E k \in Clients : DmacRequestChannelFails(k)
  \/ \E k \in Clients : DmacPeriphNull(k)
  \/ \E k \in Clients : DmacPeriphTransfer(k)
  \/ \E k \in Clients : DmacPeriphFails(k)
  \/ \E k \in Clients : DmacM2mStart(k)
  \/ \E k \in Clients : DmacM2mEnable(k)
  \/ \E k \in Clients : DmacM2mEnableFails(k)
  \/ \E k \in Clients : DmacWaitM2mSendComplete(k)
  \/ \E k \in Clients : DmacWaitM2mError(k)
  \/ \E k \in Clients : DmacWaitM2mTimeout(k)
  \/ \E k \in Clients : DmacM2mTells(k)
  \/ \E c \in Channels, status \in {"success", "error"} : HwEnds(c, status)
  \/ \E c \in Channels : DmacIsr(c)
  \/ \E c \in Channels : DmacIsrFrees(c)

Spec == Init /\ [][Next]_vars

ThreadStep(k) ==
  \/ DmacRequestChannelFails(k) \/ DmacPeriphNull(k) \/ DmacPeriphTransfer(k)
  \/ DmacPeriphFails(k) \/ DmacM2mStart(k) \/ DmacM2mEnable(k) \/ DmacM2mEnableFails(k)
  \/ DmacWaitM2mSendComplete(k) \/ DmacWaitM2mError(k) \/ DmacWaitM2mTimeout(k)
  \/ DmacM2mTells(k)
IsrStep(c) == DmacIsr(c) \/ DmacIsrFrees(c)
HwStep(c) == \E status \in {"success", "error"} : HwEnds(c, status)

\* The threads of the clients run on, the hardware comes to an end with every
\* transfer, and interrupts arrive.
FairSpec ==
  /\ Spec
  /\ \A k \in Clients : WF_vars(ThreadStep(k))
  /\ \A c \in Channels : WF_vars(IsrStep(c)) /\ WF_vars(HwStep(c))

-----------------------------------------------------------------------------
UnderWay(k) == pc[k] \in {"got", "enable", "wait", "running"}

\* Two transfers under way never share a channel, and the channel of each is
\* allocated (dmac_core.c 202-267, 508-531).
ChannelExclusive ==
  \A k \in Clients : UnderWay(k) =>
    /\ use[chan[k]] = "allocated"
    /\ \A j \in Clients \ {k} : UnderWay(j) => chan[j] # chan[k]

\* A callback is called once for a transfer, and not before the transfer has
\* ended (dmac_core.c 170-179, 418-469).
CalledOnce ==
  \A k \in Clients : calls[k] <= 1 /\ (calls[k] = 1 => pc[k] = "idle")

\* When no transfer is under way and the interrupt has run to its end, every
\* channel is vacant and holds no list (dmac_core.c 380-416).  The exception is a
\* transfer of kind "null", which keeps its channel (390-393).
ChannelsBack ==
  (\A k \in Clients : pc[k] = "idle") /\ (\A c \in Channels : irq[c] # "called") =>
    \A c \in Channels : use[c] = "vacant" /\ ~ info[c].lli

\* A transfer from memory to memory that reports success has copied all of its
\* pieces (dmac_core.c 181-200, 440-469), when one client copies and no wait of
\* its times out.
SuccessIsCopied ==
  \A k \in Clients : pc[k] = "tell" /\ result[k] = "success" => copied[k] = pieces[k]

=============================================================================

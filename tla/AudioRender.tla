---------------------------- MODULE AudioRender ----------------------------
(***************************************************************************)
(* The render side of the audio platform: a circular buffer that a client  *)
(* fills, one buffer per call (AudioPcmWrite) or a whole mapped file in    *)
(* one call (AudioPcmMmapWrite), and that the DMA plays.  The write offset *)
(* runs freely in 32 bits and is reduced to the buffer where it is used;   *)
(* the space left is computed from it and from the DMA's pointer.          *)
(*                                                                         *)
(* One unit is one frame.  The k-th frame the client sent is the number    *)
(* k + 1; 0 is silence.                                                    *)
(* Mapped code: audio_platform_base.c.                                     *)
(***************************************************************************)
EXTENDS Integers, Sequences

CONSTANTS
  Cir,         \* cirBufSize
  Modulus,     \* 2^32: the width of wbufOffSet
  Period,      \* MIN_PERIOD_SIZE
  DefaultTraf, \* RENDER_TRAF_BUF_SIZE
  Sizes,       \* the sizes of the buffers a client writes
  Totals,      \* the sizes of the mapped files it writes
  TimeOut,     \* TIME_OUT_CONST
  MaxSent,     \* bound on the frames sent
  MaxTriggers  \* bound on the triggers

VARIABLES
  ring,       \* the frames in the circular buffer
  wbufOffSet, \* the free-running write offset
  traf,       \* trafBufSize
  runStatus,  \* of the stream
  sent,       \* history: frames copied since the preparation
  played,     \* frames the DMA has played since the preparation
  pc,         \* "idle" or "loop": is AudioMmapWriteTransfer running?
  left,       \* frames of the file it still has to copy
  timeout,    \* its count of full buffers in a row
  triggers    \* what MaxTriggers bounds

transfer == <<pc, left, timeout>>
buffer == <<ring, wbufOffSet, traf, sent>>
vars == <<buffer, runStatus, played, transfer, triggers>>

Silence == [i \in 0..(Cir - 1) |-> 0]

TypeOK ==
  /\ ring \in [0..(Cir - 1) -> 0..MaxSent]
  /\ wbufOffSet \in 0..(Modulus - 1)
  /\ traf \in Nat
  /\ runStatus \in {"stop", "pause", "start"}
  /\ sent \in 0..MaxSent /\ played \in 0..sent
  /\ pc \in {"idle", "loop"} /\ left \in Nat /\ timeout \in 0..(TimeOut - 1)

Init ==
  /\ ring = Silence /\ wbufOffSet = 0 /\ traf = DefaultTraf
  /\ runStatus = "stop"
  /\ sent = 0 /\ played = 0
  /\ pc = "idle" /\ left = 0 /\ timeout = 0
  /\ triggers = 0

-----------------------------------------------------------------------------
\* AudioDmaBuffStatus: is there room for more than t frames?  The DMA's
\* pointer lies in the buffer; the difference is taken in the width of the
\* offset.
BuffNormal(t) ==
  LET rptr == played % Cir
      dataAvailable == ((wbufOffSet - rptr) % Modulus) % Cir
  IN  Cir - dataAvailable > t

\* Mutant: the offset is advanced by the default size.
CopyDefault(n) ==
  LET wPtr == wbufOffSet % Cir
  IN  /\ ring' = [i \in 0..(Cir - 1) |->
                    IF i \in wPtr..(wPtr + n - 1) THEN sent + (i - wPtr) + 1 ELSE ring[i]]
      /\ wbufOffSet' = (wbufOffSet + DefaultTraf) % Modulus
      /\ sent' = sent + n
      /\ traf' = n

\* The copy to the buffer and the new offset.  What lies past the end of the
\* buffer is not played.
Copy(n) ==
  LET wPtr == wbufOffSet % Cir
  IN  /\ ring' = [i \in 0..(Cir - 1) |->
                    IF i \in wPtr..(wPtr + n - 1) THEN sent + (i - wPtr) + 1 ELSE ring[i]]
      /\ wbufOffSet' = (wbufOffSet + n) % Modulus
      /\ sent' = sent + n
      /\ traf' = n

\* AudioPcmWrite: a full buffer is reported, and the client comes again.
AudioPcmWrite(n) ==
  /\ pc = "idle" /\ sent + n <= MaxSent
  /\ BuffNormal(n) /\ n <= Cir
  /\ Copy(n)
  /\ UNCHANGED <<runStatus, played, transfer, triggers>>

\* It leaves only the size of the buffer behind when the buffer is full, or
\* when it is larger than the circular one.
AudioPcmWriteRefused(n) ==
  /\ pc = "idle" /\ traf # n
  /\ ~ BuffNormal(n) \/ n > Cir
  /\ traf' = n
  /\ UNCHANGED <<ring, wbufOffSet, sent, runStatus, played, transfer, triggers>>

-----------------------------------------------------------------------------
(* The transfer of a mapped file.                                          *)

AudioPcmMmapWrite(total) ==
  /\ pc = "idle" /\ sent + total <= MaxSent
  /\ pc' = "loop" /\ left' = total /\ timeout' = 0
  /\ UNCHANGED <<buffer, runStatus, played, triggers>>

\* The loop goes round: the stream plays, and there is more to copy.
Looping == pc = "loop" /\ left > 0 /\ runStatus = "start"

\* Mutant: the count of full buffers does not grow.
FullNotCounted ==
  /\ Looping /\ ~ BuffNormal(traf)
  /\ pc' = "loop" /\ timeout' = 0
  /\ UNCHANGED <<buffer, runStatus, played, left, triggers>>

\* The buffer is full: sleep, and fail after TIME_OUT_CONST times.
MmapFull ==
  /\ Looping /\ ~ BuffNormal(traf)
  /\ IF timeout + 1 >= TimeOut THEN pc' = "idle" /\ timeout' = 0
     ELSE pc' = pc /\ timeout' = timeout + 1
  /\ UNCHANGED <<buffer, runStatus, played, left, triggers>>

\* The size of the next part of the file.
NextPart == IF left > Period THEN Period ELSE left

\* MmapWriteData copies the next part of the file.  The room was measured with
\* the size of the part before it.
MmapWriteData ==
  /\ Looping /\ BuffNormal(traf) /\ NextPart <= Cir
  /\ Copy(NextPart)
  /\ left' = left - NextPart /\ timeout' = 0
  /\ UNCHANGED <<pc, runStatus, played, triggers>>

\* The part is larger than the buffer, or cannot be copied from the client.
MmapWriteFails ==
  /\ Looping /\ BuffNormal(traf)
  /\ traf' = NextPart
  /\ pc' = "idle" /\ timeout' = 0
  /\ UNCHANGED <<ring, wbufOffSet, sent, left, runStatus, played, triggers>>

\* The file is copied, or the stream has stopped.
MmapReturn ==
  /\ pc = "loop" /\ (left = 0 \/ runStatus = "stop")
  /\ pc' = "idle"
  /\ UNCHANGED <<buffer, runStatus, played, left, timeout, triggers>>

-----------------------------------------------------------------------------
\* AudioRenderPrepare, between streams.
AudioRenderPrepare ==
  /\ runStatus = "stop" /\ pc = "idle" /\ sent > 0
  /\ ring' = Silence /\ wbufOffSet' = 0
  /\ sent' = 0 /\ played' = 0
  /\ UNCHANGED <<traf, runStatus, transfer, triggers>>

\* AudioRenderTrigger: what the client asks for, once the DMA has done it.
AudioRenderTrigger(status) ==
  /\ triggers < MaxTriggers
  /\ runStatus # status /\ (runStatus = "stop" => status = "start")
  /\ runStatus' = status /\ triggers' = triggers + 1
  /\ UNCHANGED <<buffer, played, transfer>>

\* The DMA plays a frame; the client feeds it in time.
DmaPlays ==
  /\ runStatus = "start" /\ played < sent
  /\ played' = played + 1
  /\ UNCHANGED <<buffer, runStatus, transfer, triggers>>

Next ==
  \/ \E n \in Sizes : AudioPcmWrite(n)
  \/ \E n \in Sizes : AudioPcmWriteRefused(n)
  \/ \E total \in Totals : AudioPcmMmapWrite(total)
  \/ MmapFull
  \/ MmapWriteData
  \/ MmapWriteFails
  \/ MmapReturn
  \/ AudioRenderPrepare
  \/ \E status \in {"stop", "pause", "start"} : AudioRenderTrigger(status)
  \/ DmaPlays

Spec == Init /\ [][Next]_vars

\* The thread of the transfer runs on; the DMA may be stuck.
FairSpec == /\ Spec
            /\ WF_vars(MmapFull) /\ WF_vars(MmapWriteData) /\ WF_vars(MmapReturn)

-----------------------------------------------------------------------------
\* What was sent and not yet played lies in the buffer where the DMA will
\* find it: no write overwrites it and none is misplaced, also when the offset
\* wraps (audio_platform_base.c 254-302, 335-357, 447-477).  This needs a size
\* that divides the modulus (276, 359), and parts none of which is short (513,
\* 525) or goes over the end of the buffer (345, 465).
UnplayedIntact ==
  \A k \in played..(sent - 1) : ring[k % Cir] = k + 1

\* The buffer never holds more than the offset can tell: a buffer that is full
\* to the last frame would look empty (audio_platform_base.c 275-281).
NeverFull == sent - played < Cir

=============================================================================

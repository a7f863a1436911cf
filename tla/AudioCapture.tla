---------------------------- MODULE AudioCapture ----------------------------
(***************************************************************************)
(* The capture side of the audio platform: the DMA records into a circular *)
(* buffer, and a client reads from it, a piece per call (AudioPcmRead) or  *)
(* a whole mapped buffer in one call (AudioMmapReadTransfer).  A piece is  *)
(* trafBufSize long, unless the end of the circular buffer cuts it short.  *)
(*                                                                         *)
(* One unit is one frame.  The k-th frame recorded is the number k; 0 is   *)
(* silence.                                                                *)
(* Mapped code: audio_platform_base.c.                                     *)
(***************************************************************************)
EXTENDS Integers, Sequences

CONSTANTS
  Cir,         \* cirBufSize
  Traf,        \* trafBufSize: the client's silenceThreshold
  Totals,      \* the sizes of the mapped buffers
  TimeOut,     \* TIME_OUT_CONST
  MaxRecorded, \* bound on the frames recorded
  MaxTriggers  \* bound on the triggers

VARIABLES
  ring,       \* the frames in the circular buffer
  recorded,   \* frames the DMA has recorded since the preparation
  rptrOffSet, \* the client's place in the circular buffer
  curTraf,    \* curTrafSize
  runStatus,  \* of the stream
  handed,     \* history: the frames handed to the client
  pc,         \* of AudioMmapReadTransfer: "idle", its loop's "body" and "test"
  offset, total, timeout, \* its local variables
  triggers    \* what MaxTriggers bounds

transfer == <<pc, offset, total, timeout>>
vars == <<ring, recorded, rptrOffSet, curTraf, runStatus, handed, transfer, triggers>>

TypeOK ==
  /\ ring \in [0..(Cir - 1) -> 0..MaxRecorded] /\ recorded \in 0..MaxRecorded
  /\ rptrOffSet \in 0..(Cir - 1) /\ curTraf \in 0..Traf
  /\ runStatus \in {"stop", "pause", "start"}
  /\ handed \in Seq(0..MaxRecorded)
  /\ pc \in {"idle", "body", "test"}
  /\ offset \in Nat /\ total \in Nat /\ timeout \in 0..(TimeOut - 1)

Silence == [i \in 0..(Cir - 1) |-> 0]

Init ==
  /\ ring = Silence /\ recorded = 0 /\ rptrOffSet = 0 /\ curTraf = 0
  /\ runStatus = "stop" /\ handed = << >>
  /\ pc = "idle" /\ offset = 0 /\ total = 0 /\ timeout = 0
  /\ triggers = 0

-----------------------------------------------------------------------------
wptr == recorded % Cir

\* AudioDmaBuffStatus: is there a piece to read?
BuffNormal == wptr < rptrOffSet \/ wptr - rptrOffSet >= Traf

\* The size of the piece, given the size it starts from.
ReadSize(size) ==
  IF rptrOffSet > wptr /\ Cir - rptrOffSet < Traf THEN Cir - rptrOffSet ELSE size

\* The n frames at the client's place are handed over.
Hand(n) ==
  /\ handed' = handed \o [i \in 1..n |-> IF rptrOffSet + i <= Cir THEN ring[rptrOffSet + i - 1] ELSE 0]
  /\ rptrOffSet' = IF rptrOffSet + n >= Cir THEN 0 ELSE rptrOffSet + n
  /\ curTraf' = n

\* AudioPcmRead; on an empty buffer it hands over nothing.
AudioPcmRead ==
  /\ pc = "idle"
  /\ BuffNormal
  /\ Hand(ReadSize(Traf))
  /\ UNCHANGED <<ring, recorded, runStatus, transfer, triggers>>

-----------------------------------------------------------------------------
(* AudioMmapReadTransfer.                                                  *)

AudioPcmMmapRead(size) ==
  /\ pc = "idle"
  /\ pc' = "body" /\ offset' = 0 /\ total' = size /\ timeout' = 0
  /\ curTraf' = Traf
  /\ UNCHANGED <<ring, recorded, rptrOffSet, runStatus, handed, triggers>>

MmapPaused ==
  /\ pc = "body" /\ runStatus = "pause"
  /\ pc' = "test"
  /\ UNCHANGED <<ring, recorded, rptrOffSet, curTraf, runStatus, handed, offset, total, timeout, triggers>>

\* The buffer is empty: sleep, and fail after TIME_OUT_CONST times.
MmapEmpty ==
  /\ pc = "body" /\ runStatus # "pause" /\ ~ BuffNormal
  /\ IF timeout + 1 >= TimeOut THEN pc' = "idle" /\ timeout' = 0
     ELSE pc' = "test" /\ timeout' = timeout + 1
  /\ UNCHANGED <<ring, recorded, rptrOffSet, curTraf, runStatus, handed, offset, total, triggers>>

\* MmapReadData: the size of the piece starts from the size of the piece before.
MmapReadData ==
  /\ pc = "body" /\ runStatus # "pause" /\ BuffNormal
  /\ Hand(ReadSize(curTraf))
  /\ offset' = offset + ReadSize(curTraf)
  /\ pc' = "test" /\ timeout' = 0
  /\ UNCHANGED <<ring, recorded, runStatus, total, triggers>>

\* The piece cannot be converted, or copied to the client.
MmapReadFails ==
  /\ pc = "body" /\ runStatus # "pause" /\ BuffNormal
  /\ curTraf' = ReadSize(curTraf)
  /\ pc' = "idle" /\ timeout' = 0
  /\ UNCHANGED <<ring, recorded, rptrOffSet, runStatus, handed, offset, total, triggers>>

\* The test at the end of the loop.
MmapTest ==
  /\ pc = "test"
  /\ pc' = IF offset < total /\ runStatus # "stop" THEN "body" ELSE "idle"
  /\ UNCHANGED <<ring, recorded, rptrOffSet, curTraf, runStatus, handed, offset, total, timeout, triggers>>

-----------------------------------------------------------------------------
\* AudioCapturePrepare, between streams.
AudioCapturePrepare ==
  /\ runStatus = "stop" /\ pc = "idle" /\ recorded > 0
  /\ ring' = Silence /\ recorded' = 0 /\ rptrOffSet' = 0 /\ handed' = << >>
  /\ UNCHANGED <<curTraf, runStatus, transfer, triggers>>

\* AudioCaptureTrigger: what the client asks for, once the DMA has done it.
AudioCaptureTrigger(status) ==
  /\ triggers < MaxTriggers
  /\ runStatus # status /\ (runStatus = "stop" => status = "start")
  /\ runStatus' = status /\ triggers' = triggers + 1
  /\ UNCHANGED <<ring, recorded, rptrOffSet, curTraf, handed, transfer>>

\* The DMA records a frame; the client reads in time.
DmaRecords ==
  /\ runStatus = "start" /\ recorded < MaxRecorded
  /\ recorded - Len(handed) < Cir
  /\ ring' = [ring EXCEPT ![wptr] = recorded + 1]
  /\ recorded' = recorded + 1
  /\ UNCHANGED <<rptrOffSet, curTraf, runStatus, handed, transfer, triggers>>

Next ==
  \/ AudioPcmRead
  \/ \E size \in Totals : AudioPcmMmapRead(size)
  \/ MmapPaused
  \/ MmapEmpty
  \/ MmapReadData
  \/ MmapReadFails
  \/ MmapTest
  \/ AudioCapturePrepare
  \/ \E status \in {"stop", "pause", "start"} : AudioCaptureTrigger(status)
  \/ DmaRecords

Spec == Init /\ [][Next]_vars

\* The thread of the transfer runs on; the DMA may be stuck.
FairSpec == Spec /\ WF_vars(MmapPaused \/ MmapEmpty \/ MmapReadData \/ MmapReadFails \/ MmapTest)

-----------------------------------------------------------------------------
\* The client is handed what was recorded, from the first frame on, without a
\* gap, a repetition or a frame that was never recorded, however its reads
\* meet the end of the buffer (audio_platform_base.c 282-296, 364-445,
\* 579-623).
GapFree == \A k \in 1..Len(handed) : handed[k] = k /\ k <= recorded

=============================================================================

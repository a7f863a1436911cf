------------------------------ MODULE MCAudio -------------------------------
(* Audio: the power management of a card's components, playback and capture.  *)
(* A behaviour runs one of them, on one of several instances; they share       *)
(* their variables.                                                            *)
EXTENDS Integers, Sequences, FiniteSets, TLC

VARIABLES
  part, \* the part that runs
  ready, bit, connect, power, writes, asked, run, monitor, standbyMode,
  isSleep, isStandby, age, timer, sets, triggers, fails, ring, wbufOffSet,
  traf, runStatus, sent, played, pc, left, timeout, recorded, rptrOffSet,
  curTraf, handed, offset, total

vars == <<part, ready, bit, connect, power, writes, asked, run, monitor,
          standbyMode, isSleep, isStandby, age, timer, sets, triggers, fails,
          ring, wbufOffSet, traf, runStatus, sent, played, pc, left, timeout,
          recorded, rptrOffSet, curTraf, handed, offset, total>>

\* The value of the variables of a part that does not run.
Off == "off"

-----------------------------------------------------------------------------
(* AudioSapm: controls, a stream that is paused, and the way to sleep.     *)

\* dac -> mix -> omix -> spk; lin -> mix; mic -> amix -> adc; mix -> amix
MixPath == {<<"dac", "mix">>, <<"lin", "mix">>, <<"mix", "omix">>, <<"omix", "spk">>,
            <<"mic", "amix">>, <<"mix", "amix">>, <<"amix", "adc">>}
MixComp == {"dac", "lin", "mix", "omix", "spk", "mic", "amix", "adc"}
MixType == [c \in MixComp |->
              CASE c = "dac" -> "DAC" [] c = "lin" -> "LINE" [] c = "spk" -> "SPK"
                [] c = "mic" -> "MIC" [] c = "adc" -> "ADC" [] OTHER -> "MIXER"]
MixControl == {<<"dac", "mix">>, <<"lin", "mix">>, <<"mix", "omix">>, <<"mix", "amix">>}
MixProbed == {{}, MixComp, {"dac", "spk", "amix"}}

\* dac -> mix -> spk; mic -> amix -> adc
OnePath == {<<"dac", "mix">>, <<"mix", "spk">>, <<"mic", "amix">>, <<"amix", "adc">>}
OneComp == {"dac", "mix", "spk", "mic", "amix", "adc"}
OneType == [c \in OneComp |->
              CASE c = "dac" -> "DAC" [] c = "spk" -> "SPK" [] c = "mic" -> "MIC"
                [] c = "adc" -> "ADC" [] OTHER -> "MIXER"]
OneProbed == {{}, OneComp, {"spk", "mic"}}
OneControl == {<<"dac", "mix">>, <<"mic", "amix">>}
RenderComp == [s \in {"render"} |-> {"dac", "mix", "spk"}]
BothComp == [s \in {"render", "capture"} |->
               IF s = "render" THEN {"dac", "mix", "spk"} ELSE {"mic", "amix", "adc"}]

SapmSwitch == INSTANCE AudioSapm WITH
  Comp <- MixComp, Type <- MixType, HasReg <- MixComp, Path <- MixPath,
  Control <- MixControl, Inverted <- {}, Probed <- MixProbed,
  Values <- {0, 1}, Streams <- {}, StreamComp <- << >>, Cmds <- {},
  SleepTime <- 1, Preempt <- TRUE, MaxSets <- 3, MaxTriggers <- 0,
  MaxFails <- 0

SapmPause == INSTANCE AudioSapm WITH
  Comp <- OneComp, Type <- OneType, HasReg <- OneComp, Path <- OnePath,
  Control <- OneControl, Inverted <- {}, Probed <- OneProbed,
  Values <- {0, 1}, Streams <- {"render"}, StreamComp <- RenderComp,
  Cmds <- {"START", "PAUSE", "RESUME"}, SleepTime <- 1, Preempt <- FALSE,
  MaxSets <- 2, MaxTriggers <- 3, MaxFails <- 1

SapmSleep == INSTANCE AudioSapm WITH
  Comp <- OneComp, Type <- OneType, HasReg <- OneComp, Path <- OnePath,
  Control <- OneControl, Inverted <- {}, Probed <- OneProbed,
  Values <- {0, 1}, Streams <- {"render", "capture"}, StreamComp <- BothComp,
  Cmds <- {"START", "STOP", "PAUSE", "RESUME"}, SleepTime <- 1,
  Preempt <- TRUE, MaxSets <- 0, MaxTriggers <- 3, MaxFails <- 1

\* The variables of the other parts.
SapmRest == <<ring, wbufOffSet, traf, runStatus, sent, played, pc, left,
              timeout, recorded, rptrOffSet, curTraf, handed, offset, total>>
SapmAlone ==
  /\ ring = Off /\ wbufOffSet = Off /\ traf = Off /\ runStatus = Off
  /\ sent = Off /\ played = Off /\ pc = Off /\ left = Off /\ timeout = Off
  /\ recorded = Off /\ rptrOffSet = Off /\ curTraf = Off /\ handed = Off
  /\ offset = Off /\ total = Off

\* The walk over the dirty components visits only what a change reaches; even so,
\* on a card without streams, which never sleeps, the powered components are exactly
\* the ones on a complete path, whatever controls of mixers were written, if no
\* register fails, and the path of a control is as its client asked.  An amplifier is
\* switched on after, and off before, what feeds it.  While a stream runs that was
\* started once, its components have power, also when it is resumed from a pause in
\* which the card fell asleep.  Not claimed: a stream that is stopped and started
\* again after a sleep, which AudioPcmPending does not power up
\* (audio_platform_base.c 882-904), two streams (audio_sapm.c 1337), or a trigger that
\* preempts the callback (audio_sapm.c, AudioSapmPowerComponents and the sorted
\* insertion, AudioCodecSapmSetCtrlOps, AudioSampPowerUp).
PowerFollowsPaths ==
  /\ part = "sapm_switch" =>
       /\ SapmSwitch!PowerFollowsPaths /\ SapmSwitch!ControlObeyed
       /\ SapmSwitch!AmplifierLastOnFirstOff
  /\ part = "sapm_pause" =>
       SapmPause!TypeOK /\ SapmPause!StreamPowered /\ SapmPause!AmplifierLastOnFirstOff

-----------------------------------------------------------------------------
(* AudioRender: a mapped file, and buffers that are written.               *)

RenderMmap == INSTANCE AudioRender WITH
  Cir <- 8, Modulus <- 16, Period <- 2, DefaultTraf <- 1, Sizes <- {},
  Totals <- {2, 4, 12}, TimeOut <- 2, MaxSent <- 20, MaxTriggers <- 4

RenderWrite == INSTANCE AudioRender WITH
  Cir <- 8, Modulus <- 16, Period <- 2, DefaultTraf <- 1, Sizes <- {2, 16},
  Totals <- {4}, TimeOut <- 2, MaxSent <- 20, MaxTriggers <- 3

\* The variables of the other parts.
RenderRest == <<ready, bit, connect, power, writes, asked, run, monitor,
                standbyMode, isSleep, isStandby, age, timer, sets, fails,
                recorded, rptrOffSet, curTraf, handed, offset, total>>
RenderAlone ==
  /\ ready = Off /\ bit = Off /\ connect = Off /\ power = Off
  /\ writes = Off /\ asked = Off /\ run = Off /\ monitor = Off
  /\ standbyMode = Off /\ isSleep = Off /\ isStandby = Off /\ age = Off
  /\ timer = Off /\ sets = Off /\ fails = Off /\ recorded = Off
  /\ rptrOffSet = Off /\ curTraf = Off /\ handed = Off /\ offset = Off
  /\ total = Off

-----------------------------------------------------------------------------
(* AudioCapture.                                                           *)

CaptureRead == INSTANCE AudioCapture WITH
  Cir <- 5, Traf <- 2, Totals <- {2, 7}, TimeOut <- 2, MaxRecorded <- 15,
  MaxTriggers <- 4

\* The variables of the other parts.
CaptureRest == <<ready, bit, connect, power, writes, asked, run, monitor,
                 standbyMode, isSleep, isStandby, age, timer, sets, fails,
                 wbufOffSet, traf, sent, played, left>>
CaptureAlone ==
  /\ ready = Off /\ bit = Off /\ connect = Off /\ power = Off
  /\ writes = Off /\ asked = Off /\ run = Off /\ monitor = Off
  /\ standbyMode = Off /\ isSleep = Off /\ isStandby = Off /\ age = Off
  /\ timer = Off /\ sets = Off /\ fails = Off /\ wbufOffSet = Off
  /\ traf = Off /\ sent = Off /\ played = Off /\ left = Off

\* If the size of the buffer divides the modulus of the offset (audio_platform_base.c
\* 276, 359), and a mapped file comes in whole parts, none of them short (513, 525) or
\* over the end of the buffer (345, 465): what was sent and not yet played lies in the
\* buffer where the DMA will find it, and no write overwrites it, also when the offset
\* wraps.  A buffer that is written is never so full that it would look empty, whatever
\* sizes were written (AudioDmaBuffStatus).  And the client is handed what was
\* recorded, from the first frame on, without a gap or a repetition, however its
\* reads meet the end of the buffer (AudioMmapReadTransfer).
FramesKept ==
  /\ part = "render_mmap" => RenderMmap!TypeOK /\ RenderMmap!UnplayedIntact
  /\ part = "render_write" => RenderWrite!NeverFull
  /\ part = "capture_read" => CaptureRead!TypeOK /\ CaptureRead!GapFree

\* A card whose streams stay stopped or paused is put to sleep, through standby,
\* with every component down (audio_sapm.c, the timer's callback); a transfer ends
\* even if the DMA is stuck, unless the stream is paused for ever
\* (audio_platform_base.c, AudioMmapWriteTransfer, AudioMmapReadTransfer).
EndsAtLast ==
  /\ <>[](part = "sapm_sleep" => monitor) =>
       <>[](part = "sapm_sleep" => \A c \in OneComp : ~ power[c])
  /\ []<>(part = "render_mmap" => pc # "loop" \/ runStatus = "pause")
  /\ []<>(part = "capture_read" => pc = "idle" \/ runStatus = "pause")

-----------------------------------------------------------------------------
\* One part is chosen at the start and runs on.
Init ==
  \/ part = "sapm_switch" /\ SapmAlone /\ SapmSwitch!Init
  \/ part = "sapm_pause" /\ SapmAlone /\ SapmPause!Init
  \/ part = "sapm_sleep" /\ SapmAlone /\ SapmSleep!Init
  \/ part = "render_mmap" /\ RenderAlone /\ RenderMmap!Init
  \/ part = "render_write" /\ RenderAlone /\ RenderWrite!Init
  \/ part = "capture_read" /\ CaptureAlone /\ CaptureRead!Init

Next ==
  \/ part = "sapm_switch" /\ SapmSwitch!Next /\ UNCHANGED <<part, SapmRest>>
  \/ part = "sapm_pause" /\ SapmPause!Next /\ UNCHANGED <<part, SapmRest>>
  \/ part = "sapm_sleep" /\ SapmSleep!Next /\ UNCHANGED <<part, SapmRest>>
  \/ part = "render_mmap" /\ RenderMmap!Next /\ UNCHANGED <<part, RenderRest>>
  \/ part = "render_write" /\ RenderWrite!Next /\ UNCHANGED <<part, RenderRest>>
  \/ part = "capture_read" /\ CaptureRead!Next /\ UNCHANGED <<part, CaptureRest>>

\* Each component's own fairness, while it runs.
Fairness ==
  /\ WF_ready(part = "sapm_sleep" /\ SapmSleep!Probes)
  /\ WF_(SapmSleep!vars)(part = "sapm_sleep" /\ SapmSleep!Tick)
  /\ WF_(SapmSleep!vars)(part = "sapm_sleep" /\ SapmSleep!EnterStandby)
  /\ WF_(SapmSleep!vars)(part = "sapm_sleep" /\ SapmSleep!EnterSleep)
  /\ WF_timer(part = "sapm_sleep" /\ SapmSleep!CallbackEnds)
  /\ WF_(RenderMmap!vars)(part = "render_mmap" /\ RenderMmap!MmapFull)
  /\ WF_(RenderMmap!vars)(part = "render_mmap" /\ RenderMmap!MmapWriteData)
  /\ WF_(RenderMmap!vars)(part = "render_mmap" /\ RenderMmap!MmapReturn)
  /\ WF_(CaptureRead!vars)(/\ part = "capture_read"
                           /\ \/ CaptureRead!MmapPaused \/ CaptureRead!MmapEmpty
                              \/ CaptureRead!MmapReadData \/ CaptureRead!MmapReadFails
                              \/ CaptureRead!MmapTest)

Spec == Init /\ [][Next]_vars /\ Fairness
=============================================================================

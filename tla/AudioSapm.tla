----------------------------- MODULE AudioSapm -----------------------------
(***************************************************************************)
(* The smart audio power management of an audio card: the graph of         *)
(* components (converters, mixers, amplifiers) and the paths between them, *)
(* the controls that switch a path, the walk over the dirty components     *)
(* that powers what lies on a complete path and nothing else, the triggers *)
(* of the render and capture streams, and the timer that puts a card that  *)
(* is not playing to sleep.  The code holds no lock over any of this: the  *)
(* timer's callback may be preempted between its tests and its walk.       *)
(*                                                                         *)
(* A walk is one step, in which every register is written.  The code       *)
(* writes them one after the other, and goes on if one fails (lines 911,   *)
(* 949, 980).                                                              *)
(*                                                                         *)
(* Mapped code: audio_sapm.c, the triggers of audio_platform_base.c and of *)
(* audio_stream_dispatch.c, AudioUpdateCodecRegBits of audio_core.c.       *)
(***************************************************************************)
EXTENDS Naturals, Sequences, FiniteSets, FiniteSetsExt, SequencesExt

CONSTANTS
  Comp,        \* the components of the card
  Type,        \* their AudioSapmType
  HasReg,      \* the ones with reg >= 0
  Path,        \* the routes, pairs <<source, sink>>
  Control,     \* the routes that have a control
  Inverted,    \* the controls whose register bit is inverted
  Probed,      \* the sets of components the registers may show powered at probe
  Values,      \* the values a client writes to a control
  Streams,     \* the streams of the card
  StreamComp,  \* the components each stream runs through
  Cmds,        \* the triggers the clients send
  SleepTime,   \* SAPM_SLEEP_TIME, in ticks of the clock
  Preempt,     \* may the timer's callback be preempted?
  MaxSets,     \* bound on the writes to controls
  MaxTriggers, \* bound on the triggers
  MaxFails     \* bound on the failures of registers and of the DMA

VARIABLES
  ready,       \* AudioSapmNewControls has run
  bit,         \* the register bit of each control
  connect,     \* path->connect
  power,       \* sapmComponent->power
  writes,      \* the components the last walk switched, in order, with the new power
  asked,       \* history: what the last successful write to each control asked for
  run,         \* runStatus of each stream
  monitor,     \* audioCard->sapmMonitorState
  standbyMode, \* audioCard->standbyMode
  isSleep,     \* g_audioSapmIsSleep
  isStandby,   \* g_audioSapmIsStandby
  age,         \* ticks since AudioSapmRefreshTime(true)
  timer,       \* where the timer's callback is
  sets, triggers, fails  \* what the bounds count

graph == <<bit, connect, asked>>
walk == <<power, writes>>
clock == <<isSleep, isStandby, age>>
stream == <<run, monitor, standbyMode>>
counts == <<sets, triggers, fails>>
vars == <<ready, graph, walk, clock, stream, timer, counts>>

-----------------------------------------------------------------------------
(* Which components lie on a complete path.                                *)

\* The types at which ConnectedInputEndPoint, ConnectedOutputEndPoint stop.
InputEnds == {"DAC", "AIF_IN", "INPUT", "MIC", "LINE"}
OutputEnds == {"ADC", "AIF_OUT", "OUTPUT", "HP", "SPK", "LINE"}

\* The elements that the pairs of R lead to from S, S included.
Closure(R, S) ==
  FoldLeft(LAMBDA t, k : t \cup {e[2] : e \in {r \in R : r[1] \in t}},
           S, [k \in 1..Cardinality(Comp) |-> k])

\* The components an input end reaches over connected paths.
ConnectedInputEndPoint(cn) ==
  Closure({p \in Path : cn[p]}, {c \in Comp : Type[c] \in InputEnds})

\* The components that reach an output end over connected paths.
ConnectedOutputEndPoint(cn) ==
  Closure({<<p[2], p[1]>> : p \in {q \in Path : cn[q]}},
          {c \in Comp : Type[c] \in OutputEnds})

\* The components sapmComponent->PowerCheck wants powered: "active" is never
\* set, so every type takes the generic check.
PowerCheck(cn) == ConnectedInputEndPoint(cn) \cap ConnectedOutputEndPoint(cn)

-----------------------------------------------------------------------------
(* The order in which components are switched.                             *)

PowerUpSeq ==
  [t \in {Type[c] : c \in Comp} |->
     CASE t = "MICBIAS" -> 2 [] t \in {"AIF_IN", "AIF_OUT"} -> 3 [] t = "MIC" -> 4
       [] t = "DAC" -> 6 [] t = "MIXER" -> 7 [] t = "PGA" -> 8 [] t = "ADC" -> 9
       [] t \in {"OUT_DRV", "HP", "SPK"} -> 10 [] OTHER -> 0]

PowerDownSeq ==
  [t \in {Type[c] : c \in Comp} |->
     CASE t = "ADC" -> 1 [] t \in {"OUT_DRV", "HP", "SPK"} -> 2 [] t = "PGA" -> 4
       [] t = "MIXER" -> 5 [] t = "DAC" -> 6 [] t = "MIC" -> 7 [] t = "MICBIAS" -> 8
       [] t \in {"AIF_IN", "AIF_OUT"} -> 10 [] OTHER -> 0]

\* A component goes before the first one that is later in the sequence.
AudioSapmPowerSeqInsert(list, c, up) ==
  LET rank(x) == IF up THEN PowerUpSeq[Type[x]] ELSE PowerDownSeq[Type[x]]
      later == {i \in 1..Len(list) : rank(list[i]) > rank(c)}
      at == IF later = {} THEN Len(list) + 1
            ELSE CHOOSE i \in later : \A j \in later : i <= j
  IN  InsertAt(list, at, c)

\* The list the components of cs make, inserted one after the other.
PowerList(cs, up) ==
  FoldSet(LAMBDA c, list : AudioSapmPowerSeqInsert(list, c, up), <<>>, cs)

\* AudioSapmPowerDownSeqRun and AudioSapmPowerUpSeqRun: what they write.  A
\* component without a register is passed over and keeps its power field.
SeqRun(downs, ups) ==
  LET down == PowerList(downs, FALSE)
      up == PowerList(ups, TRUE)
  IN  [i \in 1..Len(down) |-> <<down[i], FALSE>>] \o [i \in 1..Len(up) |-> <<up[i], TRUE>>]

Switch(downs, ups) ==
  /\ power' = [c \in Comp |-> (power[c] /\ c \notin downs) \/ c \in ups]
  /\ writes' = SeqRun(downs, ups)

-----------------------------------------------------------------------------
(* The walk over the dirty components.                                     *)

\* Mutant: a component that changes marks its sinks and forgets its sources.
MarksSinks(cn, new) ==
  {<<p[1], p[2]>> : p \in {q \in Path : /\ cn[q] /\ (q[1] \in new) # power[q[1]]
                                        /\ (q[1] \in new) # power[q[2]]}}

\* AudioSapmSetPower: a component whose power is to change marks the connected
\* neighbours whose power differs from its new one.
Marks(cn, new) ==
  {e \in {<<p[1], p[2]>> : p \in {q \in Path : cn[q]}}
         \cup {<<p[2], p[1]>> : p \in {q \in Path : cn[q]}} :
     /\ (e[1] \in new) # power[e[1]]
     /\ (e[1] \in new) # power[e[2]]}

\* The walk over the dirty components d0 and what they mark.
AudioSapmPowerComponents(cn, d0) ==
  LET new == PowerCheck(cn)
      dirty == Closure(Marks(cn, new), d0)
      change == {c \in dirty \cap HasReg : (c \in new) # power[c]}
  IN  Switch(change \ new, change \cap new)

-----------------------------------------------------------------------------
TypeOK ==
  /\ ready \in BOOLEAN
  /\ bit \in [Control -> {0, 1}]
  /\ connect \in [Path -> BOOLEAN]
  /\ power \in [Comp -> BOOLEAN]
  /\ \A i \in 1..Len(writes) : writes[i] \in HasReg \X BOOLEAN
  /\ asked \in [Control -> {"none", "on", "off"}]
  /\ run \in [Streams -> {"stop", "pause", "start"}]
  /\ monitor \in BOOLEAN /\ isSleep \in BOOLEAN /\ isStandby \in BOOLEAN
  /\ standbyMode \in {"LATER", "NOW"}
  /\ age \in 0..(SleepTime + 1)
  /\ timer \in {"idle", "down"}

\* The codec's registers are read when the card is probed.
Init ==
  /\ ready = FALSE
  /\ bit \in [Control -> {0, 1}]
  /\ \E on \in Probed : power = [c \in Comp |-> c \in on \cap HasReg]
  /\ connect = [p \in Path |-> FALSE]
  /\ writes = <<>>
  /\ asked = [p \in Control |-> "none"]
  /\ run = [s \in Streams |-> "stop"]
  /\ monitor = FALSE /\ standbyMode = "LATER"
  /\ isSleep = FALSE /\ isStandby = FALSE /\ age = 0
  /\ timer = "idle"
  /\ sets = 0 /\ triggers = 0 /\ fails = 0

\* The thread that runs an operation has the processor.
Runs == ready /\ (Preempt \/ timer = "idle")

\* Is the path of a control with register bit b connected?
PathOn(p, b) == IF p \in Inverted THEN b = 0 ELSE b # 0

\* AudioSapmSetPathStatus: a control on a mixer follows its register; one on
\* another sink does not look at it.
AudioSapmSetPathStatus(p) ==
  (p \in Control /\ Type[p[2]] = "MIXER") => PathOn(p, bit[p])

\* The components, the routes and the controls are made; every component is
\* dirty, with the power its register says, and is walked.
AudioSapmNewControls ==
  /\ ~ ready
  /\ ready' = TRUE
  /\ \E cn \in {[p \in Path |-> AudioSapmSetPathStatus(p)]} :
       connect' = cn /\ AudioSapmPowerComponents(cn, Comp)
  /\ UNCHANGED <<bit, asked, clock, stream, timer, counts>>

-----------------------------------------------------------------------------
(* A client writes a control.                                              *)

\* AudioSapmSetCtrlOps: an inverted control counts from the other end; a
\* value out of range is logged, and the caller goes on with it.
CtrlValue(p, v) == IF v \in {0, 1} /\ p \in Inverted THEN 1 - v ELSE v
PathStatus(p, v) == v \in {0, 1} /\ CtrlValue(p, v) # 0

\* MixerUpdatePowerStatus: both ends of the path are dirty.
MixerUpdatePowerStatus(p, on) ==
  \E cn \in {[connect EXCEPT ![p] = on]} :
    connect' = cn /\ AudioSapmPowerComponents(cn, {p[1], p[2]})

\* Is the register read against the value, or does the card sleep?
MustUpdate(p, v) == bit[p] # CtrlValue(p, v) % 2 \/ isSleep

\* AudioCodecSapmSetCtrlOps returns success.
AudioCodecSapmSetCtrlOps(p, v) ==
  /\ Runs /\ sets < MaxSets
  /\ IF MustUpdate(p, v)
     THEN /\ MixerUpdatePowerStatus(p, PathStatus(p, v))
          /\ bit' = [bit EXCEPT ![p] = v % 2]
     ELSE UNCHANGED <<bit, connect, walk>>
  /\ asked' = [asked EXCEPT ![p] = IF v \notin {0, 1} THEN "none"
                                   ELSE IF PathOn(p, v) THEN "on" ELSE "off"]
  /\ sets' = sets + 1
  /\ UNCHANGED <<ready, clock, stream, timer, triggers, fails>>

\* AudioUpdateCodecRegBits fails after the components were walked: the client
\* gets an error, the path stays switched.
AudioCodecSapmSetCtrlFails(p, v) ==
  /\ Runs /\ sets < MaxSets /\ fails < MaxFails
  /\ MustUpdate(p, v)
  /\ MixerUpdatePowerStatus(p, PathStatus(p, v))
  /\ asked' = [asked EXCEPT ![p] = "none"]
  /\ sets' = sets + 1 /\ fails' = fails + 1
  /\ UNCHANGED <<ready, bit, clock, stream, timer, triggers>>

-----------------------------------------------------------------------------
(* The triggers of the streams.                                            *)

\* AudioSampSetPowerMonitor, AudioSapmRefreshTime(true)
AudioSampSetPowerMonitor(state) ==
  /\ age' = 0 /\ isSleep' = FALSE /\ isStandby' = FALSE
  /\ monitor' = state

\* AudioSampPowerUp: every component that is down, on a path or not.
AudioSampPowerUp == Switch({}, {c \in HasReg : ~ power[c]})

\* The order the client keeps: start, then pause and resume, then stop.
Expected(s) == CASE run[s] = "stop" -> {"START"}
                 [] run[s] = "pause" -> {"RESUME", "STOP"}
                 [] run[s] = "start" -> {"PAUSE", "STOP"}

Sent(s, cmd) == /\ Runs /\ triggers < MaxTriggers
                /\ cmd \in Cmds \cap Expected(s)
                /\ triggers' = triggers + 1

\* Start: the DMA is submitted and set going.
StreamHostStart(s) ==
  /\ Sent(s, "START")
  /\ standbyMode' = "LATER"
  /\ AudioSampSetPowerMonitor(FALSE)
  /\ run' = [run EXCEPT ![s] = "start"]
  /\ UNCHANGED <<ready, graph, walk, timer, sets, fails>>

\* Stop: the client says whether the card goes to standby now or later.
StreamHostStop(s, mode) ==
  /\ Sent(s, "STOP")
  /\ standbyMode' = mode
  /\ AudioSampSetPowerMonitor(TRUE)
  /\ run' = [run EXCEPT ![s] = "stop"]
  /\ UNCHANGED <<ready, graph, walk, timer, sets, fails>>

StreamHostPause(s) ==
  /\ Sent(s, "PAUSE")
  /\ AudioSampSetPowerMonitor(TRUE)
  /\ run' = [run EXCEPT ![s] = "pause"]
  /\ UNCHANGED <<ready, graph, walk, standbyMode, timer, sets, fails>>

StreamHostResume(s) ==
  /\ Sent(s, "RESUME")
  /\ AudioSampPowerUp
  /\ AudioSampSetPowerMonitor(FALSE)
  /\ run' = [run EXCEPT ![s] = "start"]
  /\ UNCHANGED <<ready, graph, standbyMode, timer, sets, fails>>

\* A DAI's trigger or the DMA fails: only the standby mode has been stored.
StreamHostFails(s, cmd, mode) ==
  /\ Sent(s, cmd) /\ fails < MaxFails
  /\ standbyMode' = CASE cmd = "START" -> "LATER" [] cmd = "STOP" -> mode
                      [] OTHER -> standbyMode
  /\ fails' = fails + 1
  /\ UNCHANGED <<ready, graph, walk, clock, run, monitor, timer, sets>>

-----------------------------------------------------------------------------
(* The sleep timer.                                                        *)

Tick ==
  /\ ready /\ age <= SleepTime
  /\ age' = age + 1
  /\ UNCHANGED <<ready, graph, walk, isSleep, isStandby, stream, timer, counts>>

AudioSapmCheckTime == age > SleepTime

\* The callback goes on past its first tests.
MaySleep == /\ ready /\ timer = "idle"
            /\ ~ isSleep /\ monitor
            /\ standbyMode = "NOW" \/ AudioSapmCheckTime

\* The first expiry: the converters' clocks are stopped (the card has one) and
\* the time starts again.
EnterStandby ==
  /\ MaySleep /\ ~ isStandby
  /\ isStandby' = TRUE /\ age' = 0
  /\ UNCHANGED <<ready, graph, walk, isSleep, stream, timer, counts>>

\* The second one: the callback goes on to power the components down.
EnterSleep ==
  /\ MaySleep /\ isStandby /\ AudioSapmCheckTime
  /\ isStandby' = FALSE
  /\ timer' = "down"
  /\ UNCHANGED <<ready, graph, walk, isSleep, age, stream, counts>>

AudioSapmEnterSleepSub ==
  /\ timer = "down"
  /\ Switch({c \in HasReg : power[c]}, {})
  /\ isSleep' = TRUE
  /\ timer' = "idle"
  /\ UNCHANGED <<ready, graph, isStandby, age, stream, counts>>

Next ==
  \/ AudioSapmNewControls
  \/ \E p \in Control, v \in Values : AudioCodecSapmSetCtrlOps(p, v)
  \/ \E p \in Control, v \in Values : AudioCodecSapmSetCtrlFails(p, v)
  \/ \E s \in Streams : StreamHostStart(s)
  \/ \E s \in Streams, mode \in {"LATER", "NOW"} : StreamHostStop(s, mode)
  \/ \E s \in Streams : StreamHostPause(s)
  \/ \E s \in Streams : StreamHostResume(s)
  \/ \E s \in Streams, cmd \in Cmds, mode \in {"LATER", "NOW"} : StreamHostFails(s, cmd, mode)
  \/ Tick
  \/ EnterStandby
  \/ EnterSleep
  \/ AudioSapmEnterSleepSub

Spec == Init /\ [][Next]_vars

\* What fairness asks of AudioSapmNewControls and of AudioSapmEnterSleepSub,
\* the only steps that change these variables so.
Probes == ready = FALSE /\ ready' = TRUE
CallbackEnds == timer = "down" /\ timer' = "idle"

\* The card is probed, time passes, and the periodic timer's callback runs to
\* its end.
FairSpec == /\ Spec
            /\ WF_ready(Probes)
            /\ WF_vars(Tick) /\ WF_vars(EnterStandby) /\ WF_vars(EnterSleep)
            /\ WF_timer(CallbackEnds)

-----------------------------------------------------------------------------
\* The walk over the dirty components (audio_sapm.c 975-1005) visits only what
\* a change reaches; even so, on a card that has neither slept nor been resumed,
\* the powered components are exactly the ones on a complete path, whatever
\* sequence of controls was written.
PowerFollowsPaths ==
  ready => {c \in HasReg : power[c]} = PowerCheck(connect) \cap HasReg

\* An amplifier (headphones, speaker) is switched on after, and off before,
\* the converter, mixer or gain stage that feeds it, in every walk that
\* switches both: the power sequences of audio_sapm.c 36-79 and the sorted
\* insertion are there for that.
AmplifierLastOnFirstOff ==
  \A i, j \in 1..Len(writes) :
    /\ <<writes[i][1], writes[j][1]>> \in Path
    /\ Type[writes[i][1]] \in {"DAC", "MIXER", "PGA"}
    /\ Type[writes[j][1]] \in {"HP", "SPK", "OUT_DRV"}
    /\ writes[i][2] = writes[j][2]
    => IF writes[i][2] THEN i < j ELSE j < i

\* After a write to a control that returned success, its path is switched the
\* way the client asked (AudioCodecSapmSetCtrlOps, audio_sapm.c 1208-1243).
ControlObeyed ==
  ready => \A p \in Control :
             asked[p] # "none" => (connect[p] <=> asked[p] = "on")

\* While a stream runs, the components it runs through that lie on a complete
\* path have power: neither the sleep timer nor a control takes it away, and a
\* stream that is resumed after a sleep gets it back.  One that is started after a
\* sleep does not (AudioPcmPending, audio_platform_base.c 882-904).
StreamPowered ==
  \A s \in Streams : run[s] = "start" =>
    StreamComp[s] \cap HasReg \cap PowerCheck(connect) \subseteq {c \in Comp : power[c]}

=============================================================================

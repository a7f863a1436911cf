---------------------------- MODULE Vibrator ----------------------------
(***************************************************************************)
(* The vibrator model (vibrator_driver.c, vibrator_haptic.c).  A vibration *)
(* is a sequence of times or of effects of the device.  A timer walks      *)
(* along it; its callback notes in drvData.state what the motor is to do   *)
(* and adds the driver's only work item, whose function reads the state    *)
(* when it runs.                                                           *)
(*                                                                         *)
(* Atomicity.  Clients, the timer and the work queue run concurrently.     *)
(* Mode and timer are tested without a mutex, and the callback takes none. *)
(* A step is one access to what they share; GetHapticSeqByEffect, under    *)
(* its mutex, is one step.  Callbacks run one after another, as do runs of *)
(* the work item, which can be added again while it runs.                  *)
(*                                                                         *)
(* Lengths of time are left out: an armed timer may fire at any moment.    *)
(* The operations of the motor succeed.                                    *)
(***************************************************************************)
EXTENDS Integers, Sequences

CONSTANTS Clients,
          Presets,      \* effects of the configuration: type and number of elements;
                        \* those of times are even, to end with the motor off
          Ops,          \* subset of {"once", "preset", "stop"} that is called
          DeleteWaits,  \* whether a client's OsalTimerDelete waits for the callback
          MaxStarts     \* bound on the vibrations started, and so on timers

VARIABLES
    mode,     \* drvData.mode
    state,    \* drvData.state
    seq,      \* hapticData: effectType, seqCount and currentSeqIndex
    timer,    \* hapticData.timer.realTimer, 0 for NULL
    armed,    \* timers that are running, of which one may have been forgotten
    pending,  \* whether the work item is queued
    motor,
    pc,       \* where each client is, the callback "timer" and the work queue "work"
    starts    \* number of calls that passed the test of mode

vars == <<mode, state, seq, timer, armed, pending, motor, pc, starts>>

Actors == Clients \cup {"timer", "work"}
Once == [type |-> "time", num |-> 2]

Init ==
    /\ mode = "BUTT" /\ state = "IDLE"
    /\ seq = [type |-> "time", num |-> 0, index |-> 0]
    /\ timer = 0 /\ armed = {}
    /\ pending = FALSE /\ motor = "off"
    /\ pc = [a \in Actors |-> "idle"]
    /\ starts = 0

Goes(a, from, to) == pc[a] = from /\ pc' = [pc EXCEPT ![a] = to]

(***************************************************************************)
(* StartTimeVibrator and StopVibrator, called by the callback and by Stop: *)
(* the state, then the work.                                               *)
(***************************************************************************)
HdfAddWork(a, from, to) ==
    /\ Goes(a, from, to)
    /\ pending' = TRUE
    /\ UNCHANGED <<mode, state, seq, timer, armed, motor, starts>>

(***************************************************************************)
(* StartOnce and StartEffect, with StartHaptic.                            *)
(***************************************************************************)
\* Of a client that finds the vibrator busy nothing is left.
StartCheck(c, op) ==
    /\ Goes(c, "idle", op) /\ op \in Ops
    /\ mode = "BUTT" /\ starts < MaxStarts
    /\ starts' = starts + 1
    /\ UNCHANGED <<mode, state, seq, timer, armed, pending, motor>>

StartMode(c) ==
    /\ \/ Goes(c, "once", "seqOnce") /\ mode' = "ONCE"
       \/ Goes(c, "preset", "seqPreset") /\ mode' = "PRESET"
    /\ UNCHANGED <<state, seq, timer, armed, pending, motor, starts>>

\* An effect the configuration does not know, like a timer that cannot be created,
\* ends the call with the mode left as it is.
GetHapticSeqByEffect(c) ==
    LET walk(p) == [type |-> p.type, num |-> p.num, index |-> 0] IN
    /\ \/ Goes(c, "seqOnce", "create") /\ seq' = walk(Once)
       \/ Goes(c, "seqPreset", "create") /\ \E p \in Presets : seq' = walk(p)
       \/ Goes(c, "seqPreset", "idle") /\ seq' = [seq EXCEPT !.num = 0, !.index = 0]
    /\ UNCHANGED <<mode, state, timer, armed, pending, motor, starts>>

OsalTimerCreate(c) ==
    /\ \/ /\ Goes(c, "create", "loop")
          /\ timer' = CHOOSE i \in 1..MaxStarts : i \notin armed \cup {timer}
       \/ Goes(c, "create", "idle") /\ UNCHANGED timer
    /\ UNCHANGED <<mode, state, seq, armed, pending, motor, starts>>

OsalTimerStartLoop(c) ==
    /\ Goes(c, "loop", "idle")
    /\ armed' \in {armed, armed \cup ({timer} \ {0})}
    /\ UNCHANGED <<mode, state, seq, timer, pending, motor, starts>>

(***************************************************************************)
(* Stop, with StopHaptic.                                                  *)
(***************************************************************************)
StopCheck(c) ==
    /\ "stop" \in Ops /\ Goes(c, "idle", "stop")
    /\ mode # "BUTT"
    /\ UNCHANGED <<mode, state, seq, timer, armed, pending, motor, starts>>

StopTimer(c) ==
    /\ Goes(c, "stop", IF timer # 0 THEN "delete" ELSE "quiet")
    /\ UNCHANGED <<mode, state, seq, timer, armed, pending, motor, starts>>

\* The deletion of a timer that is gone fails, and so does the call.
StopDelete(c) ==
    /\ Goes(c, "delete", IF timer # 0 THEN "quiet" ELSE "idle")
    /\ DeleteWaits => pc["timer"] = "idle"
    /\ armed' = armed \ {timer} /\ timer' = 0
    /\ UNCHANGED <<mode, state, seq, pending, motor, starts>>

StopVibrator(c) ==
    /\ Goes(c, "quiet", "add") /\ state' = "STOP"
    /\ UNCHANGED <<mode, seq, timer, armed, pending, motor, starts>>

\* Mutant: a stop is not handed to the work queue.
StopNotAdded(c) ==
    /\ Goes(c, "add", "added")
    /\ UNCHANGED <<mode, state, seq, timer, armed, pending, motor, starts>>

StopAdd(c) == HdfAddWork(c, "add", "added")

StopMode(c) ==
    /\ Goes(c, "added", "idle") /\ mode' = "BUTT"
    /\ UNCHANGED <<state, seq, timer, armed, pending, motor, starts>>

(***************************************************************************)
(* HapticTimerEntry, with ProcessHapticTime and ProcessHapticEffect.       *)
(***************************************************************************)
AtEnd == seq.index >= seq.num \/ (seq.type = "effect" /\ seq.index + 1 >= seq.num)

TimerFires ==
    /\ armed # {} /\ Goes("timer", "idle", "entry")
    /\ UNCHANGED <<mode, state, seq, timer, armed, pending, motor, starts>>

TimerTime ==
    /\ Goes("timer", "entry", "add")
    /\ ~AtEnd /\ seq.type = "time"
    /\ state' = IF seq.index % 2 = 0 THEN "START_TIMER" ELSE "STOP"
    /\ UNCHANGED <<mode, seq, timer, armed, pending, motor, starts>>

TimerAdd == HdfAddWork("timer", "add", "next")

TimerNext ==
    /\ Goes("timer", "next", IF seq.index + 1 >= seq.num THEN "delete" ELSE "rearm")
    /\ seq' = [seq EXCEPT !.index = @ + 1]
    /\ UNCHANGED <<mode, state, timer, armed, pending, motor, starts>>

\* SetEffectVibrator asks the device at once and adds no work.
TimerEffect ==
    /\ ~AtEnd /\ seq.type = "effect"
    /\ Goes("timer", "entry", IF seq.index + 2 >= seq.num THEN "delete" ELSE "rearm")
    /\ seq' = [seq EXCEPT !.index = @ + 2]
    /\ state' = "SET_EFFECT"
    /\ UNCHANGED <<mode, timer, armed, pending, motor, starts>>

TimerEnd ==
    /\ AtEnd /\ Goes("timer", "entry", "delete")
    /\ UNCHANGED <<mode, state, seq, timer, armed, pending, motor, starts>>

\* OsalTimerSetTimeout: the timer goes on unless it is gone.
TimerRearm ==
    /\ Goes("timer", "rearm", IF timer # 0 THEN "idle" ELSE "delete")
    /\ armed' = armed \cup ({timer} \ {0})
    /\ UNCHANGED <<mode, state, seq, timer, pending, motor, starts>>

TimerDelete ==
    /\ Goes("timer", "delete", "idle")
    /\ armed' = armed \ {timer} /\ timer' = 0
    /\ UNCHANGED <<mode, state, seq, pending, motor, starts>>

(***************************************************************************)
(* VibratorWorkEntry, on the work queue: the state is read twice.          *)
(***************************************************************************)
WorkTaken ==
    /\ pending /\ pending' = FALSE
    /\ Goes("work", "idle", "start")
    /\ UNCHANGED <<mode, state, seq, timer, armed, motor, starts>>

WorkStart ==
    /\ Goes("work", "start", "stop")
    /\ motor' = IF state = "START_TIMER" THEN "on" ELSE motor
    /\ UNCHANGED <<mode, state, seq, timer, armed, pending, starts>>

WorkStop ==
    /\ Goes("work", "stop", "idle")
    /\ motor' = IF state = "STOP" THEN "off" ELSE motor
    /\ UNCHANGED <<mode, state, seq, timer, armed, pending, starts>>

ClientStep(c) ==
    \/ StartMode(c) \/ GetHapticSeqByEffect(c) \/ OsalTimerCreate(c) \/ OsalTimerStartLoop(c)
    \/ StopTimer(c) \/ StopDelete(c) \/ StopVibrator(c) \/ StopAdd(c) \/ StopMode(c)
TimerStep ==
    \/ TimerFires \/ TimerTime \/ TimerAdd \/ TimerNext \/ TimerEffect \/ TimerEnd
    \/ TimerRearm \/ TimerDelete
WorkStep == WorkTaken \/ WorkStart \/ WorkStop

Next ==
    \/ \E c \in Clients :
          \/ StartCheck(c, "once") \/ StartCheck(c, "preset") \/ StopCheck(c)
          \/ ClientStep(c)
    \/ TimerStep \/ WorkStep

Spec == Init /\ [][Next]_vars
FairSpec == Spec /\ WF_vars(TimerStep) /\ WF_vars(WorkStep)
                 /\ \A c \in Clients : WF_vars(ClientStep(c))

(***************************************************************************)
(* Properties.                                                             *)
(***************************************************************************)
\* Type invariant.
TypeOK ==
    /\ mode \in {"BUTT", "ONCE", "PRESET"}
    /\ state \in {"IDLE", "START_TIMER", "STOP", "SET_EFFECT"}
    /\ seq.index \in 0..seq.num + 1
    /\ timer \in 0..MaxStarts /\ armed \subseteq 1..MaxStarts
    /\ motor \in {"on", "off"}

NobodyAdds == \A a \in Actors : pc[a] # "add"

\* The one work item never loses a request, whoever asks while it runs: once it has
\* nothing to do, the motor does what was asked for last.
MotorFollows ==
    ~pending /\ pc["work"] = "idle" /\ NobodyAdds =>
        /\ state = "START_TIMER" => motor = "on"
        /\ state = "STOP" => motor = "off"

\* When a client has stopped the vibration, and the work is done, the motor is off,
\* and stays so until the next start.
StopSilences ==
    mode = "BUTT" /\ ~pending /\ (\A a \in Actors : pc[a] = "idle") => motor = "off"

=============================================================================

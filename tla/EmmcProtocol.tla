---------------------------- MODULE EmmcProtocol ----------------------------
(***************************************************************************)
(* The detection of an eMMC: EmmcDetect of mmc_protocol.c with everything  *)
(* it calls.                                                               *)
(*                                                                         *)
(* The host sets the card with MmcSwitch and then itself, for the width of *)
(* the bus, the timing and the options.  A card may refuse a switch, which *)
(* its status tells, and a switch or its answer may be lost.  The code     *)
(* goes on after some refusals and gives the attempt up after others.      *)
(***************************************************************************)
EXTENDS MmcCommand, FiniteSets

CONSTANTS Hosts, \* cap4Bit, cap8Bit, lines (that are wired), highSpeed, ddr, sdr, hs400, strobe
          Kinds  \* spec4, speed (hsMaxDtr), ddr, sdr (voltages), hs400, strobe, enh, boot, hpi, low

VARIABLES caps, kind

emmcVars == <<pc, tries, attempt, faults, card, host, dev, caps, kind>>
given    == <<caps, kind>>

PoweredCard == [mem |-> "idle", width |-> 1, timing |-> "DS", ddr |-> FALSE,
                erase |-> FALSE, hpi |-> FALSE]
PoweredHost == [width |-> 1, timing |-> "DS", clock |-> 0, volt |-> 33]
NewDev == [hs |-> FALSE, mode |-> "none", erase |-> FALSE, hpi |-> FALSE]

Init ==
    /\ caps \in Hosts /\ kind \in Kinds
    /\ pc = "power" /\ tries = 0 /\ attempt = 0 /\ faults = 0
    /\ card = PoweredCard /\ host = PoweredHost /\ dev = NewDev

(***************************************************************************)
(* EmmcInit and EmmcSelect up to the switches.  The card is idle after the *)
(* power was switched on, so CMD0 does nothing to it.                      *)
(***************************************************************************)
PowerUp ==
    /\ pc = "power" /\ pc' = "probe"
    /\ card' = PoweredCard /\ host' = PoweredHost /\ dev' = NewDev
    /\ UNCHANGED <<tries, attempt, faults, given>>

Probe ==
    MmcSendCmd("probe", TRUE, card, 1, IF kind.low THEN "low" ELSE "opcond", "fail")
        /\ UNCHANGED given

\* Whether the host could is not looked at.
LowVoltage ==
    /\ pc = "low"
    /\ \/ Continues("opcond") /\ host' = [host EXCEPT !.volt = 18]
       \/ Fault /\ pc' = "opcond" /\ UNCHANGED <<tries, attempt, card, host>>
    /\ UNCHANGED <<dev, given>>

MmcSendOpCond ==
    MmcSendCmd("opcond", card.mem = "idle", [card EXCEPT !.mem = "ready"], 1, "cid", "fail")
        /\ UNCHANGED given
MmcAllSendCid ==
    MmcSendCmd("cid", card.mem = "ready", [card EXCEPT !.mem = "ident"], SendTries, "rca", "fail")
        /\ UNCHANGED given
MmcSetRelativeAddr ==
    MmcSendCmd("rca", card.mem = "ident", [card EXCEPT !.mem = "stby"], SendTries, "csd", "fail")
        /\ UNCHANGED given
MmcSendCsd ==
    MmcSendCmd("csd", card.mem = "stby", card, SendTries, "select", "fail") /\ UNCHANGED given
MmcSelectCard ==
    MmcSendCmd("select", card.mem = "stby", [card EXCEPT !.mem = "tran"], SendTries,
               IF kind.spec4 THEN "extcsd" ELSE "speed", "fail")
        /\ UNCHANGED given

\* Data goes through if both ends use the same lines, all of them wired, in the same way.
TimingOf(c) == IF c.ddr /\ c.timing = "HS" THEN "DDR50" ELSE c.timing
DataPasses ==
    /\ card.width = host.width /\ host.width <= caps.lines
    /\ TimingOf(card) = host.timing

\* MmcSendExtCsd, to read the register or to see whether it can be read.
MmcSendExtCsd(at, ok, fail) ==
    MmcSendCmd(at, DataPasses, card, 1, ok, fail) /\ UNCHANGED given

(***************************************************************************)
(* MmcSwitch.                                                              *)
(***************************************************************************)
\* A card that has made a switch does not refuse it when it is told again.
Switched(effect, to) == Answered(card.mem = "tran", effect, to)
NotSwitched(effect, refused, lost) ==
    /\ \/ /\ tries = 0 \/ card # effect
          /\ Fault /\ pc' = refused /\ tries' = 0 /\ UNCHANGED <<attempt, card>>
       \/ Unanswered(card.mem = "tran", effect, SendTries, lost)
    /\ UNCHANGED <<host, dev>>

\* The first two switches of EmmcSwitchOperationMode.
EraseGroupDef ==
    LET effect == [card EXCEPT !.erase = TRUE] IN
    /\ pc = "erase"
    /\ IF ~kind.enh THEN Continues("part") /\ UNCHANGED <<host, dev>>
       ELSE \/ Switched(effect, "part") /\ dev' = [dev EXCEPT !.erase = TRUE] /\ UNCHANGED host
            \/ NotSwitched(effect, "part", "fail")
    /\ UNCHANGED given

PartitionConfig ==
    /\ pc = "part"
    /\ IF ~kind.boot THEN Continues("speed") /\ UNCHANGED <<host, dev>>
       ELSE \/ Switched(card, "speed") /\ UNCHANGED <<host, dev>>
            \/ NotSwitched(card, "speed", "fail")
    /\ UNCHANGED given

(***************************************************************************)
(* EmmcSelectBusSpeedMode.  The register of an old card was not read.      *)
(***************************************************************************)
Strobe == kind.spec4 /\ kind.strobe /\ caps.strobe
HighSpeed200 == kind.spec4 /\ caps.sdr # {} /\ kind.speed > 52

EmmcSelectBusSpeedMode ==
    /\ pc = "speed" /\ UNCHANGED <<host, dev, given>>
    /\ Continues(CASE Strobe \/ HighSpeed200 -> "volt"
                   [] ~Strobe /\ ~HighSpeed200 /\ kind.spec4 /\ kind.speed > 0
                        /\ caps.highSpeed -> "hs"
                   [] OTHER -> "clock")

\* Whether the host could is not looked at.
EmmcSwitchVoltage ==
    LET both == caps.sdr \cap kind.sdr IN
    /\ pc = "volt"
    /\ \/ /\ Continues("hs8")
          /\ host' = [host EXCEPT !.volt = IF 18 \in both THEN 18 ELSE IF 12 \in both THEN 12 ELSE @]
       \/ Fault /\ pc' = "hs8" /\ UNCHANGED <<tries, attempt, card, host>>
    /\ UNCHANGED <<dev, given>>

\* EmmcSelectHighSpeedBusWidth.  HS200 is given up without an error when a switch is refused.
Sdr(w) == [card EXCEPT !.width = w, !.ddr = FALSE]
HighSpeedWidth(at, w, try, refused, lost) ==
    /\ pc = at
    /\ IF ~try THEN Continues(refused) /\ UNCHANGED <<host, dev>>
       ELSE \/ /\ Switched(Sdr(w), "hscheck") /\ host' = [host EXCEPT !.width = w]
               /\ UNCHANGED dev
            \/ NotSwitched(Sdr(w), refused, lost)
    /\ UNCHANGED given
EmmcSelectHighSpeedBusWidth8 == HighSpeedWidth("hs8", 8, caps.cap8Bit, "hs4", "hs4")
EmmcSelectHighSpeedBusWidth4 ==
    HighSpeedWidth("hs4", 4, TRUE, IF Strobe THEN "fail" ELSE "clock", "fail")

\* A switch of the timing, of the card and then of the host.
SwitchTiming(at, timing, clock, to, refused) ==
    LET effect == [card EXCEPT !.timing = timing] IN
    /\ pc = at
    /\ \/ /\ Switched(effect, to) /\ UNCHANGED dev
          /\ host' = [host EXCEPT !.timing = timing, !.clock = IF clock = 0 THEN @ ELSE clock]
       \/ NotSwitched(effect, refused, "fail")
    /\ UNCHANGED given

EmmcSelectHs200 == SwitchTiming("hs200", "HS200", 0, "status200", "clock")
EmmcSwitchHighSpeed == SwitchTiming("hs52", "HS", 52, "ddr8", "fail")
EmmcSelectHs400 == SwitchTiming("hs400", "HS400", 200, "status400", "fail")

\* EmmcCheckSwitchStatus.  An error of the switch itself has been read before.
EmmcCheckSwitchStatus(at, mode, to) ==
    /\ pc = at
    /\ \/ Answered(TRUE, card, to) /\ dev' = [dev EXCEPT !.mode = mode]
       \/ Unanswered(TRUE, card, SendTries, "fail") /\ UNCHANGED dev
    /\ UNCHANGED <<host, given>>

\* EmmcSelectHs400 and EmmcSelectHs400es: the card is set to 8 bits, the host is not.
SwitchDdr8 ==
    LET effect == [card EXCEPT !.width = 8, !.ddr = TRUE] IN
    /\ pc = "ddr8"
    /\ \/ Switched(effect, "hs400") /\ UNCHANGED <<host, dev>>
       \/ NotSwitched(effect, "fail", "fail")
    /\ UNCHANGED given

\* The end of EmmcSelectActivateHighSpeed, for a card without HS200.
ActivateHighSpeed ==
    LET effect == [card EXCEPT !.timing = "HS"] IN
    /\ pc = "hs"
    /\ \/ /\ Switched(effect, "clock") /\ dev' = [dev EXCEPT !.hs = TRUE]
          /\ host' = [host EXCEPT !.timing = "HS"]
       \/ NotSwitched(effect, "clock", "fail")
    /\ UNCHANGED given

\* 26 MHz is the speed that every card can do.
SetClock ==
    /\ pc = "clock" /\ Continues(IF dev.mode = "HS200" THEN "tune" ELSE "width")
    /\ host' = [host EXCEPT !.clock = IF dev.mode = "HS200" \/ dev.hs THEN kind.speed ELSE 26]
    /\ UNCHANGED <<dev, given>>

MmcCntlrTune ==
    /\ pc = "tune"
    /\ \/ Continues(IF kind.hs400 /\ caps.hs400 THEN "hs52" ELSE "class")
       \/ Fault /\ pc' = "fail" /\ UNCHANGED <<tries, attempt, card>>
    /\ UNCHANGED <<host, dev, given>>

\* Whether the switch of the power class worked is not looked at.
EmmcSelectPowerClass ==
    /\ pc = "class"
    /\ \/ Switched(card, "width") /\ UNCHANGED <<host, dev>>
       \/ NotSwitched(card, "width", "width")
    /\ UNCHANGED given

(***************************************************************************)
(* EmmcSelectSwitchDdrMode: the widths are tried from the largest on.      *)
(***************************************************************************)
EmmcSelectSwitchDdrMode ==
    /\ pc = "width" /\ UNCHANGED <<host, dev, given>>
    /\ Continues(IF dev.mode = "none" /\ kind.spec4 /\ (caps.cap4Bit \/ caps.cap8Bit)
                 THEN IF caps.cap8Bit THEN "w8" ELSE "w4" ELSE "hpi")

TryWidth(at, w, check, other) ==
    /\ pc = at
    /\ \/ Switched(Sdr(w), check) /\ host' = [host EXCEPT !.width = w] /\ UNCHANGED dev
       \/ NotSwitched(Sdr(w), other, other)
    /\ UNCHANGED given

EmmcCheckExtCsd(at, other) == MmcSendExtCsd(at, "ddr", other)

EmmcGetDdrMode == IF dev.hs THEN caps.ddr \cap kind.ddr ELSE {}

\* The host is set at once, or after the voltage.  1.8 V needs no switch.
EmmcSwitchDdrMode ==
    LET effect == [card EXCEPT !.ddr = TRUE] IN
    /\ pc = "ddr"
    /\ IF EmmcGetDdrMode = {} THEN Continues("hpi") /\ UNCHANGED <<host, dev>>
       ELSE \/ /\ Switched(effect, IF 18 \in EmmcGetDdrMode THEN "hpi" ELSE "ddr12") /\ UNCHANGED dev
               /\ host' = IF 18 \in EmmcGetDdrMode THEN [host EXCEPT !.timing = "DDR50"] ELSE host
            \/ NotSwitched(effect, "fail", "fail")
    /\ UNCHANGED given

DdrVoltage ==
    /\ pc = "ddr12"
    /\ \/ Continues("hpi") /\ host' = [host EXCEPT !.volt = 12, !.timing = "DDR50"]
       \/ Fault /\ pc' = "fail" /\ UNCHANGED <<tries, attempt, card, host>>
    /\ UNCHANGED <<dev, given>>

EmmcActivateHpiMechanism ==
    LET effect == [card EXCEPT !.hpi = TRUE] IN
    /\ pc = "hpi"
    /\ IF ~(kind.spec4 /\ kind.hpi) THEN Continues("add") /\ UNCHANGED <<host, dev>>
       ELSE \/ Switched(effect, "add") /\ dev' = [dev EXCEPT !.hpi = TRUE] /\ UNCHANGED host
            \/ NotSwitched(effect, "add", "fail")
    /\ UNCHANGED given

Next ==
    \/ PowerUp \/ Probe \/ LowVoltage \/ MmcSendOpCond \/ MmcAllSendCid \/ MmcSetRelativeAddr
    \/ MmcSendCsd \/ MmcSelectCard \/ MmcSendExtCsd("extcsd", "erase", "fail")
    \/ EraseGroupDef \/ PartitionConfig
    \/ EmmcSelectBusSpeedMode \/ EmmcSwitchVoltage
    \/ EmmcSelectHighSpeedBusWidth8 \/ EmmcSelectHighSpeedBusWidth4
    \/ MmcSendExtCsd("hscheck", IF Strobe THEN "hs52" ELSE "hs200", "fail")
    \/ EmmcSelectHs200 \/ EmmcCheckSwitchStatus("status200", "HS200", "clock")
    \/ ActivateHighSpeed \/ SetClock \/ MmcCntlrTune
    \/ EmmcSwitchHighSpeed \/ SwitchDdr8 \/ EmmcSelectHs400
    \/ EmmcCheckSwitchStatus("status400", "HS400", "class") \/ EmmcSelectPowerClass
    \/ EmmcSelectSwitchDdrMode
    \/ TryWidth("w8", 8, "c8", "w4") \/ EmmcCheckExtCsd("c8", "w4")
    \/ TryWidth("w4", 4, "c4", "w1") \/ EmmcCheckExtCsd("c4", "w1")
    \/ TryWidth("w1", 1, "hpi", "fail")
    \/ EmmcSwitchDdrMode \/ DdrVoltage \/ EmmcActivateHpiMechanism
    \/ (DeviceAdd /\ UNCHANGED given) \/ (DetectFailed /\ UNCHANGED given)

Spec == Init /\ [][Next]_emmcVars

(***************************************************************************)
(* Properties.                                                             *)
(***************************************************************************)
\* When an eMMC has been detected, data passes: card and host have the same width and the
\* same timing and use lines that are wired, whatever was refused or lost on the way,
\* unless the timing is HS400 (mmc_protocol.c 1078, 1326, 1049).
BusAgrees == pc = "done" => DataPasses

\* The host knows which options the card has switched on.
OptionsAgree == pc = "done" => dev.erase = card.erase /\ dev.hpi = card.hpi

\* The clock is not faster than the card's timing allows.
ClockFits ==
    pc = "done" => host.clock <= (CASE card.timing = "DS" -> 26
                                    [] card.timing = "HS" -> 52
                                    [] OTHER -> 200)

\* The fast timings are used at a voltage the card has them for.
VoltageFits == pc = "done" /\ card.timing \in {"HS200", "HS400"} => host.volt \in kind.sdr

\* A card is found unless every attempt met a fault of its own.
SuitableCardFound == pc = "failed" => faults >= Retries
=============================================================================

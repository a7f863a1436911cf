---------------------------- MODULE SdProtocol ----------------------------
(***************************************************************************)
(* The detection of an SD card, an SDIO card or a combination of both:     *)
(* SdDetect and SdioDetect of mmc_protocol.c with everything they call.    *)
(*                                                                         *)
(* A step is one command, or one group of commands that only read, which   *)
(* fails by a fault that sending them again does not repair.  The contents *)
(* of registers are what the later steps look at: kind says what the card  *)
(* can do, caps what the host can.  The memory and the I/O half of a card  *)
(* have states, widths and timings of their own.                           *)
(***************************************************************************)
EXTENDS MmcCommand

CONSTANTS DevType,  \* "SD" or "SDIO", the controller's devType
          Hosts,    \* the hosts: highSpeed, cap4Bit, sdSupportProtocol3, uhs
          Kinds     \* the cards: mem, hc, v2, hs, spec3, uhs, io, iohs, functions, volt

VARIABLES caps, kind

sdVars == <<pc, tries, attempt, faults, card, host, dev, caps, kind>>
given  == <<caps, kind>>

PoweredCard == [mem |-> "idle", width |-> 1, timing |-> "DS",
                io |-> "off", ioWidth |-> 1, ioTiming |-> "DS", volt |-> 33]
PoweredHost == [width |-> 1, timing |-> "DS", volt |-> 33]
NewDev == [type |-> DevType, hcs |-> FALSE, s18r |-> FALSE, try |-> FALSE,
           r4 |-> FALSE, ccs |-> FALSE, s18a |-> FALSE, uhs |-> FALSE, functions |-> 0]

Init ==
    /\ caps \in Hosts /\ kind \in Kinds
    /\ pc = "power" /\ tries = 0 /\ attempt = 0 /\ faults = 0
    /\ card = PoweredCard /\ host = PoweredHost /\ dev = NewDev

(***************************************************************************)
(* The start: MmcCntlrPowerUp, the resets and the first CMD8, of which     *)
(* nothing depends, then the inquiry with ACMD41 or CMD5.                  *)
(***************************************************************************)
PowerUp ==
    /\ pc = "power" /\ pc' = "probe"
    /\ card' = PoweredCard /\ host' = PoweredHost /\ dev' = NewDev
    /\ UNCHANGED <<tries, attempt, faults, given>>

\* With MmcCntlrSelectWorkVoltage.
Probe ==
    /\ MmcSendCmd("probe", IF DevType = "SD" THEN kind.mem ELSE kind.io, card,
                  IF DevType = "SD" THEN SendTries + 1 ELSE SendTries,
                  IF ~kind.volt THEN "fail" ELSE IF DevType = "SD" THEN "idle" ELSE "cmd5", "fail")
    /\ UNCHANGED given

\* SdioSelect up to the test for a combo card.
SdioSendOpCond ==
    LET effect == [card EXCEPT !.io = "init"] IN
    /\ pc = "cmd5"
    /\ \/ /\ Answered(card.io \in {"off", "init"}, effect, IF kind.mem THEN "idle" ELSE "rca")
          /\ dev' = [dev EXCEPT !.r4 = TRUE]
       \/ Unanswered(card.io \in {"off", "init"}, effect, SendTries, "fail") /\ UNCHANGED dev
    /\ UNCHANGED <<host, given>>

(***************************************************************************)
(* SdSelect.                                                               *)
(***************************************************************************)
SelectFailed == IF DevType = "SD" THEN "fail" ELSE "rca"

\* CMD0 has no response.  It leaves the voltage and the I/O half alone.
IdleMemory == [card EXCEPT !.mem = "idle", !.width = 1, !.timing = "DS"]
MmcGoIdleState ==
    /\ pc = "idle" /\ pc' = "ifcond"
    /\ \/ card' = IdleMemory /\ UNCHANGED faults
       \/ Fault /\ UNCHANGED card
    /\ UNCHANGED <<tries, attempt, host, dev, given>>

SdCmdSendIfCond ==
    LET accepts == card.mem = "idle" /\ kind.v2
        s18r == IF caps.uhs # {} /\ ~dev.try THEN TRUE ELSE dev.s18r IN
    /\ pc = "ifcond"
    /\ \/ /\ Answered(accepts, card, "opcond")
          /\ dev' = [dev EXCEPT !.hcs = TRUE, !.s18r = s18r]
       \/ Unanswered(accepts, card, 1, "opcond") /\ dev' = [dev EXCEPT !.s18r = s18r]
    /\ UNCHANGED <<host, given>>

\* A card of high capacity stays busy unless the host has said it knows them.
SdAcmdOpCond ==
    LET accepts == card.mem = "idle" /\ (kind.hc => dev.hcs)
        effect == [card EXCEPT !.mem = "ready"]
        s18a == kind.hc /\ kind.uhs # {} /\ dev.s18r /\ card.volt = 33 IN
    /\ pc = "opcond"
    /\ \/ /\ Answered(accepts, effect,
                      IF caps.sdSupportProtocol3 /\ kind.hc /\ s18a THEN "cmd11" ELSE "cid")
          /\ dev' = [dev EXCEPT !.r4 = FALSE, !.ccs = kind.hc, !.s18a = s18a,
                                !.try = IF caps.sdSupportProtocol3 THEN FALSE ELSE @]
       \/ Unanswered(accepts, effect, SendTries + 1, SelectFailed) /\ UNCHANGED dev
    /\ UNCHANGED <<host, given>>

TryAgain == dev' = [dev EXCEPT !.s18r = FALSE, !.try = TRUE]

SdCmdSwitchVoltage ==
    LET effect == [card EXCEPT !.volt = 18] IN
    /\ pc = "cmd11"
    /\ \/ Answered(card.mem = "ready", effect, "hostvolt") /\ UNCHANGED dev
       \/ Unanswered(card.mem = "ready", effect, 1, "idle") /\ TryAgain
    /\ UNCHANGED <<host, given>>

MmcCntlrSwitchVoltage ==
    /\ pc = "hostvolt"
    /\ \/ Continues("cid") /\ host' = [host EXCEPT !.volt = 18] /\ UNCHANGED dev
       \/ Fault /\ pc' = "idle" /\ TryAgain /\ UNCHANGED <<tries, attempt, card, host>>
    /\ UNCHANGED given

MmcAllSendCid ==
    LET effect == [card EXCEPT !.mem = "ident"] IN
    /\ pc = "cid"
    /\ \/ /\ Answered(card.mem = "ready", effect, "rca")
          /\ dev' = [dev EXCEPT !.type = IF DevType = "SD" THEN "SD" ELSE "COMBO"]
       \/ Unanswered(card.mem = "ready", effect, SendTries, SelectFailed) /\ UNCHANGED dev
    /\ UNCHANGED <<host, given>>

(***************************************************************************)
(* The rest of SdInit and SdioSelect.                                      *)
(***************************************************************************)
SdCmdSendRelativeAddr ==
    /\ MmcSendCmd("rca", card.mem \in {"ident", "stby"} \/ card.io # "off",
                  [card EXCEPT !.mem = IF @ = "ident" THEN "stby" ELSE @,
                               !.io = IF @ = "init" THEN "stby" ELSE @],
                  SendTries, IF dev.type = "SDIO" THEN "select" ELSE "csd", "fail")
    /\ UNCHANGED given

SdReadCsd ==
    /\ MmcSendCmd("csd", card.mem = "stby", card, SendTries, "select", "fail")
    /\ UNCHANGED given

MmcSelectCard ==
    /\ MmcSendCmd("select", "stby" \in {card.mem, card.io},
                  [card EXCEPT !.mem = IF @ = "stby" THEN "tran" ELSE @,
                               !.io = IF @ = "stby" THEN "cmd" ELSE @],
                  SendTries, IF DevType = "SD" THEN "regs" ELSE "cccr", "fail")
    /\ UNCHANGED given

\* SdioReadCccr and SdioReadCis.
SdioReadCccr ==
    /\ MmcSendCmd("cccr", card.io = "cmd", card, 1,
                  IF dev.type = "COMBO" THEN "regs" ELSE "cd", "fail")
    /\ UNCHANGED given

\* A combo card of which the memory cannot be read is used without.
SdReadRegisters ==
    /\ pc = "regs"
    /\ \/ /\ Answered(card.mem = "tran", card,
                      CASE dev.type = "COMBO" -> "cd"
                        [] dev.s18a /\ kind.spec3 -> "width"
                        [] dev.s18a /\ ~kind.spec3 -> "uhs"
                        [] OTHER -> "hs")
          /\ UNCHANGED dev
       \/ /\ DevType = "SD"
          /\ Unanswered(card.mem = "tran", card, 1, "fail") /\ UNCHANGED dev
       \/ /\ DevType = "SDIO" /\ Fault
          /\ card' = IdleMemory /\ pc' = "cd" /\ dev' = [dev EXCEPT !.type = "SDIO"]
          /\ UNCHANGED <<tries, attempt>>
    /\ UNCHANGED <<host, given>>

(***************************************************************************)
(* SdUltraHighSpeedDevInit and SdHighSpeedDevInit.                         *)
(***************************************************************************)
\* Every card can do 4 bits.
SdSwitch4BitBusWidth(at, ok) ==
    LET effect == [card EXCEPT !.width = 4] IN
    /\ pc = at
    /\ IF caps.cap4Bit
       THEN \/ Answered(card.mem = "tran", effect, ok) /\ host' = [host EXCEPT !.width = 4]
            \/ Unanswered(card.mem = "tran", effect, SendTries + 1, "fail") /\ UNCHANGED host
       ELSE Continues(ok) /\ UNCHANGED host
    /\ UNCHANGED <<dev, given>>

SdSetMaxCurrentLimit ==
    /\ MmcSendCmd("current", card.mem = "tran", card, 1, "mode", "fail")
    /\ UNCHANGED given

\* The mode of number 0 is both the default and SDR12.
SdFillBusSpeedMode ==
    LET fast == {"SDR104", "SDR50"} \cap caps.uhs # {}
        slow == fast \/ "SDR25" \in caps.uhs IN
    CASE ~kind.spec3 -> "SDR12"
      [] kind.spec3 /\ "SDR104" \in caps.uhs \cap kind.uhs -> "SDR104"
      [] kind.spec3 /\ "SDR104" \notin caps.uhs \cap kind.uhs
           /\ "DDR50" \in caps.uhs \cap kind.uhs -> "DDR50"
      [] OTHER -> IF fast /\ "SDR50" \in kind.uhs THEN "SDR50"
                  ELSE IF slow /\ "SDR25" \in kind.uhs THEN "SDR25" ELSE "SDR12"

\* CMD6 for a timing: the card switches, or says in its answer that it did not.
SwitchFunc(timing, ok) ==
    \/ /\ Answered(card.mem = "tran", [card EXCEPT !.timing = timing], ok)
       /\ host' = [host EXCEPT !.timing = timing]
    \/ /\ card.mem = "tran" /\ Fault /\ pc' = ok
       /\ UNCHANGED <<tries, attempt, card, host>>
    \/ Unanswered(card.mem = "tran", [card EXCEPT !.timing = timing], 1, "fail") /\ UNCHANGED host

SdSetBusSpeedMode ==
    /\ pc = "mode" /\ SwitchFunc(SdFillBusSpeedMode, "uhs")
    /\ UNCHANGED <<dev, given>>

\* Mutant: a timing that the card refused is set in the host.
HighSpeedAnyway ==
    /\ pc = "hs" /\ caps.highSpeed /\ kind.hs
    /\ \/ Answered(card.mem = "tran", [card EXCEPT !.timing = "HS"], "hswidth")
       \/ Fault /\ pc' = "hswidth" /\ UNCHANGED <<tries, attempt, card>>
    /\ host' = [host EXCEPT !.timing = "HS"]
    /\ UNCHANGED <<dev, given>>

SdHighSpeedDevInit ==
    /\ pc = "hs"
    /\ IF caps.highSpeed /\ kind.hs THEN SwitchFunc("HS", "hswidth")
       ELSE Continues("hswidth") /\ UNCHANGED host
    /\ UNCHANGED <<dev, given>>

\* With the end of SdUltraHighSpeedDevInit.
SdExecuteTuning ==
    /\ pc = "uhs" /\ dev' = [dev EXCEPT !.uhs = TRUE]
    /\ \/ Continues("add")
       \/ Fault /\ pc' = "fail" /\ UNCHANGED <<tries, attempt, card>>
    /\ UNCHANGED <<host, given>>

(***************************************************************************)
(* The rest of SdioInit.                                                   *)
(***************************************************************************)
SdioCdDisable ==
    /\ MmcSendCmd("cd", card.io = "cmd", card, 1, "iohs", "fail")
    /\ UNCHANGED given

\* SdioEnableHighSpeed up to the memory of a combo card.
SdioEnableHighSpeed ==
    LET effect == [card EXCEPT !.ioTiming = "HS"]
        combo == dev.type = "COMBO" IN
    /\ pc = "iohs"
    /\ IF caps.highSpeed /\ kind.iohs
       THEN \/ /\ Answered(card.io = "cmd", effect, IF combo THEN "combohs" ELSE "iowidth")
               /\ host' = IF combo THEN host ELSE [host EXCEPT !.timing = "HS"]
            \/ Unanswered(card.io = "cmd", effect, 1, "fail") /\ UNCHANGED host
       ELSE Continues("iowidth") /\ UNCHANGED host
    /\ UNCHANGED <<dev, given>>

\* SdSwitchHighSpeed of a combo card, which may refuse; a loss makes the attempt fail.
ComboHighSpeed ==
    LET effect == [card EXCEPT !.timing = "HS"] IN
    /\ pc = "combohs"
    /\ \/ kind.hs /\ Answered(card.mem = "tran", effect, "iowidth")
            /\ host' = [host EXCEPT !.timing = "HS"]
       \/ kind.hs /\ Unanswered(card.mem = "tran", effect, 1, "fail") /\ UNCHANGED host
       \/ kind.hs /\ card.mem = "tran" /\ Fault /\ pc' = "iods"
            /\ UNCHANGED <<tries, attempt, card, host>>
       \/ ~kind.hs /\ Continues("iods") /\ UNCHANGED host
    /\ UNCHANGED <<dev, given>>

\* The I/O half goes back to the default speed; whether it did is not looked at.
ComboDefaultSpeed ==
    /\ MmcSendCmd("iods", card.io = "cmd", [card EXCEPT !.ioTiming = "DS"], 1,
                  "iowidth", "iowidth")
    /\ UNCHANGED given

SdioEnable4BitBusWidth ==
    LET effect == [card EXCEPT !.ioWidth = 4]
        combo == dev.type = "COMBO" IN
    /\ pc = "iowidth"
    /\ IF caps.cap4Bit
       THEN \/ /\ Answered(card.io = "cmd", effect, IF combo THEN "combowidth" ELSE "funcs")
               /\ host' = IF combo THEN host ELSE [host EXCEPT !.width = 4]
            \/ Unanswered(card.io = "cmd", effect, 1, "fail") /\ UNCHANGED host
       ELSE Continues("funcs") /\ UNCHANGED host
    /\ UNCHANGED <<dev, given>>

\* The number of functions is in the last answer to CMD5 or ACMD41, whichever it was.
Functions == IF dev.r4 THEN kind.functions ELSE IF dev.ccs THEN 4 ELSE 0

\* A function that does not exist cannot be read.
SdioAddFunctions ==
    LET accepts == card.io = "cmd" /\ Functions <= kind.functions IN
    /\ pc = "funcs"
    /\ \/ Answered(accepts, card, "add") /\ dev' = [dev EXCEPT !.functions = Functions]
       \/ Unanswered(accepts, card, 1, "fail") /\ UNCHANGED dev
    /\ UNCHANGED <<host, given>>

Next ==
    \/ PowerUp \/ Probe \/ SdioSendOpCond
    \/ MmcGoIdleState \/ SdCmdSendIfCond \/ SdAcmdOpCond
    \/ SdCmdSwitchVoltage \/ MmcCntlrSwitchVoltage \/ MmcAllSendCid
    \/ SdCmdSendRelativeAddr \/ SdReadCsd \/ MmcSelectCard \/ SdioReadCccr \/ SdReadRegisters
    \/ SdSwitch4BitBusWidth("width", "current") \/ SdSetMaxCurrentLimit \/ SdSetBusSpeedMode
    \/ SdExecuteTuning
    \/ SdHighSpeedDevInit \/ SdSwitch4BitBusWidth("hswidth", "add")
    \/ SdioCdDisable \/ SdioEnableHighSpeed \/ ComboHighSpeed \/ ComboDefaultSpeed
    \/ SdioEnable4BitBusWidth \/ SdSwitch4BitBusWidth("combowidth", "funcs") \/ SdioAddFunctions
    \/ (DeviceAdd /\ UNCHANGED given) \/ (DetectFailed /\ UNCHANGED given)

Spec == Init /\ [][Next]_sdVars
FairSpec == Spec /\ WF_sdVars(Next)

(***************************************************************************)
(* Properties.                                                             *)
(***************************************************************************)
\* Type invariant.
TypeOK ==
    /\ tries \in 0..SendTries /\ attempt \in 0..Retries /\ faults \in 0..MaxFaults
    /\ card.mem \in {"idle", "ready", "ident", "stby", "tran"}
    /\ card.io \in {"off", "init", "stby", "cmd"}
    /\ card.io # "off" => kind.io
    /\ dev.type \in {"SD", "SDIO", "COMBO"}
    /\ dev.type = "COMBO" => kind.mem /\ kind.io

\* When a card has been detected, every half of it that is used has the width and the
\* timing of the host, whatever was lost on the way, unless the card has two halves
\* (mmc_protocol.c 3398).
BusAgrees ==
    pc = "done" =>
        /\ dev.type # "SDIO" => card.width = host.width /\ card.timing = host.timing
        /\ dev.type # "SD" => card.ioWidth = host.width /\ card.ioTiming = host.timing

\* The modes of ultra high speed are used at 1.8 V.
UhsAtLowVoltage == pc = "done" /\ dev.uhs => card.volt = 18

\* A card that suits the host is found unless every attempt met a fault of its own.
SuitableCardFound ==
    pc = "failed" /\ kind.volt /\ (IF DevType = "SD" THEN kind.mem ELSE kind.io)
        /\ (kind.mem /\ kind.hc => kind.v2) => faults >= Retries

\* The device has the functions that the card has.
FunctionsCounted == pc = "done" /\ kind.io => dev.functions = kind.functions
=============================================================================

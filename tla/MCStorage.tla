----------------------------- MODULE MCStorage ------------------------------
(* Storage: the MMC controller, and the detection of cards.  A behaviour runs *)
(* one of them, on one of several instances; they share their variables.      *)
EXTENDS Integers, Sequences, FiniteSets, TLC

CONSTANTS none, c1, c2

VARIABLES
  part, \* the part that runs
  plugged, irq, devPluged, probe, queue, lock, curDev, present, func, refs,
  block, detecting, worker, pc, dev, left, bounds, tries, attempt, faults,
  card, host, caps, kind

vars == <<part, plugged, irq, devPluged, probe, queue, lock, curDev, present, func,
          refs, block, detecting, worker, pc, dev, left, bounds, tries,
          attempt, faults, card, host, caps, kind>>

\* The value of the variables of a part that does not run.
Off == "off"

-----------------------------------------------------------------------------
(* MmcCntlr.                                                               *)

MmcCard == INSTANCE MmcCntlr WITH
  Clients <- {}, DevType <- "SD", OsUninitWaits <- FALSE, Rescans <- FALSE,
  Retries <- 3, RequestRetries <- 2, Chunks <- 1, MaxMoves <- 5,
  MaxFails <- 2, MaxDetects <- 0, None <- none,
  InitMayFail <- FALSE

MmcRead == INSTANCE MmcCntlr WITH
  Clients <- {c1, c2}, DevType <- "SD", OsUninitWaits <- FALSE,
  Rescans <- FALSE, Retries <- 2, RequestRetries <- 2, Chunks <- 2,
  MaxMoves <- 2, MaxFails <- 1, MaxDetects <- 0, None <- none,
  InitMayFail <- TRUE

MmcBlock == INSTANCE MmcCntlr WITH
  Clients <- {c1, c2}, DevType <- "SD", OsUninitWaits <- TRUE,
  Rescans <- FALSE, Retries <- 2, RequestRetries <- 2, Chunks <- 1,
  MaxMoves <- 3, MaxFails <- 1, MaxDetects <- 0, None <- none,
  InitMayFail <- TRUE

MmcSdio == INSTANCE MmcCntlr WITH
  Clients <- {c1, c2}, DevType <- "SDIO", OsUninitWaits <- FALSE,
  Rescans <- FALSE, Retries <- 2, RequestRetries <- 2, Chunks <- 1,
  MaxMoves <- 2, MaxFails <- 1, MaxDetects <- 1, None <- none,
  InitMayFail <- TRUE

MmcOpen == INSTANCE MmcCntlr WITH
  Clients <- {c1}, DevType <- "SDIO", OsUninitWaits <- FALSE, Rescans <- TRUE,
  Retries <- 2, RequestRetries <- 2, Chunks <- 1, MaxMoves <- 2,
  MaxFails <- 1, MaxDetects <- 0, None <- none,
  InitMayFail <- FALSE

\* The variables of the other parts.
MmcRest == <<tries, attempt, faults, card, host, caps, kind>>
MmcAlone ==
  /\ tries = Off /\ attempt = Off /\ faults = Off /\ card = Off
  /\ host = Off /\ caps = Off /\ kind = Off

\* Two clients of an SDIO card, or one of them and the queue's thread, are never on
\* the bus at the same time; and the block layer of a memory card, whose removal waits
\* for reads under way (OsUninitWaits), never reads through a device that is gone,
\* whatever is plugged, unplugged and detected meanwhile.  Not claimed: that a block
\* read has the bus alone, because it looks at `detecting' without the mutex and then
\* sends by itself (mmc_core.c 1104-1106 against 89-98); or that a rescan respects a
\* claim (131) (mmc_core.c, mmc_sdio.c, mmc_block.c).
BusExclusive ==
  /\ part = "mmc_sdio" => MmcSdio!BusExclusive
  /\ part = "mmc_block" => MmcBlock!ReadsAlive
  /\ part = "mmc_open" => MmcOpen!TypeOK

-----------------------------------------------------------------------------
(* SdProtocol, for memory cards, I/O cards and cards with both.            *)

AllUhs == {"SDR12", "SDR25", "SDR50", "DDR50", "SDR104"}

\* Hosts of the third specification.
SdHosts ==
  [highSpeed : BOOLEAN, cap4Bit : BOOLEAN, sdSupportProtocol3 : {TRUE},
   uhs : {{}, {"SDR25", "DDR50"}, AllUhs}]

\* A card of ultra high speed has a high capacity and is of the third
\* specification.
MemoryCards ==
  {k \in [mem : {TRUE}, hc : BOOLEAN, v2 : BOOLEAN, hs : BOOLEAN, spec3 : BOOLEAN,
          uhs : {{}, {"SDR12", "SDR25", "SDR50"}, AllUhs},
          io : {FALSE}, iohs : {FALSE}, functions : {0}, volt : BOOLEAN] :
      k.uhs # {} => k.hc /\ k.spec3 /\ k.v2}

IoCards ==
  [mem : {FALSE}, hc : {FALSE}, v2 : {FALSE}, hs : {FALSE}, spec3 : {FALSE}, uhs : {{}},
   io : {TRUE}, iohs : BOOLEAN, functions : 1..2, volt : BOOLEAN]

ComboCards ==
  [mem : {TRUE}, hc : {TRUE}, v2 : {TRUE}, hs : BOOLEAN, spec3 : {FALSE}, uhs : {{}},
   io : {TRUE}, iohs : BOOLEAN, functions : {4}, volt : {TRUE}]

SdCard == INSTANCE SdProtocol WITH
  DevType <- "SD", Hosts <- SdHosts, Kinds <- MemoryCards, Retries <- 2,
  SendTries <- 2, MaxFaults <- 2

SdioCard == INSTANCE SdProtocol WITH
  DevType <- "SDIO", Hosts <- SdHosts, Kinds <- IoCards, Retries <- 2,
  SendTries <- 2, MaxFaults <- 2

SdioCombo == INSTANCE SdProtocol WITH
  DevType <- "SDIO", Hosts <- SdHosts, Kinds <- ComboCards, Retries <- 2,
  SendTries <- 2, MaxFaults <- 0

\* The variables of the other parts.
SdRest == <<plugged, irq, devPluged, probe, queue, lock, curDev, present,
            func, refs, block, detecting, worker, left, bounds>>
SdAlone ==
  /\ plugged = Off /\ irq = Off /\ devPluged = Off /\ probe = Off
  /\ queue = Off /\ lock = Off /\ curDev = Off /\ present = Off
  /\ func = Off /\ refs = Off /\ block = Off /\ detecting = Off
  /\ worker = Off /\ left = Off /\ bounds = Off

-----------------------------------------------------------------------------
(* EmmcProtocol, for cards of up to 52 MHz, HS200 and HS400.               *)

Voltages == {{}, {18}, {12, 18}}

\* Boards, on which not all the lines a host has need be wired, and cards up to
\* 52 MHz.
PlainHosts ==
  [cap4Bit : BOOLEAN, cap8Bit : BOOLEAN, lines : {1, 4, 8}, highSpeed : BOOLEAN,
   ddr : Voltages, sdr : {{}}, hs400 : {FALSE}, strobe : {FALSE}]
PlainCards ==
  {k \in [spec4 : BOOLEAN, speed : {0, 26, 52}, ddr : Voltages, sdr : {{}}, hs400 : {FALSE},
          strobe : {FALSE}, enh : BOOLEAN, boot : BOOLEAN, hpi : BOOLEAN, low : BOOLEAN] :
      /\ k.ddr # {} => k.speed = 52
      /\ k.boot = k.enh /\ k.low = k.hpi /\ k.hpi = k.enh
      /\ ~ k.spec4 => k.speed = 0 /\ ~ k.enh}

\* Hosts of which everything is wired, and cards of 200 MHz.
WiredHosts(sdr, fast) ==
  {h \in [cap4Bit : {TRUE}, cap8Bit : BOOLEAN, lines : {4, 8}, highSpeed : BOOLEAN,
          ddr : {{}}, sdr : sdr, hs400 : fast, strobe : fast] :
      /\ h.lines = IF h.cap8Bit THEN 8 ELSE 4
      /\ h.hs400 \/ h.strobe => h.cap8Bit}
FastCards ==
  [spec4 : {TRUE}, speed : {200}, ddr : {{}}, sdr : {{12}, {18}, {12, 18}}, hs400 : BOOLEAN,
   strobe : BOOLEAN, enh : {FALSE}, boot : {FALSE}, hpi : {FALSE}, low : {FALSE}]
Hs200Hosts == WiredHosts({{18}, {12, 18}}, {FALSE})
Hs400Hosts == WiredHosts({{12, 18}}, BOOLEAN)

EmmcCard == INSTANCE EmmcProtocol WITH
  Hosts <- PlainHosts, Kinds <- PlainCards, Retries <- 2, SendTries <- 2,
  MaxFaults <- 1

EmmcHs200 == INSTANCE EmmcProtocol WITH
  Hosts <- Hs200Hosts, Kinds <- FastCards, Retries <- 2, SendTries <- 2,
  MaxFaults <- 2

EmmcFast == INSTANCE EmmcProtocol WITH
  Hosts <- Hs400Hosts, Kinds <- FastCards, Retries <- 2, SendTries <- 2,
  MaxFaults <- 0

\* The variables of the other parts.
EmmcRest == <<plugged, irq, devPluged, probe, queue, lock, curDev, present,
              func, refs, block, detecting, worker, left, bounds>>
EmmcAlone ==
  /\ plugged = Off /\ irq = Off /\ devPluged = Off /\ probe = Off
  /\ queue = Off /\ lock = Off /\ curDev = Off /\ present = Off
  /\ func = Off /\ refs = Off /\ block = Off /\ detecting = Off
  /\ worker = Off /\ left = Off /\ bounds = Off

\* When a card has been detected, card and host have the same width and timing on
\* lines that are wired, whatever was refused or lost on the way, and the host knows
\* which options an eMMC has switched on.  For cards with memory and I/O, both halves
\* agree with the host, and for HS400, the voltage is that of the timing, if no command
\* is lost: mmc_protocol.c goes on with the old setting where one is (3398, 1078, 1326,
\* 1049).  An SD card in a mode of ultra high speed is at 1.8 V if its host knows
\* protocol 3.0 (2198); the host need not be, if its own switch failed (2209).  The
\* clock of HS200 is that of the timing (SdInit, SdioInit, EmmcInit).
BusAgrees ==
  /\ part = "sd_card" => SdCard!TypeOK /\ SdCard!BusAgrees /\ SdCard!UhsAtLowVoltage
  /\ part = "sdio_card" => SdioCard!BusAgrees
  /\ part = "sdio_combo" => SdioCombo!BusAgrees
  /\ part = "emmc_card" => EmmcCard!BusAgrees /\ EmmcCard!OptionsAgree
  /\ part = "emmc_hs200" => EmmcHs200!BusAgrees /\ EmmcHs200!ClockFits
  /\ part = "emmc_fast" => EmmcFast!BusAgrees /\ EmmcFast!VoltageFits

\* A card that suits the host is found, with all its functions, unless every
\* attempt met a fault of its own (mmc_protocol.c, SdDetect, SdioDetect,
\* EmmcDetect).
CardFound ==
  /\ part = "sd_card" => SdCard!SuitableCardFound
  /\ part = "sdio_card" => SdioCard!SuitableCardFound /\ SdioCard!FunctionsCounted
  /\ part = "emmc_card" => EmmcCard!SuitableCardFound

\* However quickly a card is put in and taken out, once it rests there is a device
\* if and only if it is in, if fewer detections fail than are tried and systemInit
\* does not (mmc_core.c, MmcCntlrPlug, MmcCntlrUnplug); a read returns, whatever the
\* queue's thread plugs, unplugs and detects meanwhile (MmcCntlrPostMsg); and a
\* detection ends (mmc_protocol.c, SdDetect).
CardServed ==
  /\ <>[](part = "mmc_card" => (plugged <=> present))
  /\ \A c \in {c1, c2} : []<>(part = "mmc_read" => pc[c] = "idle")
  /\ []<>(part = "sd_card" => pc \in {"done", "failed"})

-----------------------------------------------------------------------------
\* One part is chosen at the start and runs on.
Init ==
  \/ part = "mmc_card" /\ MmcAlone /\ MmcCard!Init
  \/ part = "mmc_read" /\ MmcAlone /\ MmcRead!Init
  \/ part = "mmc_block" /\ MmcAlone /\ MmcBlock!Init
  \/ part = "mmc_sdio" /\ MmcAlone /\ MmcSdio!Init
  \/ part = "mmc_open" /\ MmcAlone /\ MmcOpen!Init
  \/ part = "sd_card" /\ SdAlone /\ SdCard!Init
  \/ part = "sdio_card" /\ SdAlone /\ SdioCard!Init
  \/ part = "sdio_combo" /\ SdAlone /\ SdioCombo!Init
  \/ part = "emmc_card" /\ EmmcAlone /\ EmmcCard!Init
  \/ part = "emmc_hs200" /\ EmmcAlone /\ EmmcHs200!Init
  \/ part = "emmc_fast" /\ EmmcAlone /\ EmmcFast!Init

Next ==
  \/ part = "mmc_card" /\ MmcCard!Next /\ UNCHANGED <<part, MmcRest>>
  \/ part = "mmc_read" /\ MmcRead!Next /\ UNCHANGED <<part, MmcRest>>
  \/ part = "mmc_block" /\ MmcBlock!Next /\ UNCHANGED <<part, MmcRest>>
  \/ part = "mmc_sdio" /\ MmcSdio!Next /\ UNCHANGED <<part, MmcRest>>
  \/ part = "mmc_open" /\ MmcOpen!Next /\ UNCHANGED <<part, MmcRest>>
  \/ part = "sd_card" /\ SdCard!Next /\ UNCHANGED <<part, SdRest>>
  \/ part = "sdio_card" /\ SdioCard!Next /\ UNCHANGED <<part, SdRest>>
  \/ part = "sdio_combo" /\ SdioCombo!Next /\ UNCHANGED <<part, SdRest>>
  \/ part = "emmc_card" /\ EmmcCard!Next /\ UNCHANGED <<part, EmmcRest>>
  \/ part = "emmc_hs200" /\ EmmcHs200!Next /\ UNCHANGED <<part, EmmcRest>>
  \/ part = "emmc_fast" /\ EmmcFast!Next /\ UNCHANGED <<part, EmmcRest>>

\* Each component's own fairness, while it runs.
Fairness ==
  /\ WF_(MmcCard!vars)(part = "mmc_card" /\ MmcCard!MmcCntlrAddPlugMsgToQueue)
  /\ WF_(MmcCard!vars)(part = "mmc_card" /\ MmcCard!WorkerStep)
  /\ WF_(MmcRead!vars)(part = "mmc_read" /\ MmcRead!WorkerStep)
  /\ \A c \in {c1, c2} : WF_(MmcRead!vars)(part = "mmc_read" /\ MmcRead!ClientStep(c))
  /\ WF_(SdCard!sdVars)(part = "sd_card" /\ SdCard!Next)

Spec == Init /\ [][Next]_vars /\ Fairness
=============================================================================

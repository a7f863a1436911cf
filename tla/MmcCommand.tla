---------------------------- MODULE MmcCommand ----------------------------
(***************************************************************************)
(* What the detections of mmc_protocol.c have in common: MmcSendCmd, which *)
(* sends a command up to a number of times, and MmcDoDetect with           *)
(* MmcCntlrPlug, which start over, with the power switched off and on,     *)
(* when an attempt failed.                                                 *)
(*                                                                         *)
(* The card and the wires are external.  A card answers the commands its   *)
(* state accepts and no others.  A fault loses a command, or its response: *)
(* then the card has done what it was told, and the host does not know.    *)
(***************************************************************************)
EXTENDS Integers

CONSTANTS Retries,   \* MMC_DETECET_RETRY
          SendTries, \* MMC_CMD_DEFAULT_RETRY_TIMES
          MaxFaults  \* bound on the faults

VARIABLES
    pc,       \* the command the detecting thread sends next
    tries,    \* how often it has been sent
    attempt,  \* the attempts at detection that have failed
    faults,   \* the faults there were
    card,     \* the state of the card
    host,     \* what the controller has been set to: width, timing, voltage
    dev       \* what the attempt knows of the card

Fault == faults < MaxFaults /\ faults' = faults + 1

\* A response arrives.
Answered(accepts, effect, to) ==
    /\ accepts
    /\ card' = effect /\ pc' = to /\ tries' = 0
    /\ UNCHANGED <<attempt, faults>>

\* None does: the command is sent again, n times in all, unless that fails for good.
Unanswered(accepts, effect, n, to) ==
    /\ \/ ~accepts /\ card' = card /\ UNCHANGED faults
       \/ Fault /\ card' = card
       \/ Fault /\ accepts /\ card' = effect
    /\ pc' = IF tries + 1 >= n THEN to ELSE pc
    /\ tries' = IF tries + 1 >= n THEN 0 ELSE tries + 1
    /\ UNCHANGED attempt

\* MmcSendCmd, for a command of which the host keeps nothing.
MmcSendCmd(at, accepts, effect, n, ok, fail) ==
    /\ pc = at
    /\ \/ Answered(accepts, effect, ok)
       \/ Unanswered(accepts, effect, n, fail)
    /\ UNCHANGED <<host, dev>>

\* A step of the host alone.
Continues(to) == pc' = to /\ UNCHANGED <<tries, attempt, faults, card>>

\* Mutant: there is one attempt.
GivesUpAtOnce ==
    /\ pc = "fail" /\ pc' = "failed" /\ attempt' = attempt + 1
    /\ UNCHANGED <<tries, faults, card, host, dev>>

\* The end of MmcDoDetect and of the loop in MmcCntlrPlug.
DetectFailed ==
    /\ pc = "fail"
    /\ attempt' = attempt + 1
    /\ pc' = IF attempt + 1 = Retries THEN "failed" ELSE "power"
    /\ UNCHANGED <<tries, faults, card, host, dev>>

\* MmcDeviceAdd, which may fail.
DeviceAdd ==
    /\ pc = "add"
    /\ \/ Continues("done")
       \/ Fault /\ pc' = "fail" /\ UNCHANGED <<tries, attempt, card>>
    /\ UNCHANGED <<host, dev>>
=============================================================================

----------------------------- MODULE MCPlatform -----------------------------
(* Platform on small instances: three threads that use events and devices,     *)
(* one of them the owner of the device, and three clients of a queue; presets   *)
(* of a vibrator of one pulse, of two, and of an effect of the device; one more *)
(* channel of a DMA controller than clients, because the interrupt keeps a     *)
(* channel for a moment after the callback; copies of one piece and of three.  *)
EXTENDS Platform

CONSTANTS e1, e2, l1

MCThreads == {t1, t2, t3}
MCEvents == {e1, e2}
MCListeners == {l1}
MCVibratorClients == {t1, t2}
MCWorkPresets == {[type |-> "time", num |-> 2], [type |-> "effect", num |-> 2]}
MCStopPresets == {[type |-> "time", num |-> 4]}
MCDmaClients == {t1, t2}
MCCopyPieces == {1, 3}
=============================================================================

--------------------------- MODULE SharedDevice ---------------------------
(***************************************************************************)
(* What PlatformDeviceAdd, PlatformDeviceDel, the search of the manager    *)
(* and PlatformDevicePut promise together: a device is found only between  *)
(* its addition and its deletion, and a deletion ends only when nobody     *)
(* holds the device any more.                                              *)
(***************************************************************************)
CONSTANT Users

VARIABLES phase,    \* "out" of the manager, "in" it, or "leaving" it
          holders   \* users that hold the device

vars == <<phase, holders>>

Init == phase = "out" /\ holders = {}

Add    == phase = "out" /\ phase' = "in" /\ UNCHANGED holders
Get(u) == phase = "in" /\ u \notin holders
            /\ holders' = holders \cup {u} /\ UNCHANGED phase
Put(u) == u \in holders /\ holders' = holders \ {u} /\ UNCHANGED phase
Remove == phase = "in" /\ phase' = "leaving" /\ UNCHANGED holders
Retire == phase = "leaving" /\ holders = {} /\ phase' = "out" /\ UNCHANGED holders

Next == Add \/ Remove \/ Retire \/ \E u \in Users : Get(u) \/ Put(u)

Spec == Init /\ [][Next]_vars
=============================================================================

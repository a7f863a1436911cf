--------------------------- MODULE MCDevSvcManager ---------------------------
(***************************************************************************)
(* Instances of DevSvcManager: two services of different classes.          *)
(***************************************************************************)
EXTENDS DevSvcManager

CONSTANTS s1, s2, c1, sensor, camera

MCClassOf == [s \in Services |-> IF s = s1 THEN sensor ELSE camera]
=============================================================================

------------------------------- MODULE MCCore -------------------------------
(* Core on small instances: a friendly and a private service with three        *)
(* devices; two callers by the queue, and one beside two direct ones.          *)
EXTENDS Core

CONSTANT c3

MCServices == {"touch", "power"}
MCHostDevices == {"dev1", "dev2", "dev3"}
MCOwner == "touch" :> "dev1" @@ "power" :> "dev2"
MCPolicy == "touch" :> "FRIENDLY" @@ "power" :> "PRIVATE"
MCObserverThreads == {c1}
MCCallers == {c1, c2}
MCPowerDevices == {d1, d2}
MCMixedCallers == {c1, c2, c3}
MCDirect == {c1, c2}
MCMixedDevices == {d1}
MCSenders == {c1, c2}
MCDelays == {0, 1}
=============================================================================

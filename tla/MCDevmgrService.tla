--------------------------- MODULE MCDevmgrService ---------------------------
(***************************************************************************)
(* Instances of DevmgrService for TLC.                                     *)
(***************************************************************************)
EXTENDS DevmgrService, TLC

\* The user processes that load devices are alike.
UserSymmetry == Permutations(Users)

\* Quick load.  Host "sys" has two nodes of one device, the second loaded in the
\* second step; host "wlan" has two dynamic nodes of one device.  One of them
\* publishes the service name of a node of "sys".
QuickInfos    == {"bus", "chip", "radio", "scan"}
QuickHostSeq  == <<"wlan", "sys">>
QuickHostOf   == [i \in QuickInfos |-> IF i \in {"radio", "scan"} THEN "wlan" ELSE "sys"]
QuickDeviceOf == [i \in QuickInfos |-> 1]
QuickSvcName  == [i \in QuickInfos |-> IF i = "radio" THEN "chip" ELSE i]
QuickPolicy   == ("bus" :> "PRIVATE" @@ "chip" :> "PUBLIC" @@
                  "radio" :> "CAPACITY" @@ "scan" :> "NONE")
QuickPreload  == ("bus" :> "ENABLE" @@ "chip" :> "STEP2" @@
                  "radio" :> "DISABLE" @@ "scan" :> "DISABLE")
QuickUnload   == ("sys" :> <<"bus", "chip">> @@ "wlan" :> <<>>)

\* One host with a device loaded at start and a dynamic one.
LateInfos    == {"bus", "radio"}
LateHostSeq  == <<"wlan">>
LateHostOf   == [i \in LateInfos |-> "wlan"]
LateDeviceOf == [i \in LateInfos |-> i]
LateSvcName  == [i \in LateInfos |-> i]
LatePolicy   == [i \in LateInfos |-> "PUBLIC"]
LatePreload  == ("bus" :> "ENABLE" @@ "radio" :> "DISABLE")
LateUnload   == [h \in {"wlan"} |-> <<"bus">>]
=============================================================================

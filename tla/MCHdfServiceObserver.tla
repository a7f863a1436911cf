------------------------ MODULE MCHdfServiceObserver ------------------------
(***************************************************************************)
(* An instance of HdfServiceObserver: a host with two devices, of which    *)
(* one publishes a service that any of the host's devices may subscribe.   *)
(***************************************************************************)
EXTENDS HdfServiceObserver, TLC

FriendlyOwner  == ("touch" :> "dev1")
FriendlyPolicy == ("touch" :> "FRIENDLY")
=============================================================================

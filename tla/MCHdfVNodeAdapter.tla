-------------------------- MODULE MCHdfVNodeAdapter --------------------------
(* Model checking of HdfVNodeAdapter: two interchangeable files on one node. *)
EXTENDS HdfVNodeAdapter, TLC

ClientSymmetry == Permutations(Clients)
=============================================================================

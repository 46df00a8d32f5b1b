---------------------------- MODULE MCResourcePool ----------------------------
(* Small instances of ResourcePool for TLC. *)
EXTENDS ResourcePoolProofs, TLC

Symmetry == Permutations(Clients) \cup Permutations(Resources)
=============================================================================

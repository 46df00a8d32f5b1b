------------------------- MODULE MCSessionExecutor -------------------------
EXTENDS SessionExecutor, TLC

(* Sessions, slices and connection names are interchangeable.              *)
Symmetry == Permutations(Sessions) \cup Permutations(Slices) \cup Permutations(Ids)

(* The history variables decide nothing but whether a client sends SET     *)
(* autocommit = 1: a run without that command, whose invariants do not     *)
(* mention them, may leave them out of the comparison of states.           *)
WithoutHistory == <<sessionVars, controlVars, poolVars, crashed>>

=============================================================================

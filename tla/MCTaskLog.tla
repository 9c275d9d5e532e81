------------------------------ MODULE MCTaskLog ------------------------------
(* Small instances of TaskLog. *)
EXTENDS TaskLog, TLC

CONSTANTS h1, h2, a1, a2

TwoHumans == a1 :> h1 @@ a2 :> h2
Symmetry == Permutations(Sessions) \cup Permutations(Bodies)
=============================================================================

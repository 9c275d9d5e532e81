---------------------------- MODULE MCWakeDispatch ----------------------------
(* Symmetry of WakeDispatch for TLC: runs and processes are interchangeable. *)
EXTENDS WakeDispatch, TLC

Symmetry == Permutations(Runs) \union Permutations(Workers)
=============================================================================

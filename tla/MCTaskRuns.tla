------------------------------ MODULE MCTaskRuns ------------------------------
(* Constants of TaskRuns for TLC. *)
EXTENDS TaskViews, TLC

CONSTANTS g1, g2, g3

\* g1 and g2 belong to the Task owner, g3 to a friend who may be invited.
Owners == [g \in Agents |-> IF g = g3 THEN "friend" ELSE "owner"]

SessionSymmetry == Permutations(Sessions)
=============================================================================

----------------------------- MODULE MCControl -----------------------------
(* A Human's account and what the Human may do for an Agent, for TLC.  They   *)
(* share no row, so a behaviour runs one of them: the states are the sum, not *)
(* the product, of theirs.                                                    *)
EXTENDS Control, Accounts, TLC

CONSTANTS r1, a1

OneApproval == r1 :> a1
NoApprovals == << >>
Symmetry == UNION {Permutations(S) : S \in {Sessions, Humans, Challenges}}

VARIABLE part

HumanInit ==
  /\ part \in {"control", "account"}
  /\ Init /\ AccountsInit
  /\ part = "control" => user = {}

HumanNext ==
  /\ UNCHANGED part
  /\ \/ part = "control" /\ Next /\ UNCHANGED accountVars
     \/ part = "account" /\ AccountsNext /\ UNCHANGED vars

HumanSpec == HumanInit /\ [][HumanNext]_<<part, vars, accountVars>>
=============================================================================

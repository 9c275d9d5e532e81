------------------------------ MODULE Attempts ------------------------------
(***************************************************************************)
(* What run attempts promise about an assignment, whatever the handlers    *)
(* race: its attempts are made one after another, the next one only when   *)
(* the earlier ones are closed, and a closed attempt is never open again.  *)
(* One transaction may move several assignments at once.                   *)
(***************************************************************************)
EXTENDS Integers

CONSTANTS Assignments, MaxAttempts

VARIABLE attempt    \* "none", "open" or "closed", for each assignment and number

Numbers == 1..MaxAttempts

Init ==
    /\ attempt \in [Assignments \X Numbers -> {"none", "open"}]
    /\ \A a \in Assignments, n \in Numbers : n > 1 => attempt[<<a, n>>] = "none"

Stays(a) == \A n \in Numbers : attempt'[<<a, n>>] = attempt[<<a, n>>]

\* The open attempt ends: a result, a cancellation or an interruption.
Finish(a) ==
    \A n \in Numbers :
        attempt'[<<a, n>>] = IF attempt[<<a, n>>] = "open" THEN "closed"
                                                           ELSE attempt[<<a, n>>]

\* Attempt n opens; the one before it ends now if it had not ended yet.
Try(a, n) ==
    /\ attempt[<<a, n>>] = "none"
    /\ attempt'[<<a, n>>] = "open"
    /\ \A m \in Numbers :
        /\ m < n => attempt[<<a, m>>] # "none" /\ attempt'[<<a, m>>] = "closed"
        /\ m > n => attempt[<<a, m>>] = "none" /\ attempt'[<<a, m>>] = "none"

Next ==
    /\ attempt' \in [Assignments \X Numbers -> {"none", "open", "closed"}]
    /\ \A a \in Assignments :
        Stays(a) \/ Finish(a) \/ \E n \in Numbers : Try(a, n)

Spec == Init /\ [][Next]_attempt
=============================================================================

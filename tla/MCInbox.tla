------------------------------- MODULE MCInbox -------------------------------
(* Constants of Inbox for TLC. *)
EXTENDS Inbox, TLC

CONSTANT f1

Plain  == [reply |-> FALSE, file |-> NoFile]
Filed  == [reply |-> FALSE, file |-> f1]
Answer == [reply |-> TRUE, file |-> NoFile]

OneUploader == [f \in Files |-> CHOOSE x \in Senders : TRUE]

AllBodies == {Filed, Answer}
PlainBody == {Plain}
FiledBody == {Filed}

Symmetry == Permutations(Sessions) \union Permutations(Tasks)
=============================================================================

----------------------------- MODULE MCMessaging -----------------------------
(* Whom an Agent's text means, and the inboxes its messages go to, for TLC.  *)
(* Finding a recipient writes no row that sending reads, so a behaviour runs *)
(* one of the two: the states are the sum, not the product, of theirs.       *)
EXTENDS Inbox, Recipients, TLC

CONSTANTS f1, h1, h2, a1, a2, a3, a4, t1, t2

Filed  == [reply |-> FALSE, file |-> f1]
Answer == [reply |-> TRUE, file |-> NoFile]

OneUploader == [f \in Files |-> CHOOSE x \in Senders : TRUE]
MCBodies    == {Filed, Answer}
Symmetry    == Permutations(Sessions)

\* a1 asks for h1; h2 has a "hermes" and a "codex"; a4, of nobody, has the
\* handle "codex".
MCOwnerOf    == (a1 :> h1) @@ (a2 :> h2) @@ (a3 :> h2) @@ (a4 :> NoOne)
MCTypeOf     == (a1 :> "codex") @@ (a2 :> "hermes") @@ (a3 :> "codex") @@ (a4 :> NoOne)
MCTypeHandle == [a \in Agents |-> IF a = a4 THEN "codex" ELSE NoOne]

Blank == [address |-> NoOne, usernames |-> {}, names |-> {}, short |-> {}, handles |-> {},
          titles |-> {}, types |-> {}, whole |-> "no", possessive |-> FALSE, like |-> {},
          alike |-> {}, titled |-> {}, partly |-> {}]

Someone == {[Blank EXCEPT !.usernames = {h2}], [Blank EXCEPT !.usernames = {h1, h2}],
            [Blank EXCEPT !.names = {h2}], [Blank EXCEPT !.short = {h2}],
            [Blank EXCEPT !.like = {h2}], Blank}

MCTexts ==
    {[Blank EXCEPT !.address = x] : x \in {a2, a4, "unknown"}}
    \union {[t EXCEPT !.types = ts, !.handles = gs, !.possessive = p] :
              t \in Someone, ts \in {{}, {"codex"}, {"codex", "hermes"}},
              gs \in {{}, {a2}}, p \in BOOLEAN}
    \union {[Blank EXCEPT !.alike = {a2, a3}], [Blank EXCEPT !.alike = {a2}],
            [Blank EXCEPT !.titled = {t1}, !.partly = {t1, t2}],
            [Blank EXCEPT !.titled = {t1, t2}], [Blank EXCEPT !.partly = {t1}],
            [Blank EXCEPT !.whole = "handle", !.handles = {a2}],
            [Blank EXCEPT !.whole = "handle", !.types = {"codex"}],
            [Blank EXCEPT !.whole = "title", !.titles = {a2, a4}, !.possessive = TRUE]}

VARIABLE part

MessagingInit ==
    /\ part \in {"inbox", "recipients"}
    /\ Init
    /\ RecipientsInit
    /\ part = "inbox" => default = [h \in Humans |-> CHOOSE g \in Agents \union {NoOne} : IsDefault(g, h, Agents)]

MessagingNext ==
    /\ UNCHANGED part
    /\ \/ part = "inbox" /\ Next /\ UNCHANGED recipientVars
       \/ part = "recipients" /\ RecipientsNext /\ UNCHANGED vars

MessagingSpec == MessagingInit /\ [][MessagingNext]_<<part, vars, recipientVars>>
=============================================================================

------------------------------ MODULE Recipients ------------------------------
(***************************************************************************)
(* Who a recipient text means (agentpost/directory/service.py).            *)
(*                                                                         *)
(* resolve_recipient tries one reading of the text after another and       *)
(* answers with the first that applies: one Agent, several to choose from, *)
(* or nobody.  It first reads the caller's scope - the Agents its Human    *)
(* owns, has corresponded with, or is allowed to reach - and then queries  *)
(* Agents and Humans statement by statement, so that a contact, a default  *)
(* or a disabled Agent committed in between is seen by some readings only. *)
(*                                                                         *)
(* A text is the record of what it contains; which characters make it so   *)
(* (tokens, similarity ratios, labels) is left out.                        *)
(***************************************************************************)
EXTENDS Naturals, FiniteSets, Sequences

CONSTANTS
    Agents, Humans, Types, TitledTasks,
    NoOne,          \* no Agent, no Human, no type
    OwnerOf,        \* AgentOwnership, NoOne for an Agent without a Human
    TypeOf,         \* connector_type of the Agent's binding
    TypeHandle,     \* the type whose name the Agent's handle is
    Caller,         \* the Agent that asks
    Texts,          \* the texts it asks with
    MaxChanges      \* bound on the changes to Agents, defaults and contacts

TextFields(t) ==
    /\ t.address \in Agents \union {NoOne, "unknown"}  \* an address it contains
    /\ t.usernames \subseteq Humans     \* whose username is one of its tokens
    /\ t.names \subseteq Humans         \* whose display name it contains
    /\ t.short \subseteq Humans         \* whose one-letter display name it contains
    /\ t.handles \subseteq Agents       \* whose handle is one of its tokens
    /\ t.titles \subseteq Agents        \* whose display name it contains
    /\ t.types \subseteq Types          \* type words it contains
    /\ t.whole \in {"no", "handle", "title"}    \* and it contains nothing else
    /\ t.possessive \in BOOLEAN         \* "<someone>'s <kind of Agent>"
    /\ t.like \subseteq Humans          \* whose names resemble one of its words
    /\ t.alike \subseteq Agents         \* which resemble the whole text
    /\ t.titled \subseteq TitledTasks   \* whose title is the whole text
    /\ t.partly \subseteq TitledTasks   \* whose title contains it, or it the title

ASSUME RecipientsAssumption ==
    /\ OwnerOf \in [Agents -> Humans \union {NoOne}]
    /\ TypeOf \in [Agents -> Types \union {NoOne}]
    /\ TypeHandle \in [Agents -> Types \union {NoOne}]
    /\ Caller \in Agents
    /\ \A t \in Texts : TextFields(t)
    /\ MaxChanges \in Nat

VARIABLES
    active,     \* Agents with status "active"
    default,    \* HumanUser.default_agent_id
    contact,    \* pairs <<sender, recipient>> of the deliveries made
    allows,     \* Agents with an allow rule for the caller or its domain
    joined,     \* Tasks the caller takes part in
    asked,      \* the request in progress: its text and the scope read for it
    answer,     \* the last answer
    changes     \* changes made

recipientVars == <<active, default, contact, allows, joined, asked, answer, changes>>

NotAsking == [pc |-> "idle"]
NoAnswer  == [status |-> "none", agents |-> {}, owners |-> {}, tasks |-> {}]

RecipientsTypeOK ==
    /\ active \subseteq Agents
    /\ default \in [Humans -> Agents \union {NoOne}]
    /\ contact \subseteq Agents \X Agents
    /\ allows \subseteq Agents
    /\ joined \subseteq TitledTasks
    /\ asked \in {NotAsking} \union [pc : {"resolve", "search"}, text : Texts, scope : SUBSET Agents]
    /\ answer \in [status : {"none", "listed", "resolved", "needs_clarification", "not_found"},
                   agents : SUBSET Agents, owners : SUBSET Agents, tasks : SUBSET TitledTasks]
    /\ changes \in 0..MaxChanges

\* ensure_human_default_agent: an active Agent of the Human, if there is one.
IsDefault(g, h, live) ==
    LET mine == {x \in live : OwnerOf[x] = h}
    IN  IF mine = {} THEN g = NoOne ELSE g \in mine

\* A Human's first Agent becomes the default, which may be changed later.
RecipientsInit ==
    /\ active = Agents
    /\ default \in {d \in [Humans -> Agents \union {NoOne}] :
                        \A h \in Humans : IsDefault(d[h], h, Agents)}
    /\ contact = {}
    /\ allows = {}
    /\ joined = {}
    /\ asked = NotAsking
    /\ answer = NoAnswer
    /\ changes = 0

-----------------------------------------------------------------------------
(* What other requests commit meanwhile.                                   *)

Change ==
    /\ changes < MaxChanges
    /\ changes' = changes + 1
    /\ UNCHANGED <<asked, answer>>

\* set_default_agent.
ChooseDefault(h, g) ==
    /\ g \in active
    /\ OwnerOf[g] = h
    /\ default[h] # g
    /\ Change
    /\ default' = [default EXCEPT ![h] = g]
    /\ UNCHANGED <<active, contact, allows, joined>>

\* disable_owned_agent: the default of its Human moves to another Agent, if any.
Disable(g) ==
    /\ g \in active /\ OwnerOf[g] # NoOne
    /\ Change
    /\ active' = active \ {g}
    /\ \E r \in Agents \union {NoOne} :
        /\ IsDefault(r, OwnerOf[g], active')
        /\ default[OwnerOf[g]] \in active' => r = default[OwnerOf[g]]
        /\ default' = [default EXCEPT ![OwnerOf[g]] = r]
    /\ UNCHANGED <<contact, allows, joined>>

\* A message is delivered.
Exchange(x, y) ==
    /\ x # y
    /\ {x, y} \subseteq active
    /\ <<x, y>> \notin contact
    /\ Change
    /\ contact' = contact \union {<<x, y>>}
    /\ UNCHANGED <<active, default, allows, joined>>

\* An allow rule of g for the caller is made or removed.
Allow(g) ==
    /\ Change
    /\ allows' = (allows \ {g}) \union ({g} \ allows)
    /\ UNCHANGED <<active, default, contact, joined>>

\* The caller is taken into a Task, or leaves it.
Participate(k) ==
    /\ Change
    /\ joined' = (joined \ {k}) \union ({k} \ joined)
    /\ UNCHANGED <<active, default, contact, allows>>

-----------------------------------------------------------------------------
(* The caller's scope.                                                     *)

Family == {Caller} \union {g \in Agents : OwnerOf[g] # NoOne /\ OwnerOf[g] = OwnerOf[Caller]}

\* _related_agent_ids.
Related ==
    Family \union allows
           \union {g \in Agents : \E f \in Family : <<f, g>> \in contact \/ <<g, f>> \in contact}

\* _candidate_contexts.
Scope == Related \intersect active

Ask(pc, t) ==
    /\ asked = NotAsking
    /\ asked' = [pc |-> pc, text |-> t, scope |-> IF pc = "search" THEN Related ELSE Scope]
    /\ answer' = NoAnswer
    /\ UNCHANGED <<active, default, contact, allows, joined, changes>>

-----------------------------------------------------------------------------
(* The readings of a text t, given the scope s read for it.                *)

\* The first of the sets in ss that is not empty, the last one otherwise.
FirstOf(ss) ==
    ss[CHOOSE i \in DOMAIN ss : /\ ss[i] # {} \/ i = Len(ss)
                                /\ \A j \in 1..(i - 1) : ss[j] = {}]

\* _owned_human_contexts.
Owned(h) == {g \in active : OwnerOf[g] = h}

\* _query_mentions_agent_type.
Typed(cs, t) == {g \in cs : TypeOf[g] \in t.types}

\* _handle_tokens, matched against Agent.handle: a type word is a token too.
HandlesIn(t) == t.handles \union {g \in Agents : TypeHandle[g] \in t.types}

\* _select_targeted_contexts.
Targeted(h, cs, t) ==
    FirstOf(<<Typed(cs, t), cs \intersect (HandlesIn(t) \union t.titles), cs \intersect {default[h]}>>)

\* _contexts_for_targeted_human, of several.
OfHumans(hs, t) == UNION {Targeted(h, Owned(h), t) : h \in hs}

OwnersOf(gs) == {OwnerOf[g] : g \in gs} \ {NoOne}

\* _default_human_context.
DefaultOf(h) == Owned(h) \intersect {default[h]}

NamedHumans(t) == t.usernames \union t.names \union t.short

\* _fuzzy_human_contexts.
LikelyHumans(t) ==
    UNION {DefaultOf(h) : h \in {x \in NamedHumans(t) \union t.like : default[x] # NoOne}}

\* The owner_matches of resolve_recipient: handled, typed, named, or all.
OwnerMatches(t, s) ==
    LET ms == {g \in s : OwnerOf[g] \in t.usernames \union t.names \union t.short}
    IN  FirstOf(<<ms \intersect t.handles, Typed(ms, t), ms \intersect t.titles, ms>>)

Reading(applies, agents, kind) == [applies |-> applies, agents |-> agents, kind |-> kind]

ByAddress(t) == Reading(t.address # NoOne, {t.address} \intersect active, "exact")

ByUsername(t) == Reading(t.usernames # {}, OfHumans(t.usernames, t), "human")

ByKnownName(t, s) ==
    LET hs == OwnersOf(s) \intersect t.names
    IN  Reading(hs # {},
                UNION {Targeted(h, {g \in s : OwnerOf[g] = h}, t) : h \in hs},
                "human")

ByName(t) ==
    LET hs == {h \in t.names : default[h] # NoOne}
    IN  Reading(hs # {}, OfHumans(hs, t), "human")

ByWholeHandle(t) ==
    LET gs == HandlesIn(t) \intersect active
    IN  Reading(t.whole = "handle" /\ gs # {}, gs, "exact")

ByWholeTitle(t, s) ==
    LET gs == t.titles \intersect s
    IN  Reading(t.whole = "title" /\ gs # {}, gs, "human")

ByOwner(t, s) == Reading(OwnerMatches(t, s) # {}, OwnerMatches(t, s), "human")

\* _looks_like_human_agent_query.
Possessive(t) == t.possessive

\* It asks for someone's Agent, and nobody of that name was found.
ByPossessor(t) == Reading(Possessive(t), LikelyHumans(t), "likely")

ByHandle(t) ==
    LET gs == HandlesIn(t) \intersect active
    IN  Reading(gs # {}, gs, "exact")

ByLikelyHuman(t) == Reading(LikelyHumans(t) # {}, LikelyHumans(t), "likely")

ByLikeness(t, s) ==
    Reading(TRUE, s \intersect (t.alike \union HandlesIn(t) \union t.titles \union Typed(s, t)), "human")

Readings(t, s) ==
    <<ByAddress(t), ByUsername(t), ByKnownName(t, s), ByName(t), ByWholeHandle(t),
      ByWholeTitle(t, s), ByOwner(t, s), ByPossessor(t), ByHandle(t), ByLikelyHuman(t),
      ByLikeness(t, s)>>

FirstReading(rs) ==
    rs[CHOOSE i \in DOMAIN rs : rs[i].applies /\ \A j \in 1..(i - 1) : ~rs[j].applies]

HandleBeforePossessor(t, s) ==  \* mutant: a handle is tried before the owner
    FirstReading(<<ByAddress(t), ByUsername(t), ByKnownName(t, s), ByName(t), ByWholeHandle(t),
                   ByWholeTitle(t, s), ByOwner(t, s), ByHandle(t), ByPossessor(t),
                   ByLikelyHuman(t), ByLikeness(t, s)>>)

Understood(t, s) == FirstReading(Readings(t, s))

\* _resolution and _clarification_resolution: a likeness of Humans is only ever
\* a suggestion.
StatusFor(r) ==
    IF r.agents = {} THEN "not_found"
    ELSE IF Cardinality(r.agents) = 1 /\ r.kind # "likely" THEN "resolved"
    ELSE "needs_clarification"

\* _context_for_exact_agent: an Agent found by its own name shows its Human
\* only inside the scope.
OwnersShown(r, s) == IF r.kind = "exact" THEN r.agents \intersect s ELSE r.agents

\* resolve_recipient, after the scope.
Resolve ==
    /\ asked.pc = "resolve"
    /\ LET r == Understood(asked.text, asked.scope)
       IN  answer' = [NoAnswer EXCEPT !.status = StatusFor(r), !.agents = r.agents,
                                      !.owners = OwnersShown(r, asked.scope)]
    /\ asked' = NotAsking
    /\ UNCHANGED <<active, default, contact, allows, joined, changes>>

\* search_directory, after the scope: the text occurs in the Agent's address,
\* display name or description.
Search ==
    /\ asked.pc = "search"
    /\ answer' = [NoAnswer EXCEPT !.status = "listed",
                      !.agents = asked.scope \intersect active
                                    \intersect (asked.text.handles \union asked.text.titles)]
    /\ asked' = NotAsking
    /\ UNCHANGED <<active, default, contact, allows, joined, changes>>

\* resolve_task_for_agent, one statement: only a title given in full, and only
\* if one of the caller's Tasks has it, names a Task.
TitleStatus(exact, partial) ==
    IF Cardinality(exact) = 1 THEN "resolved"
    ELSE IF exact \union partial # {} THEN "needs_clarification" ELSE "not_found"

ResolveTask(t) ==
    /\ asked = NotAsking
    /\ LET exact   == joined \intersect t.titled
           partial == joined \intersect t.partly
       IN  answer' = [NoAnswer EXCEPT !.status = TitleStatus(exact, partial),
                                      !.tasks = IF exact = {} THEN partial ELSE exact]
    /\ UNCHANGED <<active, default, contact, allows, joined, asked, changes>>

-----------------------------------------------------------------------------
RecipientsNext ==
    \/ \E h \in Humans, g \in Agents : ChooseDefault(h, g)
    \/ \E g \in Agents : Disable(g) \/ Allow(g)
    \/ \E x, y \in Agents : Exchange(x, y)
    \/ \E pc \in {"resolve", "search"}, t \in Texts : Ask(pc, t)
    \/ Resolve
    \/ Search
    \/ \E k \in TitledTasks : Participate(k)
    \/ \E t \in Texts : ResolveTask(t)

RecipientsSpec == RecipientsInit /\ [][RecipientsNext]_recipientVars

-----------------------------------------------------------------------------
(* Properties.                                                             *)

\* The Agent a text is resolved to is one the text means, whatever is committed
\* while it is read: an Agent still active when the scope was read or after it;
\* an Agent of a Human the text names by username; never, in "someone's Codex",
\* an Agent of somebody else whose handle happens to be "codex"; and, outside
\* the caller's scope, only an Agent named by address or handle or an Agent of
\* a Human who is named: a likeness is not made a recipient there.
Meant(g, t, s) ==
    /\ g \in active \union s
    /\ t.address = NoOne =>
        /\ t.usernames # {} => OwnerOf[g] \in t.usernames
        /\ t.possessive /\ t.whole = "no" => OwnerOf[g] \in NamedHumans(t)
    /\ g \in s \/ g = t.address \/ g \in HandlesIn(t) \/ OwnerOf[g] \in NamedHumans(t)

AnswerNamed ==
    [][answer' # answer /\ answer'.status = "resolved" =>
          \A g \in answer'.agents : Meant(g, asked.text, asked.scope)]_recipientVars

\* "resolves a Human or Agent target without guessing" (integrations/mcp
\* README.md): the Agent of a Human asked for by its type has that type.
TypeKept ==
    [][answer' # answer /\ answer'.status = "resolved" /\ asked.text.usernames # {} /\ asked.text.types # {} =>
          \A g \in answer'.agents : TypeOf[g] \in asked.text.types]_recipientVars
=============================================================================

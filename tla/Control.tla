------------------------------ MODULE Control ------------------------------
(***************************************************************************)
(* Who may act for an Agent, and the approvals its Humans give it:         *)
(* control/service.py (access, default Agent, deletion),                   *)
(* control/approval_service.py and control/human_security.py.              *)
(*                                                                         *)
(* A Human's request first loads its user while it authenticates; the       *)
(* service then works with that copy.  A decision holds the Human's row and *)
(* then the approval's row until it commits.                               *)
(***************************************************************************)
EXTENDS Naturals, FiniteSets

CONSTANTS
  Humans, Agents,
  Approvals,    \* ApprovalRequests that may be made
  RequesterOf,  \* Approvals -> Agents
  Sessions,     \* requests in flight at once
  NoHuman, NoAgent, NoApproval

ASSUME ControlAssumption ==
  /\ RequesterOf \in [Approvals -> Agents]
  /\ NoHuman \notin Humans /\ NoAgent \notin Agents /\ NoApproval \notin Approvals

Verdicts == {"approved", "rejected"}
GrantRoles == {"operator", "auditor"}

VARIABLES
  owner,     \* AgentOwnership: the Human, or nobody
  grant,     \* HumanAgentGrant.role
  deleted,   \* Agents with status "disabled"
  default,   \* HumanUser.default_agent_id
  status,    \* ApprovalRequest.status
  late,      \* approvals whose expires_at has passed
  decision,  \* ApprovalDecision of an approval
  token,     \* confirmation of a Human for a verdict on an approval
  tx         \* requests in flight

vars == <<owner, grant, deleted, default, status, late, decision, token, tx>>
access == <<owner, grant, deleted, default>>
approvals == <<status, late, decision, token>>

NoDecision == [by |-> NoHuman, verdict |-> "none"]
Decisions == {NoDecision} \cup [by : Humans, verdict : Verdicts]
Statuses == {"absent", "pending", "approved", "rejected", "cancelled", "expired"}
Idle == [op |-> "idle", h |-> NoHuman, a |-> NoAgent, role |-> "none",
         seen |-> NoAgent, r |-> NoApproval, v |-> "none"]
Requests == [op : {"idle", "set_default", "delete", "grant", "revoke", "decide", "authorised"},
             h : Humans \cup {NoHuman}, a : Agents \cup {NoAgent},
             role : GrantRoles \cup {"owner", "none"}, seen : Agents \cup {NoAgent},
             r : Approvals \cup {NoApproval}, v : Verdicts \cup {"none"}]

TypeOK ==
  /\ owner \in [Agents -> Humans \cup {NoHuman}]
  /\ grant \in [Humans -> [Agents -> GrantRoles \cup {"none"}]]
  /\ deleted \in SUBSET Agents
  /\ default \in [Humans -> Agents \cup {NoAgent}]
  /\ status \in [Approvals -> Statuses]
  /\ late \in SUBSET Approvals
  /\ decision \in [Approvals -> Decisions]
  /\ token \in [Humans -> [Verdicts -> [Approvals -> {"none", "issued", "consumed"}]]]
  /\ tx \in [Sessions -> Requests]

Init ==
  /\ owner \in [Agents -> Humans]
  /\ grant = [h \in Humans |-> [a \in Agents |-> "none"]]
  /\ deleted = {}
  /\ default \in [Humans -> Agents \cup {NoAgent}]
  /\ \A h \in Humans : LET mine == {a \in Agents : owner[a] = h} IN
       IF mine = {} THEN default[h] = NoAgent ELSE default[h] \in mine
  /\ status = [r \in Approvals |-> "absent"]
  /\ late = {}
  /\ decision = [r \in Approvals |-> NoDecision]
  /\ token = [h \in Humans |-> [v \in Verdicts |-> [r \in Approvals |-> "none"]]]
  /\ tx = [s \in Sessions |-> Idle]

-----------------------------------------------------------------------------
(* Rows held, roles, and the default Agent.                                *)

HumanFree(s, h) ==
  \A t \in Sessions \ {s} : ~(tx[t].op \in {"decide", "authorised"} /\ tx[t].h = h)
ApprovalNeverHeld(r) == TRUE
ApprovalFree(r) == \A t \in Sessions : ~(tx[t].op = "authorised" /\ tx[t].r = r)

\* list_agent_access: owner before grant
RoleOf(h, a) == IF owner[a] = h THEN "owner" ELSE grant[h][a]
MayDecide(h, r) == RoleOf(h, RequesterOf[r]) \in {"owner", "operator"}

ActiveOwned(h, own, gone) == {a \in Agents : own[a] = h /\ a \notin gone}

\* ensure_human_default_agent, called with a user whose default was loaded as
\* seen: the values the row may have afterwards.  An assignment of the loaded
\* value writes nothing.  Which Agent replaces the default is left open.
EnsureDefault(h, seen, own, gone) ==
  LET mine == ActiveOwned(h, own, gone) IN
  IF seen \in mine THEN {default[h]}
  ELSE IF mine # {} THEN mine
  ELSE IF seen = NoAgent THEN {default[h]} ELSE {NoAgent}

-----------------------------------------------------------------------------
(* Access.  The Agent's row is locked, so one change of an Agent commits    *)
(* after the other; the user was loaded before.                            *)

LoadUser(s, op, h, a, role) ==
  /\ tx[s].op = "idle"
  /\ tx' = [tx EXCEPT ![s] = [Idle EXCEPT !.op = op, !.h = h, !.a = a,
                                           !.role = role, !.seen = default[h]]]
  /\ UNCHANGED access /\ UNCHANGED approvals

Answer(s) == tx' = [tx EXCEPT ![s] = Idle]

\* set_human_default_agent
SetDefault(s) ==
  LET h == tx[s].h  a == tx[s].a IN
  /\ tx[s].op = "set_default" /\ HumanFree(s, h)
  /\ owner[a] = h /\ a \notin deleted
  /\ default' = [default EXCEPT ![h] = IF tx[s].seen = a THEN @ ELSE a]
  /\ Answer(s)
  /\ UNCHANGED <<owner, grant, deleted>> /\ UNCHANGED approvals

\* disable_owned_agent
DeleteAgent(s) ==
  LET h == tx[s].h  a == tx[s].a  gone == deleted \cup {a} IN
  /\ tx[s].op = "delete" /\ HumanFree(s, h)
  /\ owner[a] = h /\ a \notin deleted
  /\ deleted' = gone
  /\ \E d \in EnsureDefault(h, tx[s].seen, owner, gone) :
       default' = [default EXCEPT ![h] = d]
  /\ Answer(s)
  /\ UNCHANGED <<owner, grant>> /\ UNCHANGED approvals

\* The Human's grant for the Agent is deleted.
GrantKept(h, a) == grant
Ungranted(h, a) == [grant EXCEPT ![h][a] = "none"]

\* grant_agent_access with role "owner": the new owner's grant is deleted, both
\* owners' default Agents are re-examined, the previous owner's freshly loaded.
GrantOwner(s) ==
  LET h == tx[s].h  a == tx[s].a  previous == owner[a]
      own == [owner EXCEPT ![a] = h] IN
  /\ tx[s].op = "grant" /\ tx[s].role = "owner" /\ HumanFree(s, h)
  /\ owner' = own
  /\ grant' = Ungranted(h, a)
  /\ \E d \in EnsureDefault(h, tx[s].seen, own, deleted) :
       IF previous \in Humans \ {h}
       THEN /\ HumanFree(s, previous)
            /\ \E e \in EnsureDefault(previous, default[previous], own, deleted) :
                 default' = [default EXCEPT ![h] = d, ![previous] = e]
       ELSE default' = [default EXCEPT ![h] = d]
  /\ Answer(s)
  /\ UNCHANGED deleted /\ UNCHANGED approvals

\* What a Human gives up with the ownership of Agent a.
DropOwnership(s, h, a) ==
  IF owner[a] = h
  THEN LET own == [owner EXCEPT ![a] = NoHuman] IN
       /\ HumanFree(s, h)
       /\ owner' = own
       /\ \E d \in EnsureDefault(h, tx[s].seen, own, deleted) :
            default' = [default EXCEPT ![h] = d]
  ELSE UNCHANGED <<owner, default>>

GrantRole(s) ==
  LET h == tx[s].h  a == tx[s].a IN
  /\ tx[s].op = "grant" /\ tx[s].role \in GrantRoles
  /\ DropOwnership(s, h, a)
  /\ grant' = [grant EXCEPT ![h][a] = tx[s].role]
  /\ Answer(s)
  /\ UNCHANGED deleted /\ UNCHANGED approvals

\* revoke_agent_access
RevokeAccess(s) ==
  LET h == tx[s].h  a == tx[s].a IN
  /\ tx[s].op = "revoke" /\ RoleOf(h, a) # "none"
  /\ DropOwnership(s, h, a)
  /\ grant' = Ungranted(h, a)
  /\ Answer(s)
  /\ UNCHANGED deleted /\ UNCHANGED approvals

-----------------------------------------------------------------------------
(* Approvals.  A creation or decision repeated with its key is answered    *)
(* from the recorded row and changes nothing.                              *)

CreateApproval(r) ==
  /\ status[r] = "absent" /\ RequesterOf[r] \notin deleted
  /\ status' = [status EXCEPT ![r] = "pending"]
  /\ UNCHANGED <<late, decision, token, tx>> /\ UNCHANGED access

PassExpiry(r) ==
  /\ status[r] = "pending" /\ r \notin late
  /\ late' = late \cup {r}
  /\ UNCHANGED <<status, decision, token, tx>> /\ UNCHANGED access

\* authorize_human_approval_decision and the Agent's cancellation both record
\* an expiry they find, under the approval's lock.
RecordExpiry(r) ==
  /\ status[r] = "pending" /\ r \in late /\ ApprovalFree(r)
  /\ status' = [status EXCEPT ![r] = "expired"]
  /\ UNCHANGED <<late, decision, token, tx>> /\ UNCHANGED access

CancelApproval(r) ==
  /\ status[r] = "pending" /\ r \notin late /\ ApprovalFree(r)
  /\ RequesterOf[r] \notin deleted
  /\ status' = [status EXCEPT ![r] = "cancelled"]
  /\ UNCHANGED <<late, decision, token, tx>> /\ UNCHANGED access

\* create_human_confirmation, for one verdict of one Human on one approval
CreateConfirmation(h, v, r) ==
  /\ MayDecide(h, r) /\ status[r] = "pending" /\ r \notin late /\ ApprovalFree(r)
  /\ token' = [token EXCEPT ![h][v][r] = "issued"]
  /\ UNCHANGED <<status, late, decision, tx>> /\ UNCHANGED access

\* decide_human_approval_request locks the Human's row ...
DecideBegin(s, h, v, r) ==
  /\ tx[s].op = "idle" /\ HumanFree(s, h)
  /\ tx' = [tx EXCEPT ![s] = [Idle EXCEPT !.op = "decide", !.h = h, !.v = v, !.r = r]]
  /\ UNCHANGED access /\ UNCHANGED approvals

\* ... then the approval's, checks the role, the state and the confirmation ...
Authorise(s) ==
  LET h == tx[s].h  v == tx[s].v  r == tx[s].r IN
  /\ tx[s].op = "decide" /\ ApprovalFree(r)
  /\ MayDecide(h, r) /\ status[r] = "pending" /\ r \notin late
  /\ token[h][v][r] = "issued"
  /\ tx' = [tx EXCEPT ![s].op = "authorised"]
  /\ UNCHANGED access /\ UNCHANGED approvals

\* consume_human_confirmation
ConfirmationKept(h, v, r) == token
Consumed(h, v, r) == [token EXCEPT ![h][v][r] = "consumed"]

\* ... and commits the decision, the status and the used confirmation together.
Decide(s) ==
  LET h == tx[s].h  v == tx[s].v  r == tx[s].r IN
  /\ tx[s].op = "authorised"
  /\ status' = [status EXCEPT ![r] = v]
  /\ decision' = [decision EXCEPT ![r] = [by |-> h, verdict |-> v]]
  /\ token' = Consumed(h, v, r)
  /\ Answer(s)
  /\ UNCHANGED late /\ UNCHANGED access

\* A refusal, a constraint violation or a lost process: rolled back.
Abort(s) ==
  /\ tx[s].op # "idle" /\ Answer(s)
  /\ UNCHANGED access /\ UNCHANGED approvals

-----------------------------------------------------------------------------
Next ==
  \/ \E s \in Sessions :
       \/ \E h \in Humans, a \in Agents :
            \/ \E op \in {"set_default", "delete", "revoke"} : LoadUser(s, op, h, a, "none")
            \/ \E role \in GrantRoles \cup {"owner"} : LoadUser(s, "grant", h, a, role)
       \/ SetDefault(s) \/ DeleteAgent(s)
       \/ GrantOwner(s) \/ GrantRole(s) \/ RevokeAccess(s)
       \/ \E h \in Humans, v \in Verdicts, r \in Approvals : DecideBegin(s, h, v, r)
       \/ Authorise(s) \/ Decide(s) \/ Abort(s)
  \/ \E r \in Approvals :
       \/ CreateApproval(r) \/ PassExpiry(r) \/ RecordExpiry(r) \/ CancelApproval(r)
       \/ \E h \in Humans, v \in Verdicts : CreateConfirmation(h, v, r)

Spec == Init /\ [][Next]_vars

-----------------------------------------------------------------------------
(* Properties.                                                             *)

\* Nobody holds an Agent's role twice: an owner has no grant beside it, in
\* whatever order grants, revocations and transfers of ownership commit.
OneRole == \A a \in Agents, h \in Humans : owner[a] = h => grant[h][a] = "none"

\* An approval carries a verdict exactly when one Human's decision is recorded
\* for it, and a decision in flight holds an approval that is still undecided.
DecisionMatches ==
  /\ \A r \in Approvals : status[r] \in Verdicts <=> decision[r] # NoDecision
  /\ \A r \in Approvals : decision[r] # NoDecision => decision[r].verdict = status[r]

\* What the requests in flight rely on, with the types.
ControlInv ==
  /\ TypeOK
  /\ \A s \in Sessions : tx[s].op \in {"decide", "authorised"} =>
       tx[s].h \in Humans /\ tx[s].v \in Verdicts /\ tx[s].r \in Approvals
  /\ \A s \in Sessions : tx[s].op \notin {"idle", "decide", "authorised"} =>
       tx[s].h \in Humans /\ tx[s].a \in Agents
  /\ \A s \in Sessions : tx[s].op = "authorised" =>
       /\ status[tx[s].r] = "pending"
       /\ token[tx[s].h][tx[s].v][tx[s].r] = "issued"
  /\ \A s, t \in Sessions :
       tx[s].op = "authorised" /\ tx[t].op = "authorised" /\ tx[s].r = tx[t].r => s = t
  /\ OneRole /\ DecisionMatches

\* A decided, cancelled or expired approval never changes again, whichever of a
\* decision, a cancellation and the expiry came first.
AnswerFinal ==
  [][\A r \in Approvals : status[r] \notin {"absent", "pending"} =>
       status'[r] = status[r] /\ decision'[r] = decision[r]]_vars

\* A confirmation is used up exactly by the step that records the decision it
\* was given for: a failed decision leaves it usable.
ConfirmationSpent ==
  [][\A h \in Humans, v \in Verdicts, r \in Approvals :
       token[h][v][r] = "issued" /\ token'[h][v][r] = "consumed" <=>
       decision[r] = NoDecision /\ decision'[r] = [by |-> h, verdict |-> v]]_vars

\* An approval is decided at most once, for good, and that spends what it cost.
DecidedOnce == AnswerFinal /\ ConfirmationSpent

\* "Keep a Human's default Agent pointed at an active Agent they own"
\* (docstring of ensure_human_default_agent).
DefaultOwned ==
  \A h \in Humans : default[h] # NoAgent => default[h] \in ActiveOwned(h, owner, deleted)
=============================================================================

---------------------------- MODULE ControlProofs ----------------------------
(***************************************************************************)
(* Theorems of Control and of Accounts.                                    *)
(*                                                                         *)
(* Control: the invariant of access and approvals, and that an approval is  *)
(* decided once.  The access of Agents and the answers of approvals are     *)
(* changed by different actions; what one half of the invariant says does   *)
(* not depend on the rows of the other, except for the request in flight.   *)
(*                                                                         *)
(* Accounts: the wrong codes of a challenge are counted, and a challenge is *)
(* spent once.  Both rest on the lock of the challenge's row: who holds it  *)
(* is alone and has read it as it is.                                      *)
(***************************************************************************)
EXTENDS Control, Accounts, TLAPS

\* What the requests in flight are about.
RequestsNamed ==
  /\ \A s \in Sessions : tx[s].op \in {"decide", "authorised"} =>
       tx[s].h \in Humans /\ tx[s].v \in Verdicts /\ tx[s].r \in Approvals
  /\ \A s \in Sessions : tx[s].op \notin {"idle", "decide", "authorised"} =>
       tx[s].h \in Humans /\ tx[s].a \in Agents

\* A decision that passed its checks still may be made, and it alone.
DecisionsHeld ==
  /\ \A s \in Sessions : tx[s].op = "authorised" =>
       /\ status[tx[s].r] = "pending"
       /\ token[tx[s].h][tx[s].v][tx[s].r] = "issued"
  /\ \A s, t \in Sessions :
       tx[s].op = "authorised" /\ tx[t].op = "authorised" /\ tx[s].r = tx[t].r => s = t

LEMMA InvParts ==
  ControlInv <=> TypeOK /\ RequestsNamed /\ DecisionsHeld /\ OneRole /\ DecisionMatches
BY DEF ControlInv, RequestsNamed, DecisionsHeld

-----------------------------------------------------------------------------
(* A request that ends leaves the others as they are.                      *)

LEMMA AnswerKeeps ==
  ASSUME TypeOK, NEW s \in Sessions, Answer(s)
  PROVE  /\ tx' \in [Sessions -> Requests]
         /\ tx'[s] = Idle
         /\ \A t \in Sessions \ {s} : tx'[t] = tx[t]
BY DEF TypeOK, Answer, Requests, Idle

\* An access command: it ends its request and leaves the approvals.
LEMMA AccessStep ==
  ASSUME ControlInv, NEW s \in Sessions, Answer(s), UNCHANGED approvals,
         owner' \in [Agents -> Humans \cup {NoHuman}],
         grant' \in [Humans -> [Agents -> GrantRoles \cup {"none"}]],
         deleted' \in SUBSET Agents,
         default' \in [Humans -> Agents \cup {NoAgent}],
         OneRole'
  PROVE  ControlInv'
<1>1. /\ tx' \in [Sessions -> Requests]
      /\ tx'[s] = Idle
      /\ \A t \in Sessions \ {s} : tx'[t] = tx[t]
  BY AnswerKeeps DEF ControlInv
<1>2. tx'[s].op = "idle"
  BY <1>1 DEF Idle
<1>3. TypeOK'
  BY <1>1 DEF ControlInv, TypeOK, approvals
<1>4. RequestsNamed'
  BY <1>1, <1>2 DEF ControlInv, RequestsNamed
<1>5. DecisionsHeld'
  BY <1>1, <1>2 DEF ControlInv, DecisionsHeld, approvals
<1>6. DecisionMatches'
  BY DEF ControlInv, DecisionMatches, approvals
<1> QED BY <1>3, <1>4, <1>5, <1>6, InvParts, PTL

\* The default Agent is one of the Human's, or the earlier one, or none.
LEMMA DefaultTyped ==
  ASSUME TypeOK, NEW h \in Humans, NEW seen \in Agents \cup {NoAgent},
         NEW own, NEW gone, NEW d \in EnsureDefault(h, seen, own, gone)
  PROVE  d \in Agents \cup {NoAgent}
BY DEF TypeOK, EnsureDefault, ActiveOwned

LEMMA SeenTyped ==
  ASSUME TypeOK, NEW s \in Sessions
  PROVE  tx[s].seen \in Agents \cup {NoAgent}
BY DEF TypeOK, Requests

LEMMA UngrantedTyped ==
  ASSUME TypeOK, NEW h \in Humans, NEW a \in Agents
  PROVE  /\ Ungranted(h, a) \in [Humans -> [Agents -> GrantRoles \cup {"none"}]]
         /\ Ungranted(h, a)[h][a] = "none"
         /\ \A i \in Humans, b \in Agents :
              i # h \/ b # a => Ungranted(h, a)[i][b] = grant[i][b]
BY DEF TypeOK, Ungranted

\* Giving up an ownership leaves the Agent to nobody.
LEMMA OwnershipDropped ==
  ASSUME TypeOK, ControlAssumption, NEW s \in Sessions, NEW h \in Humans, NEW a \in Agents,
         DropOwnership(s, h, a)
  PROVE  /\ owner' \in [Agents -> Humans \cup {NoHuman}]
         /\ default' \in [Humans -> Agents \cup {NoAgent}]
         /\ owner'[a] # h
         /\ \A b \in Agents : owner'[b] = owner[b] \/ owner'[b] = NoHuman
<1>1. CASE owner[a] = h
  <2>1. owner' = [owner EXCEPT ![a] = NoHuman]
    BY <1>1 DEF DropOwnership
  <2>2. PICK d \in EnsureDefault(h, tx[s].seen, owner', deleted) :
          default' = [default EXCEPT ![h] = d]
    BY <1>1, <2>1 DEF DropOwnership
  <2>3. d \in Agents \cup {NoAgent}
    BY <2>2, SeenTyped, DefaultTyped
  <2> QED BY <2>1, <2>2, <2>3 DEF TypeOK, ControlAssumption
<1>2. CASE owner[a] # h
  BY <1>2 DEF DropOwnership, TypeOK
<1> QED BY <1>1, <1>2

-----------------------------------------------------------------------------
(* Access.                                                                 *)

LEMMA LoadUserKeeps ==
  ASSUME ControlInv, NEW s \in Sessions, NEW h \in Humans, NEW a \in Agents,
         NEW op \in {"set_default", "delete", "revoke", "grant"},
         NEW role \in GrantRoles \cup {"owner", "none"}, LoadUser(s, op, h, a, role)
  PROVE  ControlInv'
<1> DEFINE new == [Idle EXCEPT !.op = op, !.h = h, !.a = a, !.role = role, !.seen = default[h]]
<1>1. tx' = [tx EXCEPT ![s] = new]
  BY DEF LoadUser
<1>2. new \in Requests /\ new.op = op /\ new.h = h /\ new.a = a
  BY DEF ControlInv, TypeOK, Requests, Idle
<1>3. tx'[s] = new /\ \A t \in Sessions \ {s} : tx'[t] = tx[t]
  BY <1>1 DEF ControlInv, TypeOK
<1> HIDE DEF new
<1>4. TypeOK'
  BY <1>1, <1>2 DEF ControlInv, TypeOK, LoadUser, access, approvals
<1>5. RequestsNamed'
  BY <1>2, <1>3 DEF ControlInv, RequestsNamed
<1>6. DecisionsHeld'
  BY <1>2, <1>3 DEF ControlInv, DecisionsHeld, LoadUser, approvals
<1>7. OneRole' /\ DecisionMatches'
  BY DEF ControlInv, OneRole, DecisionMatches, LoadUser, access, approvals
<1> QED BY <1>4, <1>5, <1>6, <1>7, InvParts, PTL

LEMMA SetDefaultKeeps ==
  ASSUME ControlInv, NEW s \in Sessions, SetDefault(s)
  PROVE  ControlInv'
<1>1. tx[s].h \in Humans /\ tx[s].a \in Agents
  BY DEF ControlInv, SetDefault
<1>2. default' \in [Humans -> Agents \cup {NoAgent}]
  BY <1>1 DEF ControlInv, TypeOK, SetDefault
<1>3. OneRole'
  BY DEF ControlInv, OneRole, SetDefault
<1> QED BY <1>2, <1>3, AccessStep DEF SetDefault, ControlInv, TypeOK

LEMMA DeleteAgentKeeps ==
  ASSUME ControlInv, NEW s \in Sessions, DeleteAgent(s)
  PROVE  ControlInv'
<1>1. tx[s].h \in Humans /\ tx[s].a \in Agents
  BY DEF ControlInv, DeleteAgent
<1>2. PICK d \in EnsureDefault(tx[s].h, tx[s].seen, owner, deleted \cup {tx[s].a}) :
        default' = [default EXCEPT ![tx[s].h] = d]
  BY DEF DeleteAgent
<1>3. d \in Agents \cup {NoAgent}
  BY <1>1, <1>2, SeenTyped, DefaultTyped DEF ControlInv
<1>4. default' \in [Humans -> Agents \cup {NoAgent}]
  BY <1>1, <1>2, <1>3 DEF ControlInv, TypeOK
<1>5. OneRole' /\ deleted' \in SUBSET Agents
  BY <1>1 DEF ControlInv, TypeOK, OneRole, DeleteAgent
<1> QED BY <1>4, <1>5, AccessStep DEF DeleteAgent, ControlInv, TypeOK

LEMMA GrantOwnerKeeps ==
  ASSUME ControlInv, NEW s \in Sessions, GrantOwner(s)
  PROVE  ControlInv'
<1> DEFINE h == tx[s].h  a == tx[s].a  previous == owner[a]
           own == [owner EXCEPT ![a] = h]
<1>1. h \in Humans /\ a \in Agents
  BY DEF ControlInv, GrantOwner
<1>2. owner' = own /\ own \in [Agents -> Humans \cup {NoHuman}]
  BY <1>1 DEF ControlInv, TypeOK, GrantOwner
<1>3. default' \in [Humans -> Agents \cup {NoAgent}]
  <2>1. PICK d \in EnsureDefault(h, tx[s].seen, own, deleted) :
          IF previous \in Humans \ {h}
          THEN \E e \in EnsureDefault(previous, default[previous], own, deleted) :
                 default' = [default EXCEPT ![h] = d, ![previous] = e]
          ELSE default' = [default EXCEPT ![h] = d]
    BY DEF GrantOwner
  <2>2. d \in Agents \cup {NoAgent}
    BY <1>1, <2>1, SeenTyped, DefaultTyped DEF ControlInv
  <2>3. CASE previous \in Humans \ {h}
    <3>1. PICK e \in EnsureDefault(previous, default[previous], own, deleted) :
            default' = [default EXCEPT ![h] = d, ![previous] = e]
      BY <2>1, <2>3
    <3>2. e \in Agents \cup {NoAgent}
      <4>1. previous \in Humans /\ default[previous] \in Agents \cup {NoAgent}
        BY <2>3 DEF ControlInv, TypeOK
      <4>2. TypeOK
        BY DEF ControlInv
      <4> HIDE DEF previous, own
      <4> QED BY <3>1, <4>1, <4>2, DefaultTyped
    <3> QED BY <1>1, <2>2, <2>3, <3>1, <3>2 DEF ControlInv, TypeOK
  <2>4. CASE previous \notin Humans \ {h}
    BY <1>1, <2>1, <2>2, <2>4 DEF ControlInv, TypeOK
  <2> QED BY <2>3, <2>4
<1>4. grant' = Ungranted(h, a)
  BY DEF GrantOwner
<1>5. OneRole'
  <2>1. \A b \in Agents, i \in Humans : own[b] = i => Ungranted(h, a)[i][b] = "none"
    BY <1>1, UngrantedTyped DEF ControlInv, TypeOK, OneRole
  <2> QED BY <1>2, <1>4, <2>1 DEF OneRole
<1>6. grant' \in [Humans -> [Agents -> GrantRoles \cup {"none"}]]
  BY <1>1, <1>4, UngrantedTyped DEF ControlInv
<1>7. owner' \in [Agents -> Humans \cup {NoHuman}]
  BY <1>2
<1>8. Answer(s) /\ UNCHANGED approvals /\ deleted' \in SUBSET Agents
  BY DEF GrantOwner, ControlInv, TypeOK
<1> QED BY <1>3, <1>5, <1>6, <1>7, <1>8, AccessStep

LEMMA GrantRoleKeeps ==
  ASSUME ControlInv, NEW s \in Sessions, GrantRole(s)
  PROVE  ControlInv'
<1> DEFINE h == tx[s].h  a == tx[s].a
<1>1. h \in Humans /\ a \in Agents /\ tx[s].role \in GrantRoles
  BY DEF ControlInv, GrantRole
<1>2. /\ owner' \in [Agents -> Humans \cup {NoHuman}]
      /\ default' \in [Humans -> Agents \cup {NoAgent}]
      /\ owner'[a] # h
      /\ \A b \in Agents : owner'[b] = owner[b] \/ owner'[b] = NoHuman
  BY <1>1, OwnershipDropped, ControlAssumption DEF GrantRole, ControlInv
<1>3. grant' = [grant EXCEPT ![h][a] = tx[s].role]
  BY DEF GrantRole
<1>4. grant' \in [Humans -> [Agents -> GrantRoles \cup {"none"}]]
  BY <1>1, <1>3 DEF ControlInv, TypeOK
<1>5. OneRole'
  <2> SUFFICES ASSUME NEW b \in Agents, NEW i \in Humans, owner'[b] = i
               PROVE  grant'[i][b] = "none"
    BY DEF OneRole
  <2>1. owner[b] = i
    BY <1>2, ControlAssumption DEF ControlAssumption
  <2>2. i # h \/ b # a
    BY <1>2
  <2>3. grant'[i][b] = grant[i][b]
    BY <1>1, <1>3, <2>2 DEF ControlInv, TypeOK
  <2> QED BY <2>1, <2>3 DEF ControlInv, OneRole
<1> QED BY <1>2, <1>4, <1>5, AccessStep DEF GrantRole, ControlInv, TypeOK

LEMMA RevokeAccessKeeps ==
  ASSUME ControlInv, NEW s \in Sessions, RevokeAccess(s)
  PROVE  ControlInv'
<1> DEFINE h == tx[s].h  a == tx[s].a
<1>1. h \in Humans /\ a \in Agents
  BY DEF ControlInv, RevokeAccess
<1>2. /\ owner' \in [Agents -> Humans \cup {NoHuman}]
      /\ default' \in [Humans -> Agents \cup {NoAgent}]
      /\ owner'[a] # h
      /\ \A b \in Agents : owner'[b] = owner[b] \/ owner'[b] = NoHuman
  BY <1>1, OwnershipDropped, ControlAssumption DEF RevokeAccess, ControlInv
<1>3. grant' = Ungranted(h, a)
  BY DEF RevokeAccess
<1>4. OneRole'
  <2> SUFFICES ASSUME NEW b \in Agents, NEW i \in Humans, owner'[b] = i
               PROVE  grant'[i][b] = "none"
    BY DEF OneRole
  <2>1. owner[b] = i
    BY <1>2, ControlAssumption DEF ControlAssumption
  <2>2. i # h \/ b # a
    BY <1>2
  <2>3. grant'[i][b] = grant[i][b]
    BY <1>1, <1>3, <2>2, UngrantedTyped DEF ControlInv
  <2> QED BY <2>1, <2>3 DEF ControlInv, OneRole
<1>5. grant' \in [Humans -> [Agents -> GrantRoles \cup {"none"}]]
  BY <1>1, <1>3, UngrantedTyped DEF ControlInv
<1>6. Answer(s) /\ UNCHANGED approvals /\ deleted' \in SUBSET Agents
  BY DEF RevokeAccess, ControlInv, TypeOK
<1> QED BY <1>2, <1>4, <1>5, <1>6, AccessStep

-----------------------------------------------------------------------------
(* Approvals.  None of these actions touches the access of Agents.         *)

LEMMA AccessKept ==
  ASSUME ControlInv, UNCHANGED access
  PROVE  OneRole'
BY DEF ControlInv, OneRole, access

\* An approval that no request holds, and that is not decided by it, may change.
LEMMA ApprovalStep ==
  ASSUME ControlInv, UNCHANGED access, UNCHANGED <<decision, token, tx>>,
         NEW r \in Approvals, ApprovalFree(r),
         status[r] \notin Verdicts, NEW v \in Statuses \ Verdicts,
         status' = [status EXCEPT ![r] = v], late' = late
  PROVE  ControlInv'
<1>1. TypeOK'
  BY DEF ControlInv, TypeOK, access
<1>2. RequestsNamed'
  BY DEF ControlInv, RequestsNamed
<1>3. \A q \in Approvals : q # r => status'[q] = status[q]
  BY DEF ControlInv, TypeOK
<1>4. DecisionsHeld'
  <2>1. \A t \in Sessions : tx[t].op = "authorised" => tx[t].r # r
    BY DEF ApprovalFree
  <2> QED BY <1>3, <2>1 DEF ControlInv, DecisionsHeld
<1>5. DecisionMatches'
  <2>1. status'[r] = v /\ v \notin Verdicts
    BY DEF ControlInv, TypeOK
  <2> QED BY <1>3, <2>1 DEF ControlInv, DecisionMatches
<1> QED BY <1>1, <1>2, <1>4, <1>5, AccessKept, InvParts, PTL

LEMMA CreateApprovalKeeps ==
  ASSUME ControlInv, NEW r \in Approvals, CreateApproval(r)
  PROVE  ControlInv'
<1>1. ApprovalFree(r)
  BY DEF ControlInv, CreateApproval, ApprovalFree
<1>2. status[r] \notin Verdicts /\ "pending" \in Statuses \ Verdicts
  BY DEF CreateApproval, Verdicts, Statuses
<1> QED BY <1>1, <1>2, ApprovalStep DEF CreateApproval

LEMMA PassExpiryKeeps ==
  ASSUME ControlInv, NEW r \in Approvals, PassExpiry(r)
  PROVE  ControlInv'
BY DEF PassExpiry, ControlInv, TypeOK, OneRole, DecisionMatches, access

LEMMA RecordExpiryKeeps ==
  ASSUME ControlInv, NEW r \in Approvals, RecordExpiry(r)
  PROVE  ControlInv'
<1>1. status[r] \notin Verdicts /\ "expired" \in Statuses \ Verdicts
  BY DEF RecordExpiry, Verdicts, Statuses
<1> QED BY <1>1, ApprovalStep DEF RecordExpiry

LEMMA CancelApprovalKeeps ==
  ASSUME ControlInv, NEW r \in Approvals, CancelApproval(r)
  PROVE  ControlInv'
<1>1. status[r] \notin Verdicts /\ "cancelled" \in Statuses \ Verdicts
  BY DEF CancelApproval, Verdicts, Statuses
<1> QED BY <1>1, ApprovalStep DEF CancelApproval

\* What a confirmation becomes, whoever has it for whichever verdict.
LEMMA TokenTyped ==
  ASSUME TypeOK, NEW h \in Humans, NEW v \in Verdicts, NEW r \in Approvals,
         NEW x \in {"none", "issued", "consumed"},
         token' = [token EXCEPT ![h][v][r] = x]
  PROVE  /\ token' \in [Humans -> [Verdicts -> [Approvals -> {"none", "issued", "consumed"}]]]
         /\ token'[h][v][r] = x
         /\ \A i \in Humans, w \in Verdicts, q \in Approvals :
              i # h \/ w # v \/ q # r => token'[i][w][q] = token[i][w][q]
BY DEF TypeOK

LEMMA CreateConfirmationKeeps ==
  ASSUME ControlInv, NEW h \in Humans, NEW v \in Verdicts, NEW r \in Approvals,
         CreateConfirmation(h, v, r)
  PROVE  ControlInv'
<1>1. /\ token' \in [Humans -> [Verdicts -> [Approvals -> {"none", "issued", "consumed"}]]]
      /\ token'[h][v][r] = "issued"
      /\ \A i \in Humans, w \in Verdicts, q \in Approvals :
           i # h \/ w # v \/ q # r => token'[i][w][q] = token[i][w][q]
  BY TokenTyped DEF ControlInv, CreateConfirmation
<1>2. TypeOK'
  BY <1>1 DEF ControlInv, TypeOK, CreateConfirmation, access
<1>3. RequestsNamed' /\ DecisionMatches'
  BY DEF ControlInv, RequestsNamed, DecisionMatches, CreateConfirmation
<1>4. DecisionsHeld'
  BY <1>1 DEF ControlInv, DecisionsHeld, CreateConfirmation
<1>5. OneRole'
  BY AccessKept DEF CreateConfirmation
<1> QED BY <1>2, <1>3, <1>4, <1>5, InvParts, PTL

LEMMA DecideBeginKeeps ==
  ASSUME ControlInv, NEW s \in Sessions, NEW h \in Humans, NEW v \in Verdicts,
         NEW r \in Approvals, DecideBegin(s, h, v, r)
  PROVE  ControlInv'
<1> DEFINE new == [Idle EXCEPT !.op = "decide", !.h = h, !.v = v, !.r = r]
<1>1. tx' = [tx EXCEPT ![s] = new]
  BY DEF DecideBegin
<1>2. /\ new \in Requests /\ new.op = "decide"
      /\ new.h = h /\ new.v = v /\ new.r = r
  BY DEF ControlInv, TypeOK, Requests, Idle
<1>3. tx'[s] = new /\ \A t \in Sessions \ {s} : tx'[t] = tx[t]
  BY <1>1 DEF ControlInv, TypeOK
<1> HIDE DEF new
<1>4. TypeOK'
  BY <1>1, <1>2 DEF ControlInv, TypeOK, DecideBegin, access, approvals
<1>5. RequestsNamed'
  BY <1>2, <1>3 DEF ControlInv, RequestsNamed
<1>6. DecisionsHeld'
  BY <1>2, <1>3 DEF ControlInv, DecisionsHeld, DecideBegin, approvals
<1>7. OneRole' /\ DecisionMatches'
  BY AccessKept DEF ControlInv, DecisionMatches, DecideBegin, approvals
<1> QED BY <1>4, <1>5, <1>6, <1>7, InvParts, PTL

\* The request holds the approval from its checks on, and no other does.
LEMMA AuthoriseKeeps ==
  ASSUME ControlInv, NEW s \in Sessions, Authorise(s)
  PROVE  ControlInv'
<1> DEFINE h == tx[s].h  v == tx[s].v  r == tx[s].r
<1>1. h \in Humans /\ v \in Verdicts /\ r \in Approvals
  BY DEF ControlInv, Authorise
<1>2. /\ tx' \in [Sessions -> Requests]
      /\ tx'[s].op = "authorised"
      /\ tx'[s].h = h /\ tx'[s].v = v /\ tx'[s].r = r
      /\ \A t \in Sessions \ {s} : tx'[t] = tx[t]
  <2>1. tx' = [tx EXCEPT ![s].op = "authorised"] /\ tx[s] \in Requests
    BY DEF ControlInv, TypeOK, Authorise
  <2>2. [tx[s] EXCEPT !.op = "authorised"] \in Requests
    BY <2>1 DEF Requests
  <2>3. tx' = [tx EXCEPT ![s] = [tx[s] EXCEPT !.op = "authorised"]]
    BY <2>1
  <2> QED BY <2>1, <2>2, <2>3 DEF ControlInv, TypeOK, Requests
<1>3. status[r] = "pending" /\ token[h][v][r] = "issued"
  BY DEF Authorise
<1>4. \A t \in Sessions \ {s} : tx[t].op = "authorised" => tx[t].r # r
  BY DEF Authorise, ApprovalFree
<1>5. status' = status /\ token' = token
  BY DEF Authorise, approvals
<1>6. TypeOK'
  BY <1>2 DEF ControlInv, TypeOK, Authorise, access, approvals
<1>7. OneRole' /\ DecisionMatches'
  BY AccessKept DEF ControlInv, DecisionMatches, Authorise, approvals
<1> HIDE DEF h, v, r
<1>8. RequestsNamed'
  BY <1>1, <1>2 DEF ControlInv, RequestsNamed
<1>9. DecisionsHeld'
  BY <1>2, <1>3, <1>4, <1>5 DEF ControlInv, DecisionsHeld
<1> QED BY <1>6, <1>7, <1>8, <1>9, InvParts, PTL

\* What a decision finds: an undecided approval and an unused confirmation.
LEMMA DecideFinds ==
  ASSUME ControlInv, NEW s \in Sessions, Decide(s)
  PROVE  /\ tx[s].h \in Humans /\ tx[s].v \in Verdicts /\ tx[s].r \in Approvals
         /\ status[tx[s].r] = "pending" /\ decision[tx[s].r] = NoDecision
         /\ token[tx[s].h][tx[s].v][tx[s].r] = "issued"
         /\ \A t \in Sessions \ {s} : tx[t].op = "authorised" => tx[t].r # tx[s].r
<1>1. tx[s].h \in Humans /\ tx[s].v \in Verdicts /\ tx[s].r \in Approvals
  BY DEF ControlInv, Decide
<1>2. status[tx[s].r] = "pending" /\ token[tx[s].h][tx[s].v][tx[s].r] = "issued"
  BY DEF ControlInv, Decide
<1>3. \A t \in Sessions \ {s} : tx[t].op = "authorised" => tx[t].r # tx[s].r
  BY DEF ControlInv, Decide
<1>4. decision[tx[s].r] = NoDecision
  BY <1>1, <1>2 DEF ControlInv, DecisionMatches, Verdicts
<1> QED BY <1>1, <1>2, <1>3, <1>4

LEMMA DecideKeeps ==
  ASSUME ControlInv, NEW s \in Sessions, Decide(s)
  PROVE  ControlInv'
<1> DEFINE h == tx[s].h  v == tx[s].v  r == tx[s].r
           mine == [by |-> h, verdict |-> v]
<1>1. /\ h \in Humans /\ v \in Verdicts /\ r \in Approvals
      /\ status[r] = "pending" /\ decision[r] = NoDecision
      /\ token[h][v][r] = "issued"
      /\ \A t \in Sessions \ {s} : tx[t].op = "authorised" => tx[t].r # r
  BY DecideFinds
<1>2. /\ tx' \in [Sessions -> Requests]
      /\ tx'[s] = Idle
      /\ \A t \in Sessions \ {s} : tx'[t] = tx[t]
  BY AnswerKeeps DEF ControlInv, Decide
<1>3. tx'[s].op = "idle"
  BY <1>2 DEF Idle
<1>4. /\ status' = [status EXCEPT ![r] = v]
      /\ decision' = [decision EXCEPT ![r] = mine]
      /\ token' = [token EXCEPT ![h][v][r] = "consumed"]
  BY DEF Decide, Consumed
<1>5. /\ mine \in Decisions /\ mine.verdict = v /\ mine # NoDecision
      /\ v \in Statuses
  <2>1. mine.verdict = v /\ NoDecision.verdict = "none" /\ v # "none"
    BY <1>1 DEF NoDecision, Verdicts
  <2> QED BY <1>1, <2>1 DEF Decisions, Verdicts, Statuses
<1> HIDE DEF h, v, r, mine
<1>6. /\ token' \in [Humans -> [Verdicts -> [Approvals -> {"none", "issued", "consumed"}]]]
      /\ \A i \in Humans, w \in Verdicts, q \in Approvals :
           i # h \/ w # v \/ q # r => token'[i][w][q] = token[i][w][q]
  <2>1. token \in [Humans -> [Verdicts -> [Approvals -> {"none", "issued", "consumed"}]]]
    BY DEF ControlInv, TypeOK
  <2>2. token' = [token EXCEPT ![h][v][r] = "consumed"]
    BY <1>4
  <2> QED BY <1>1, <2>1, <2>2
<1>7. /\ status'[r] = v /\ decision'[r] = mine
      /\ \A q \in Approvals : q # r => status'[q] = status[q] /\ decision'[q] = decision[q]
  BY <1>1, <1>4 DEF ControlInv, TypeOK
<1>8. TypeOK'
  <2>1. status' \in [Approvals -> Statuses] /\ decision' \in [Approvals -> Decisions]
    BY <1>4, <1>5 DEF ControlInv, TypeOK
  <2> QED BY <1>2, <1>6, <2>1 DEF ControlInv, TypeOK, Decide, access
<1>9. RequestsNamed'
  BY <1>2, <1>3 DEF ControlInv, RequestsNamed
<1>10. DecisionsHeld'
  <2>1. ASSUME NEW t \in Sessions, tx'[t].op = "authorised"
        PROVE  /\ t # s /\ tx'[t] = tx[t] /\ tx[t].op = "authorised"
               /\ status'[tx'[t].r] = "pending"
               /\ token'[tx'[t].h][tx'[t].v][tx'[t].r] = "issued"
    <3>1. t # s /\ tx'[t] = tx[t]
      BY <1>2, <1>3, <2>1
    <3>2. /\ tx[t].h \in Humans /\ tx[t].v \in Verdicts /\ tx[t].r \in Approvals
          /\ status[tx[t].r] = "pending"
          /\ token[tx[t].h][tx[t].v][tx[t].r] = "issued"
      BY <2>1, <3>1 DEF ControlInv
    <3>3. tx[t].r # r
      BY <1>1, <2>1, <3>1
    <3> QED BY <1>6, <1>7, <2>1, <3>1, <3>2, <3>3
  <2> QED BY <2>1 DEF ControlInv, DecisionsHeld
<1>11. DecisionMatches'
  BY <1>1, <1>5, <1>7 DEF ControlInv, DecisionMatches
<1>12. OneRole'
  BY AccessKept DEF Decide
<1> QED BY <1>8, <1>9, <1>10, <1>11, <1>12, InvParts, PTL

LEMMA AbortKeeps ==
  ASSUME ControlInv, NEW s \in Sessions, Abort(s)
  PROVE  ControlInv'
<1>1. OneRole'
  BY AccessKept DEF Abort
<1> QED BY <1>1, AccessStep DEF Abort, access, ControlInv, TypeOK

-----------------------------------------------------------------------------
(* The invariant.                                                          *)

LEMMA InitInv ==
  ASSUME Init
  PROVE  ControlInv
<1>1. TypeOK
  BY ControlAssumption DEF Init, TypeOK, Statuses, Decisions, Requests, Idle, ControlAssumption
<1>2. \A s \in Sessions : tx[s].op = "idle"
  BY DEF Init, Idle
<1>3. RequestsNamed /\ DecisionsHeld
  BY <1>2 DEF RequestsNamed, DecisionsHeld
<1>4. OneRole
  BY DEF Init, OneRole
<1>5. DecisionMatches
  BY DEF Init, DecisionMatches, Verdicts
<1> QED BY <1>1, <1>3, <1>4, <1>5, InvParts

LEMMA StepInv ==
  ASSUME ControlInv, [Next]_vars
  PROVE  ControlInv'
<1>1. CASE UNCHANGED vars
  BY <1>1 DEF vars, ControlInv, TypeOK, OneRole, DecisionMatches
<1>2. ASSUME NEW s \in Sessions, NEW h \in Humans, NEW a \in Agents,
             NEW op \in {"set_default", "delete", "revoke"}, LoadUser(s, op, h, a, "none")
      PROVE  ControlInv'
  BY <1>2, LoadUserKeeps
<1>3. ASSUME NEW s \in Sessions, NEW h \in Humans, NEW a \in Agents,
             NEW role \in GrantRoles \cup {"owner"}, LoadUser(s, "grant", h, a, role)
      PROVE  ControlInv'
  BY <1>3, LoadUserKeeps
<1>4. ASSUME NEW s \in Sessions,
             SetDefault(s) \/ DeleteAgent(s) \/ GrantOwner(s) \/ GrantRole(s) \/ RevokeAccess(s)
      PROVE  ControlInv'
  BY <1>4, SetDefaultKeeps, DeleteAgentKeeps, GrantOwnerKeeps, GrantRoleKeeps, RevokeAccessKeeps
<1>5. ASSUME NEW s \in Sessions,
             \/ \E h \in Humans, v \in Verdicts, r \in Approvals : DecideBegin(s, h, v, r)
             \/ Authorise(s) \/ Decide(s) \/ Abort(s)
      PROVE  ControlInv'
  BY <1>5, DecideBeginKeeps, AuthoriseKeeps, DecideKeeps, AbortKeeps
<1>6. ASSUME NEW r \in Approvals,
             \/ CreateApproval(r) \/ PassExpiry(r) \/ RecordExpiry(r) \/ CancelApproval(r)
             \/ \E h \in Humans, v \in Verdicts : CreateConfirmation(h, v, r)
      PROVE  ControlInv'
  BY <1>6, CreateApprovalKeeps, PassExpiryKeeps, RecordExpiryKeeps, CancelApprovalKeeps,
     CreateConfirmationKeeps
<1> QED BY <1>1, <1>2, <1>3, <1>4, <1>5, <1>6 DEF Next

\* Whatever requests of Humans and Agents interleave, no Human holds an Agent
\* twice, an approval carries a verdict exactly when one decision is recorded
\* (OneRole, DecisionMatches), and what a decision has checked still holds when
\* it commits: grant_agent_access, decide_human_approval_request.
THEOREM ControlConsistent == Spec => []ControlInv
<1>1. Init => ControlInv
  BY InitInv
<1>2. ControlInv /\ [Next]_vars => ControlInv'
  BY StepInv
<1> QED BY <1>1, <1>2, PTL DEF Spec

-----------------------------------------------------------------------------
(* Decided once.                                                           *)

AnswerStays ==
  \A r \in Approvals : status[r] \notin {"absent", "pending"} =>
    status'[r] = status[r] /\ decision'[r] = decision[r]

SpendsConfirmation ==
  \A h \in Humans, v \in Verdicts, r \in Approvals :
    token[h][v][r] = "issued" /\ token'[h][v][r] = "consumed" <=>
    decision[r] = NoDecision /\ decision'[r] = [by |-> h, verdict |-> v]

\* A step that records no decision and uses no confirmation spends none.
LEMMA NothingSpent ==
  ASSUME decision' = decision,
         \A h \in Humans, v \in Verdicts, r \in Approvals :
           token'[h][v][r] = "consumed" => token[h][v][r] = "consumed"
  PROVE  SpendsConfirmation
<1> SUFFICES ASSUME NEW h \in Humans, NEW v \in Verdicts, NEW r \in Approvals
             PROVE  token[h][v][r] = "issued" /\ token'[h][v][r] = "consumed" <=>
                    decision[r] = NoDecision /\ decision'[r] = [by |-> h, verdict |-> v]
  BY DEF SpendsConfirmation
<1>1. [by |-> h, verdict |-> v] # NoDecision
  <2>1. [by |-> h, verdict |-> v].verdict = v /\ NoDecision.verdict = "none" /\ v # "none"
    BY DEF NoDecision, Verdicts
  <2> QED BY <2>1
<1> QED BY <1>1

LEMMA DecideSpends ==
  ASSUME ControlInv, NEW s \in Sessions, Decide(s)
  PROVE  AnswerStays /\ SpendsConfirmation
<1> DEFINE h == tx[s].h  v == tx[s].v  r == tx[s].r
<1>1. /\ h \in Humans /\ v \in Verdicts /\ r \in Approvals
      /\ status[r] = "pending" /\ decision[r] = NoDecision
      /\ token[h][v][r] = "issued"
  BY DecideFinds
<1>2. /\ status' = [status EXCEPT ![r] = v]
      /\ decision' = [decision EXCEPT ![r] = [by |-> h, verdict |-> v]]
      /\ token' = [token EXCEPT ![h][v][r] = "consumed"]
  BY DEF Decide, Consumed
<1> HIDE DEF h, v, r
<1>3. /\ decision'[r] = [by |-> h, verdict |-> v]
      /\ \A q \in Approvals : q # r => status'[q] = status[q] /\ decision'[q] = decision[q]
  BY <1>1, <1>2 DEF ControlInv, TypeOK
<1>4. /\ token'[h][v][r] = "consumed"
      /\ \A i \in Humans, w \in Verdicts, q \in Approvals :
           i # h \/ w # v \/ q # r => token'[i][w][q] = token[i][w][q]
  BY ZenonT(60), <1>1, <1>2, TokenTyped DEF ControlInv
<1>5. AnswerStays
  BY <1>1, <1>3 DEF AnswerStays
<1>6. ASSUME NEW i \in Humans, NEW w \in Verdicts, NEW q \in Approvals
      PROVE  token[i][w][q] = "issued" /\ token'[i][w][q] = "consumed" <=>
             decision[q] = NoDecision /\ decision'[q] = [by |-> i, verdict |-> w]
  <2>1. CASE q = r
    <3>1. [by |-> h, verdict |-> v] = [by |-> i, verdict |-> w] <=> h = i /\ v = w
      BY Zenon
    <3> QED BY <1>1, <1>3, <1>4, <2>1, <3>1
  <2>2. CASE q # r
    <3>1. [by |-> i, verdict |-> w] # NoDecision
      <4>1. /\ [by |-> i, verdict |-> w].verdict = w
            /\ NoDecision.verdict = "none" /\ w # "none"
        BY DEF NoDecision, Verdicts
      <4> QED BY <4>1
    <3> QED BY <1>3, <1>4, <2>2, <3>1
  <2> QED BY <2>1, <2>2
<1> QED BY <1>5, <1>6 DEF SpendsConfirmation

LEMMA StepDecides ==
  ASSUME ControlInv, [Next]_vars
  PROVE  AnswerStays /\ SpendsConfirmation
<1>1. ASSUME UNCHANGED <<status, decision, token>>
      PROVE  AnswerStays /\ SpendsConfirmation
  BY <1>1, NothingSpent DEF AnswerStays
<1>2. ASSUME NEW r \in Approvals, UNCHANGED <<decision, token>>,
             status[r] \in {"absent", "pending"},
             \E v \in Statuses : status' = [status EXCEPT ![r] = v]
      PROVE  AnswerStays /\ SpendsConfirmation
  BY <1>2, NothingSpent DEF AnswerStays, ControlInv, TypeOK
<1>3. ASSUME NEW h \in Humans, NEW v \in Verdicts, NEW r \in Approvals,
             CreateConfirmation(h, v, r)
      PROVE  AnswerStays /\ SpendsConfirmation
  <2>1. token'[h][v][r] = "issued" /\
        \A i \in Humans, w \in Verdicts, q \in Approvals :
          i # h \/ w # v \/ q # r => token'[i][w][q] = token[i][w][q]
    BY <1>3, TokenTyped DEF ControlInv, CreateConfirmation
  <2>2. SpendsConfirmation
    BY <1>3, <2>1, NothingSpent DEF CreateConfirmation
  <2> QED BY <1>3, <2>2 DEF CreateConfirmation, AnswerStays
<1>4. ASSUME NEW s \in Sessions, Decide(s)
      PROVE  AnswerStays /\ SpendsConfirmation
  BY <1>4, DecideSpends
<1>5. ASSUME NEW r \in Approvals,
             CreateApproval(r) \/ PassExpiry(r) \/ RecordExpiry(r) \/ CancelApproval(r)
      PROVE  AnswerStays /\ SpendsConfirmation
  BY <1>1, <1>2, <1>5 DEF CreateApproval, PassExpiry, RecordExpiry, CancelApproval, Statuses
<1>6. ASSUME NEW s \in Sessions,
             \/ \E h \in Humans, a \in Agents :
                  \/ \E op \in {"set_default", "delete", "revoke"} : LoadUser(s, op, h, a, "none")
                  \/ \E role \in GrantRoles \cup {"owner"} : LoadUser(s, "grant", h, a, role)
             \/ SetDefault(s) \/ DeleteAgent(s)
             \/ GrantOwner(s) \/ GrantRole(s) \/ RevokeAccess(s)
             \/ \E h \in Humans, v \in Verdicts, r \in Approvals : DecideBegin(s, h, v, r)
             \/ Authorise(s) \/ Abort(s)
      PROVE  AnswerStays /\ SpendsConfirmation
  <2>1. UNCHANGED approvals
    BY <1>6 DEF LoadUser, SetDefault, DeleteAgent, GrantOwner, GrantRole, RevokeAccess,
                DecideBegin, Authorise, Abort
  <2> QED BY <1>1, <2>1 DEF approvals
<1>7. CASE UNCHANGED vars
  BY <1>1, <1>7 DEF vars
<1> QED BY <1>3, <1>4, <1>5, <1>6, <1>7 DEF Next

\* An approval is decided at most once and for good, and the confirmation that
\* was given for it is used up exactly by the step that records its decision
\* (decide_human_approval_request, consume_human_confirmation).
THEOREM ApprovalsDecidedOnce == Spec => DecidedOnce
<1>1. ControlInv /\ [Next]_vars => [AnswerStays]_vars /\ [SpendsConfirmation]_vars
  BY StepDecides
<1>2. Spec => [][AnswerStays]_vars
  BY <1>1, ControlConsistent, PTL DEF Spec
<1>3. Spec => [][SpendsConfirmation]_vars
  BY <1>1, ControlConsistent, PTL DEF Spec
<1> QED BY <1>2, <1>3 DEF DecidedOnce, AnswerFinal, ConfirmationSpent, AnswerStays, SpendsConfirmation

-----------------------------------------------------------------------------
(* Human accounts.                                                         *)

Judging(q) == call[q].op \in {"judge", "recover"}

\* A request that holds a challenge is its only holder and read it as it is.
ChallengeHeld(p) ==
  Judging(p) =>
    /\ call[p].c \in Challenges
    /\ challenge[call[p].c].is \in {"open", "expired"}
    /\ call[p].a = challenge[call[p].c].to
    /\ call[p].op = "judge" =>
         call[p].wrong = challenge[call[p].c].wrong /\ call[p].wrong < MaxWrong
    /\ \A q \in Callers : Judging(q) /\ call[q].c = call[p].c => q = p

\* Requests and challenges name addresses, a recovery an account; without an
\* account no password.
AddressesNamed ==
  /\ \A p \in Callers : call[p].op # "none" => call[p].a \in Addresses
  /\ \A p \in Callers : call[p].op = "recover" => call[p].a \in user
  /\ \A c \in Challenges : challenge[c].is # "absent" => challenge[c].to \in Addresses
  /\ \A a \in Addresses : a \notin user => password[a] = 0

AccountsInd ==
  /\ AccountsTypeOK /\ AttemptsCounted /\ AddressesNamed
  /\ \A p \in Callers : ChallengeHeld(p)

LEMMA RestingIsCall ==
  NoMfa \in MfaRows /\ Resting \in Calls /\ Resting.op = "none"
BY DEF NoMfa, MfaRows, Resting, Calls, Purposes

LEMMA CallSet ==
  ASSUME AccountsTypeOK, NEW p \in Callers, NEW r \in Calls, call' = [call EXCEPT ![p] = r]
  PROVE  /\ call' \in [Callers -> Calls] /\ call'[p] = r
         /\ \A q \in Callers \ {p} : call'[q] = call[q]
BY DEF AccountsTypeOK

LEMMA ProvenTyped ==
  ASSUME AccountsTypeOK, NEW row \in MfaRows, NEW new \in Proven(row)
  PROVE  new \in MfaRows
<1>1. CASE new = row
  BY <1>1
<1>2. CASE new \in {[row EXCEPT !.codes = @ \ {x}] : x \in row.codes}
  <2>1. PICK x \in row.codes : new = [row EXCEPT !.codes = @ \ {x}]
    BY <1>2
  <2> QED BY <2>1 DEF MfaRows
<1>3. CASE new \in {[row EXCEPT !.last = t] : t \in {step} \ 0 .. row.last}
  <2>1. step \in Nat /\ new = [row EXCEPT !.last = step]
    BY <1>3 DEF AccountsTypeOK
  <2> QED BY <2>1 DEF MfaRows
<1> QED BY <1>1, <1>2, <1>3 DEF Proven

LEMMA StoredTyped ==
  ASSUME AccountsTypeOK, NEW p \in Callers
  PROVE  Stored(p) \in [Addresses -> MfaRows]
<1>1. /\ call[p].seen \in MfaRows /\ call[p].new \in MfaRows
      /\ mfa \in [Addresses -> MfaRows]
  BY DEF AccountsTypeOK, Calls
<1>2. ASSUME NEW row \in MfaRows, NEW seen \in MfaRows, NEW new \in MfaRows
      PROVE  Merged(row, seen, new) \in MfaRows
  BY DEF Merged, MfaRows
<1> QED BY <1>1, <1>2 DEF Stored

LEMMA RevokedTyped ==
  ASSUME NEW X, NEW table \in [X -> Tokens], NEW S
  PROVE  Revoked(table, S) \in [X -> Tokens]
BY DEF Revoked, Tokens

LEMMA MadeTyped ==
  ASSUME NEW X, NEW table \in [X -> Tokens], NEW a \in Addresses, NEW t \in Made(table, a)
  PROVE  t \in [X -> Tokens]
BY DEF Made, Tokens

\* A step of request p that leaves challenges, users and passwords alone.
LEMMA QuietKeeps ==
  ASSUME AccountsInd, UNCHANGED identity, NEW p \in Callers, NEW r \in Calls,
         call' = [call EXCEPT ![p] = r],
         r.op # "none" => r.a \in Addresses,
         r.op = "recover" => r.a \in user,
         \/ r.op \notin {"judge", "recover"}
         \/ call[p].op = "judge" /\ r.op = "recover" /\ r.c = call[p].c /\ r.a = call[p].a,
         mfa' \in [Addresses -> MfaRows],
         browser' \in [Browsers -> Tokens], key' \in [HumanKeys -> Tokens],
         step' \in Nat, secrets' \in Nat
  PROVE  AccountsInd'
<1>1. /\ call' \in [Callers -> Calls] /\ call'[p] = r
      /\ \A q \in Callers \ {p} : call'[q] = call[q]
  BY CallSet DEF AccountsInd
<1>2. challenge' = challenge /\ misses' = misses /\ user' = user /\ password' = password
  BY DEF identity
<1>3. AccountsTypeOK'
  BY <1>1, <1>2 DEF AccountsInd, AccountsTypeOK
<1>4. AttemptsCounted' /\ AddressesNamed'
  BY <1>1, <1>2 DEF AccountsInd, AttemptsCounted, AddressesNamed
<1>5. \A q \in Callers :
        Judging(q)' => Judging(q) /\ call'[q].c = call[q].c /\ call'[q].a = call[q].a
  BY <1>1 DEF Judging
<1>6. \A q \in Callers : call'[q].op = "judge" => call'[q] = call[q]
  BY <1>1
<1>7. ASSUME NEW q \in Callers PROVE ChallengeHeld(q)'
  <2>1. ChallengeHeld(q)
    BY DEF AccountsInd
  <2> QED BY <1>2, <1>5, <1>6, <2>1 DEF ChallengeHeld
<1> QED BY <1>3, <1>4, <1>7 DEF AccountsInd

LEMMA RowsTyped ==
  ASSUME AccountsTypeOK
  PROVE  /\ mfa \in [Addresses -> MfaRows] /\ browser \in [Browsers -> Tokens]
         /\ key \in [HumanKeys -> Tokens] /\ step \in Nat /\ secrets \in Nat
BY DEF AccountsTypeOK

LEMMA FinishKeeps ==
  ASSUME AccountsInd, NEW p \in Callers, Finish(p), UNCHANGED identity,
         mfa' \in [Addresses -> MfaRows],
         browser' \in [Browsers -> Tokens], key' \in [HumanKeys -> Tokens],
         step' \in Nat, secrets' \in Nat
  PROVE  AccountsInd'
BY RestingIsCall, QuietKeeps DEF Finish

\* A request that starts for a Human leaves the rows as they are.
LEMMA StartKeeps ==
  ASSUME AccountsInd, NEW p \in Callers, NEW r \in Calls,
         r.op \in {"login", "store", "disable", "rotate"}, r.a \in Addresses,
         call' = [call EXCEPT ![p] = r],
         UNCHANGED identity, UNCHANGED rows, step' = step, secrets' \in Nat
  PROVE  AccountsInd'
<1>1. /\ mfa' \in [Addresses -> MfaRows] /\ browser' \in [Browsers -> Tokens]
      /\ key' \in [HumanKeys -> Tokens] /\ step' \in Nat
  BY RowsTyped DEF rows, AccountsInd
<1> QED BY <1>1, QuietKeeps

LEMMA StartedIsCall ==
  ASSUME NEW a \in Addresses, NEW seen \in MfaRows, NEW new \in MfaRows,
         NEW op \in {"login", "store", "disable", "rotate"}, NEW K \in SUBSET HumanKeys
  PROVE  /\ [Resting EXCEPT !.op = op, !.a = a, !.seen = seen, !.new = new] \in Calls
         /\ [Resting EXCEPT !.op = op, !.a = a, !.seen = seen, !.new = new, !.keys = K] \in Calls
BY RestingIsCall DEF Calls, Resting

LEMMA StartedKeeps ==
  ASSUME AccountsInd, NEW p \in Callers, NEW a \in Addresses,
         NEW op \in {"login", "store", "disable"}, Start(p, op, a),
         UNCHANGED identity, UNCHANGED rows, UNCHANGED clock
  PROVE  AccountsInd'
<1>1. PICK new \in Proven(mfa[a]) :
        call' = [call EXCEPT ![p] = [Resting EXCEPT !.op = op, !.a = a, !.seen = mfa[a],
                                                    !.new = new]]
  BY DEF Start
<1> DEFINE r == [Resting EXCEPT !.op = op, !.a = a, !.seen = mfa[a], !.new = new]
<1>2. mfa[a] \in MfaRows /\ new \in MfaRows
  BY <1>1, ProvenTyped DEF AccountsInd, AccountsTypeOK
<1>3. r \in Calls /\ r.op = op /\ r.a = a
  BY ZenonT(60), <1>2, StartedIsCall DEF Resting
<1>4. call' = [call EXCEPT ![p] = r]
  BY <1>1
<1> HIDE DEF r
<1>5. step' = step /\ secrets' \in Nat
  BY RowsTyped DEF clock, AccountsInd
<1> QED BY <1>3, <1>4, <1>5, StartKeeps

LEMMA RequestsStartKeeps ==
  ASSUME AccountsInd, NEW p \in Callers, NEW a \in Addresses,
         \/ Authenticate(p, a) \/ Reauthenticate(p, a) \/ BeginDisable(p, a)
         \/ BeginSetup(p, a) \/ ConfirmSetup(p, a) \/ BeginRotate(p, a)
  PROVE  AccountsInd'
<1>1. mfa[a] \in MfaRows /\ step \in Nat /\ secrets \in Nat
  BY DEF AccountsInd, AccountsTypeOK
<1>2. CASE Authenticate(p, a) \/ Reauthenticate(p, a) \/ BeginDisable(p, a)
  BY <1>2, StartedKeeps DEF Authenticate, Reauthenticate, BeginDisable, Prove
<1>3. CASE BeginSetup(p, a)
  <2> DEFINE new == [NoMfa EXCEPT !.made = TRUE, !.secret = secrets + 1, !.pending = TRUE]
             r == [Resting EXCEPT !.op = "store", !.a = a, !.seen = mfa[a], !.new = new]
  <2>1. /\ call' = [call EXCEPT ![p] = r]
        /\ secrets' = secrets + 1 /\ step' = step /\ UNCHANGED identity /\ UNCHANGED rows
    BY <1>3 DEF BeginSetup
  <2>2. secrets' \in Nat /\ new \in MfaRows
    <3>1. secrets + 1 \in Nat /\ NoMfa \in MfaRows
      BY <1>1, RestingIsCall
    <3>2. \A n \in Nat : [NoMfa EXCEPT !.made = TRUE, !.secret = n, !.pending = TRUE] \in MfaRows
      BY <3>1 DEF MfaRows
    <3> QED BY <2>1, <3>1, <3>2
  <2> HIDE DEF new
  <2>3. r \in Calls /\ r.op = "store" /\ r.a = a
    BY <1>1, <2>2, StartedIsCall DEF Resting
  <2> HIDE DEF r
  <2> QED BY <2>1, <2>2, <2>3, StartKeeps
<1>4. CASE ConfirmSetup(p, a)
  <2> DEFINE new == [mfa[a] EXCEPT !.pending = FALSE, !.enabled = TRUE, !.last = step,
                                   !.codes = Codes, !.proved = mfa[a].secret]
             r == [Resting EXCEPT !.op = "store", !.a = a, !.seen = mfa[a], !.new = new]
  <2>1. /\ call' = [call EXCEPT ![p] = r]
        /\ step' = step /\ secrets' = secrets /\ UNCHANGED identity /\ UNCHANGED rows
    BY <1>4 DEF ConfirmSetup, clock
  <2>2. secrets' \in Nat /\ new \in MfaRows
    BY <1>1, <2>1 DEF MfaRows
  <2> HIDE DEF new
  <2>3. r \in Calls /\ r.op = "store" /\ r.a = a
    BY <1>1, <2>2, StartedIsCall DEF Resting
  <2> HIDE DEF r
  <2> QED BY <2>1, <2>2, <2>3, StartKeeps
<1>5. CASE BeginRotate(p, a)
  <2>1. PICK new \in Proven(mfa[a]) :
          call' = [call EXCEPT ![p] = [Resting EXCEPT !.op = "rotate", !.a = a, !.seen = mfa[a],
                                                      !.new = new, !.keys = LiveOf(key, a)]]
    BY <1>5 DEF BeginRotate
  <2> DEFINE r == [Resting EXCEPT !.op = "rotate", !.a = a, !.seen = mfa[a], !.new = new,
                                  !.keys = LiveOf(key, a)]
  <2>2. new \in MfaRows /\ LiveOf(key, a) \subseteq HumanKeys
    BY <1>1, <2>1, ProvenTyped DEF AccountsInd, AccountsTypeOK, LiveOf
  <2>3. r \in Calls /\ r.op = "rotate" /\ r.a = a
    BY ZenonT(60), <1>1, <2>2, StartedIsCall DEF Resting
  <2>4. call' = [call EXCEPT ![p] = r]
    BY <2>1
  <2> HIDE DEF r
  <2>5. step' = step /\ secrets' \in Nat /\ UNCHANGED identity /\ UNCHANGED rows
    BY <1>1, <1>5 DEF BeginRotate, clock
  <2> QED BY <2>3, <2>4, <2>5, StartKeeps
<1> QED BY <1>2, <1>3, <1>4, <1>5

\* Requests that end, or go on to their session, without a challenge.
LEMMA RequestsEndKeeps ==
  ASSUME AccountsInd, NEW p \in Callers,
         \/ Authenticated(p) \/ SignIn(p) \/ Store(p) \/ Disable(p) \/ RotateKey(p)
         \/ GiveUp(p)
  PROVE  AccountsInd'
<1>1. CASE Authenticated(p)
  <2> DEFINE r == [Resting EXCEPT !.op = "signin", !.a = call[p].a]
  <2>1. /\ call' = [call EXCEPT ![p] = r] /\ call[p].op = "login" /\ mfa' = Stored(p)
        /\ UNCHANGED <<browser, key>> /\ UNCHANGED identity /\ UNCHANGED clock
    BY <1>1 DEF Authenticated, SignInNext
  <2>2. call[p].a \in Addresses
    BY <2>1 DEF AccountsInd, AddressesNamed
  <2>3. r \in Calls /\ r.op = "signin" /\ r.a \in Addresses
    BY <2>2, RestingIsCall DEF Calls, Resting
  <2> HIDE DEF r
  <2>4. /\ mfa' \in [Addresses -> MfaRows] /\ browser' \in [Browsers -> Tokens]
        /\ key' \in [HumanKeys -> Tokens] /\ step' \in Nat /\ secrets' \in Nat
    BY <2>1, RowsTyped, StoredTyped DEF AccountsInd, clock
  <2> QED BY <2>1, <2>3, <2>4, QuietKeeps
<1>2. CASE SignIn(p)
  <2>1. call[p].a \in Addresses
    BY <1>2 DEF SignIn, AccountsInd, AddressesNamed
  <2>2. browser' \in [Browsers -> Tokens]
    BY <1>2, <2>1, RowsTyped, MadeTyped DEF SignIn, AccountsInd
  <2> QED BY <1>2, <2>2, RowsTyped, FinishKeeps DEF SignIn, AccountsInd, clock
<1>3. CASE Store(p)
  BY <1>3, RowsTyped, StoredTyped, FinishKeeps DEF Store, AccountsInd, clock
<1>4. CASE Disable(p)
  BY <1>4, RowsTyped, RestingIsCall, FinishKeeps DEF Disable, AccountsInd, clock
<1>5. CASE RotateKey(p)
  <2>1. call[p].a \in Addresses
    BY <1>5 DEF RotateKey, AccountsInd, AddressesNamed
  <2>2. key' \in [HumanKeys -> Tokens]
    BY <1>5, <2>1, RowsTyped, RevokedTyped, MadeTyped DEF RotateKey, AccountsInd
  <2> QED BY <1>5, <2>2, RowsTyped, StoredTyped, FinishKeeps DEF RotateKey, AccountsInd, clock
<1>6. CASE GiveUp(p)
  BY <1>6, RowsTyped, FinishKeeps DEF GiveUp, AccountsInd, rows, clock
<1> QED BY <1>1, <1>2, <1>3, <1>4, <1>5, <1>6

\* Sessions and time.
LEMMA OutsideKeeps ==
  ASSUME AccountsInd, Tick \/ \E b \in Browsers : SignOut(b) \/ ExpireBrowser(b)
  PROVE  AccountsInd'
<1>1. call' = call /\ UNCHANGED identity /\ mfa' = mfa /\ key' = key /\ secrets' = secrets
  BY DEF Tick, SignOut, ExpireBrowser, rows, clock
<1>2. browser' \in [Browsers -> Tokens] /\ step' \in Nat
  <2>1. browser \in [Browsers -> Tokens] /\ step \in Nat
    BY RowsTyped DEF AccountsInd
  <2>2. CASE Tick
    BY <2>1, <2>2 DEF Tick, rows
  <2>3. CASE \E b \in Browsers : SignOut(b)
    BY <2>1, <2>3, RevokedTyped DEF SignOut, clock
  <2>4. CASE \E b \in Browsers : ExpireBrowser(b)
    <3>1. PICK b \in Browsers : browser' = [browser EXCEPT ![b].is = "expired"]
      BY <2>4 DEF ExpireBrowser
    <3>2. [browser[b] EXCEPT !.is = "expired"] \in Tokens
      BY <2>1 DEF Tokens
    <3> QED BY <2>1, <2>4, <3>1, <3>2 DEF ExpireBrowser, clock
  <2> QED BY <2>2, <2>3, <2>4
<1>3. AccountsTypeOK'
  BY <1>1, <1>2 DEF AccountsInd, AccountsTypeOK, identity
<1>4. AttemptsCounted' /\ AddressesNamed'
  BY <1>1 DEF AccountsInd, AttemptsCounted, AddressesNamed, identity
<1>5. \A p \in Callers : ChallengeHeld(p)'
  BY <1>1 DEF AccountsInd, ChallengeHeld, Judging, identity
<1> QED BY <1>3, <1>4, <1>5 DEF AccountsInd

LEMMA AskChallengeKeeps ==
  ASSUME AccountsInd, NEW p \in Callers, NEW a \in Addresses,
         NEW purpose \in {"register", "recover"}, AskChallenge(p, a, purpose)
  PROVE  AccountsInd'
<1> DEFINE r == [Resting EXCEPT !.op = "mail", !.a = a, !.purpose = purpose]
<1>1. /\ call' = [call EXCEPT ![p] = r]
      /\ UNCHANGED identity /\ UNCHANGED rows /\ UNCHANGED clock
  BY DEF AskChallenge
<1>2. r \in Calls /\ r.op = "mail" /\ r.a = a
  BY RestingIsCall DEF Calls, Resting, Purposes
<1> HIDE DEF r
<1>3. /\ mfa' \in [Addresses -> MfaRows] /\ browser' \in [Browsers -> Tokens]
      /\ key' \in [HumanKeys -> Tokens] /\ step' \in Nat /\ secrets' \in Nat
  BY <1>1, RowsTyped DEF rows, clock, AccountsInd
<1> QED BY <1>1, <1>2, <1>3, QuietKeeps

LEMMA RecoverReadKeeps ==
  ASSUME AccountsInd, NEW p \in Callers, RecoverRead(p)
  PROVE  AccountsInd'
<1>1. /\ call[p].op = "judge" /\ call[p] \in Calls /\ call[p].a \in Addresses
      /\ call[p].a \in user
      /\ UNCHANGED identity /\ UNCHANGED rows /\ UNCHANGED clock
  BY DEF RecoverRead, AccountsInd, AccountsTypeOK, AddressesNamed
<1>2. PICK new \in Proven(mfa[call[p].a]) :
        call' = [call EXCEPT ![p].op = "recover", ![p].seen = mfa[call[p].a], ![p].new = new,
                             ![p].out = LiveOf(browser, call[p].a),
                             ![p].keys = LiveOf(key, call[p].a)]
  BY DEF RecoverRead
<1> DEFINE seen == mfa[call[p].a]
           B == LiveOf(browser, call[p].a)
           K == LiveOf(key, call[p].a)
           r == [call[p] EXCEPT !.op = "recover", !.seen = seen, !.new = new, !.out = B, !.keys = K]
<1>3. seen \in MfaRows /\ new \in MfaRows /\ B \subseteq Browsers /\ K \subseteq HumanKeys
  BY <1>1, <1>2, ProvenTyped DEF AccountsInd, AccountsTypeOK, LiveOf
<1>4. call' = [call EXCEPT ![p] = r]
  BY <1>2
<1> HIDE DEF seen, B, K
<1>5. r \in Calls /\ r.op = "recover" /\ r.c = call[p].c /\ r.a = call[p].a
  BY <1>1, <1>3 DEF Calls
<1> HIDE DEF r
<1>6. /\ mfa' \in [Addresses -> MfaRows] /\ browser' \in [Browsers -> Tokens]
      /\ key' \in [HumanKeys -> Tokens] /\ step' \in Nat /\ secrets' \in Nat
  BY <1>1, RowsTyped DEF rows, clock, AccountsInd
<1> QED BY <1>1, <1>4, <1>5, <1>6, QuietKeeps

\* The row of a challenge is locked: nobody else holds the one presented.
LEMMA PresentKeeps ==
  ASSUME AccountsInd, NEW p \in Callers, NEW c \in Challenges, Present(p, c)
  PROVE  AccountsInd'
<1> DEFINE r == [Resting EXCEPT !.op = "judge", !.c = c, !.a = challenge[c].to,
                                !.purpose = challenge[c].purpose, !.wrong = challenge[c].wrong]
<1>1. /\ call[p] = Resting /\ challenge[c].is = "open" /\ challenge[c].wrong < MaxWrong
      /\ \A q \in Callers : ~ (Judging(q) /\ call[q].c = c)
      /\ call' = [call EXCEPT ![p] = r]
      /\ UNCHANGED identity /\ UNCHANGED rows /\ UNCHANGED clock
  BY DEF Present, ChallengeFree, HoldsChallenge, Judging
<1>2. challenge[c] \in EmailChallenges /\ challenge[c].to \in Addresses
  BY <1>1 DEF AccountsInd, AccountsTypeOK, AddressesNamed
<1>3. /\ r \in Calls /\ r.op = "judge" /\ r.c = c /\ r.a = challenge[c].to
      /\ r.wrong = challenge[c].wrong
  BY <1>2, RestingIsCall DEF Calls, Resting, EmailChallenges
<1> HIDE DEF r
<1>4. /\ call' \in [Callers -> Calls] /\ call'[p] = r
      /\ \A q \in Callers \ {p} : call'[q] = call[q]
  BY <1>1, <1>3, CallSet DEF AccountsInd
<1>5. challenge' = challenge /\ misses' = misses /\ user' = user /\ password' = password
  BY <1>1 DEF identity
<1>6. AccountsTypeOK'
  BY <1>1, <1>4, <1>5 DEF AccountsInd, AccountsTypeOK, rows, clock
<1>7. AttemptsCounted' /\ AddressesNamed'
  BY <1>2, <1>3, <1>4, <1>5 DEF AccountsInd, AttemptsCounted, AddressesNamed
<1>8. ASSUME NEW q \in Callers PROVE ChallengeHeld(q)'
  <2>1. CASE q = p
    BY <1>1, <1>3, <1>4, <1>5, <2>1 DEF ChallengeHeld, Judging
  <2>2. CASE q # p
    <3>1. ChallengeHeld(q)
      BY DEF AccountsInd
    <3> QED BY <1>1, <1>3, <1>4, <1>5, <2>2, <3>1 DEF ChallengeHeld, Judging
  <2> QED BY <2>1, <2>2
<1> QED BY <1>6, <1>7, <1>8 DEF AccountsInd

\* A request that ended, or goes on to its session, holds no challenge.
Released(q) ==
  /\ call'[q].op \in {"none", "signin"}
  /\ call'[q].op = "signin" => call'[q].a \in Addresses

\* What a holder of a challenge relies on.
Undisturbed(x, y) ==
  x.is \in {"open", "expired"} /\ x.to = y.to /\ x.wrong = y.wrong

\* A step that changes challenge c alone: one that nobody else holds keeps what
\* the others rely on, and so does one whose holder is left with it.
LEMMA ChallengeKeeps ==
  ASSUME AccountsInd, NEW c \in Challenges, NEW x \in EmailChallenges,
         challenge' = [challenge EXCEPT ![c] = x],
         x.is # "absent" => x.to \in Addresses,
         misses' \in [Challenges -> Nat],
         x.wrong = misses'[c], misses'[c] <= MaxWrong,
         \A d \in Challenges \ {c} : misses'[d] = misses[d],
         user' \in SUBSET Addresses, user \subseteq user',
         password' \in [Addresses -> Nat],
         \A a \in Addresses : a \notin user' => password'[a] = 0,
         mfa' \in [Addresses -> MfaRows], browser' \in [Browsers -> Tokens],
         key' \in [HumanKeys -> Tokens], UNCHANGED clock,
         call' \in [Callers -> Calls],
         \A q \in Callers : call'[q] = call[q] \/ Released(q),
         \/ Undisturbed(x, challenge[c])
         \/ \A q \in Callers : Judging(q) /\ call[q].c = c => Released(q)
  PROVE  AccountsInd'
<1>1. /\ challenge' \in [Challenges -> EmailChallenges] /\ challenge'[c] = x
      /\ \A d \in Challenges \ {c} : challenge'[d] = challenge[d]
  BY DEF AccountsInd, AccountsTypeOK
<1>2. AccountsTypeOK'
  BY <1>1 DEF AccountsInd, AccountsTypeOK, clock
<1>3. AttemptsCounted'
  BY <1>1 DEF AccountsInd, AttemptsCounted
<1>4. AddressesNamed'
  BY <1>1 DEF AccountsInd, AddressesNamed, Released
<1>5. \A q \in Callers : Judging(q)' => Judging(q) /\ call'[q] = call[q] /\ ~ Released(q)
  BY DEF Judging, Released
<1>6. ASSUME NEW q \in Callers PROVE ChallengeHeld(q)'
  <2> SUFFICES ASSUME Judging(q)' PROVE ChallengeHeld(q)'
    BY DEF ChallengeHeld
  <2>1. Judging(q) /\ call'[q] = call[q] /\ ChallengeHeld(q)
    BY <1>5 DEF AccountsInd
  <2>2. \A y \in Callers : Judging(y)' /\ call'[y].c = call'[q].c => y = q
    BY <1>5, <2>1 DEF ChallengeHeld
  <2>3. CASE call[q].c = c
    <3>1. Undisturbed(x, challenge[c])
      BY <1>5, <2>1, <2>3
    <3> QED BY <1>1, <2>1, <2>2, <2>3, <3>1 DEF ChallengeHeld, Undisturbed
  <2>4. CASE call[q].c # c
    BY <1>1, <2>1, <2>2, <2>4 DEF ChallengeHeld
  <2> QED BY <2>3, <2>4
<1> QED BY <1>2, <1>3, <1>4, <1>6 DEF AccountsInd

LEMMA Counted ==
  ASSUME AccountsInd, NEW c \in Challenges
  PROVE  /\ challenge[c] \in EmailChallenges /\ challenge[c].wrong = misses[c]
         /\ misses[c] <= MaxWrong /\ misses[c] \in Nat /\ MaxWrong \in Nat
BY AccountsAssumption DEF AccountsAssumption, AccountsInd, AccountsTypeOK, AttemptsCounted

LEMMA StoreChallengeKeeps ==
  ASSUME AccountsInd, NEW p \in Callers, NEW c \in Challenges, StoreChallenge(p, c)
  PROVE  AccountsInd'
<1> DEFINE x == [is |-> "open", to |-> call[p].a, wrong |-> 0, purpose |-> call[p].purpose,
                 cooling |-> TRUE]
<1>1. /\ call[p].op = "mail" /\ challenge[c] = Unsent
      /\ challenge' = [challenge EXCEPT ![c] = x]
      /\ call' = [call EXCEPT ![p] = Resting]
      /\ UNCHANGED <<misses, user, password>> /\ UNCHANGED rows /\ UNCHANGED clock
  BY DEF StoreChallenge, Finish
<1>2. call[p].a \in Addresses /\ call[p] \in Calls
  BY <1>1 DEF AccountsInd, AddressesNamed, AccountsTypeOK
<1>3. x \in EmailChallenges /\ x.to \in Addresses /\ x.wrong = 0
  BY <1>2 DEF EmailChallenges, Calls
<1> HIDE DEF x
<1>4. /\ call' \in [Callers -> Calls]
      /\ \A q \in Callers : call'[q] = call[q] \/ Released(q)
  BY <1>1, RestingIsCall, CallSet DEF AccountsInd, Released
<1>5. misses[c] = 0
  BY <1>1, Counted DEF Unsent
<1>6. \A q \in Callers : Judging(q) /\ call[q].c = c => Released(q)
  BY <1>1 DEF AccountsInd, ChallengeHeld, Unsent
<1>7. /\ mfa' \in [Addresses -> MfaRows] /\ browser' \in [Browsers -> Tokens]
      /\ key' \in [HumanKeys -> Tokens] /\ misses' \in [Challenges -> Nat]
      /\ user' \in SUBSET Addresses /\ user \subseteq user'
      /\ password' \in [Addresses -> Nat]
      /\ \A a \in Addresses : a \notin user' => password'[a] = 0
  BY <1>1 DEF AccountsInd, AccountsTypeOK, AddressesNamed, rows
<1>8. /\ x.wrong = misses'[c] /\ misses'[c] <= MaxWrong
      /\ \A d \in Challenges \ {c} : misses'[d] = misses[d]
  BY <1>1, <1>3, <1>5, Counted
<1> QED BY <1>1, <1>3, <1>4, <1>6, <1>7, <1>8, ChallengeKeeps

\* The cooldown of a challenge ends, or the challenge expires.
LEMMA AgeKeeps ==
  ASSUME AccountsInd, NEW c \in Challenges, Cool(c) \/ ExpireChallenge(c)
  PROVE  AccountsInd'
<1>1. challenge[c] \in EmailChallenges
  BY Counted
<1>2. \E x \in EmailChallenges :
        /\ challenge' = [challenge EXCEPT ![c] = x]
        /\ x.to = challenge[c].to /\ x.wrong = challenge[c].wrong
        /\ x.is = challenge[c].is \/ (challenge[c].is = "open" /\ x.is = "expired")
  <2>1. CASE Cool(c)
    <3> DEFINE x == [challenge[c] EXCEPT !.cooling = FALSE]
    <3>1. x \in EmailChallenges /\ challenge' = [challenge EXCEPT ![c] = x]
      BY <1>1, <2>1 DEF Cool, EmailChallenges
    <3>2. x.to = challenge[c].to /\ x.wrong = challenge[c].wrong /\ x.is = challenge[c].is
      BY <1>1 DEF EmailChallenges
    <3> QED BY <3>1, <3>2
  <2>2. CASE ExpireChallenge(c)
    <3> DEFINE x == [challenge[c] EXCEPT !.is = "expired"]
    <3>1. x \in EmailChallenges /\ challenge' = [challenge EXCEPT ![c] = x]
      BY <1>1, <2>2 DEF ExpireChallenge, EmailChallenges
    <3>2. x.to = challenge[c].to /\ x.wrong = challenge[c].wrong /\ x.is = "expired"
      BY <1>1 DEF EmailChallenges
    <3> QED BY <2>2, <3>1, <3>2 DEF ExpireChallenge
  <2> QED BY <2>1, <2>2
<1>3. PICK x \in EmailChallenges :
        /\ challenge' = [challenge EXCEPT ![c] = x]
        /\ x.to = challenge[c].to /\ x.wrong = challenge[c].wrong
        /\ x.is = challenge[c].is \/ (challenge[c].is = "open" /\ x.is = "expired")
  BY <1>2
<1>4. UNCHANGED <<misses, user, password, call>> /\ UNCHANGED rows /\ UNCHANGED clock
  BY DEF Cool, ExpireChallenge
<1>5. x.is # "absent" => x.to \in Addresses
  BY <1>3 DEF AccountsInd, AddressesNamed
<1>6. \/ Undisturbed(x, challenge[c])
      \/ \A q \in Callers : Judging(q) /\ call[q].c = c => Released(q)
  BY <1>3 DEF AccountsInd, ChallengeHeld, Undisturbed
<1>7. /\ mfa' \in [Addresses -> MfaRows] /\ browser' \in [Browsers -> Tokens]
      /\ key' \in [HumanKeys -> Tokens] /\ misses' \in [Challenges -> Nat]
      /\ user' \in SUBSET Addresses /\ user \subseteq user'
      /\ password' \in [Addresses -> Nat]
      /\ call' \in [Callers -> Calls]
      /\ \A a \in Addresses : a \notin user' => password'[a] = 0
  BY <1>4 DEF AccountsInd, AccountsTypeOK, AddressesNamed, rows
<1>8. /\ x.wrong = misses'[c] /\ misses'[c] <= MaxWrong
      /\ \A d \in Challenges \ {c} : misses'[d] = misses[d]
      /\ \A q \in Callers : call'[q] = call[q]
  BY <1>3, <1>4, Counted
<1> QED BY <1>3, <1>4, <1>5, <1>6, <1>7, <1>8, ChallengeKeeps

\* The holder counts from what it read, which nobody changed.
LEMMA WrongCodeKeeps ==
  ASSUME AccountsInd, NEW p \in Callers, WrongCode(p)
  PROVE  AccountsInd'
<1> DEFINE c == call[p].c
           x == [challenge[c] EXCEPT !.wrong = call[p].wrong + 1]
<1>1. /\ call[p].op = "judge" /\ Judging(p) /\ challenge' = [challenge EXCEPT ![c] = x]
      /\ misses' = [misses EXCEPT ![c] = @ + 1]
      /\ call' = [call EXCEPT ![p] = Resting]
      /\ UNCHANGED <<user, password>> /\ UNCHANGED rows /\ UNCHANGED clock
  BY DEF WrongCode, Finish, Judging
<1>2. /\ c \in Challenges /\ challenge[c].is \in {"open", "expired"}
      /\ call[p].wrong = challenge[c].wrong /\ call[p].wrong < MaxWrong
      /\ \A q \in Callers : Judging(q) /\ call[q].c = c => q = p
  BY <1>1 DEF AccountsInd, ChallengeHeld
<1> HIDE DEF c
<1>3. /\ challenge[c] \in EmailChallenges /\ challenge[c].wrong = misses[c]
      /\ misses[c] \in Nat /\ MaxWrong \in Nat
  BY <1>2, Counted
<1>4. /\ x \in EmailChallenges /\ x.wrong = misses[c] + 1 /\ x.to = challenge[c].to
      /\ x.is = challenge[c].is
  BY <1>2, <1>3 DEF EmailChallenges
<1> HIDE DEF x
<1>5. x.to \in Addresses
  BY <1>2, <1>4 DEF AccountsInd, AddressesNamed
<1>6. /\ misses' \in [Challenges -> Nat] /\ misses'[c] = misses[c] + 1
      /\ misses'[c] <= MaxWrong /\ \A d \in Challenges \ {c} : misses'[d] = misses[d]
  BY <1>1, <1>2, <1>3 DEF AccountsInd, AccountsTypeOK
<1>7. /\ call' \in [Callers -> Calls] /\ Released(p)
      /\ \A q \in Callers : call'[q] = call[q] \/ Released(q)
  BY <1>1, RestingIsCall, CallSet DEF AccountsInd, Released
<1>8. /\ mfa' \in [Addresses -> MfaRows] /\ browser' \in [Browsers -> Tokens]
      /\ key' \in [HumanKeys -> Tokens]
      /\ user' \in SUBSET Addresses /\ user \subseteq user'
      /\ password' \in [Addresses -> Nat]
      /\ \A a \in Addresses : a \notin user' => password'[a] = 0
  BY <1>1 DEF AccountsInd, AccountsTypeOK, AddressesNamed, rows
<1>9. \A q \in Callers : Judging(q) /\ call[q].c = c => Released(q)
  BY <1>2, <1>7
<1>10. x.wrong = misses'[c]
  BY <1>4, <1>6
<1> QED BY <1>1, <1>2, <1>4, <1>5, <1>6, <1>7, <1>8, <1>9, <1>10, ChallengeKeeps

\* A challenge that is used up: its holder goes on to the new session.
LEMMA ConsumeKeeps ==
  ASSUME AccountsInd, NEW p \in Callers, Judging(p),
         challenge' = Consume(p), SignInNext(p), UNCHANGED misses, UNCHANGED clock,
         user' \in SUBSET Addresses, user \subseteq user',
         password' \in [Addresses -> Nat],
         \A a \in Addresses : a \notin user' => password'[a] = 0,
         mfa' \in [Addresses -> MfaRows], browser' \in [Browsers -> Tokens],
         key' \in [HumanKeys -> Tokens]
  PROVE  AccountsInd'
<1> DEFINE c == call[p].c
           x == [challenge[c] EXCEPT !.is = "consumed"]
           r == [Resting EXCEPT !.op = "signin", !.a = call[p].a]
<1>1. challenge' = [challenge EXCEPT ![c] = x] /\ call' = [call EXCEPT ![p] = r]
  BY DEF Consume, SignInNext
<1>2. /\ c \in Challenges /\ call[p].a = challenge[c].to
      /\ \A q \in Callers : Judging(q) /\ call[q].c = c => q = p
  BY DEF AccountsInd, ChallengeHeld
<1>3. call[p].a \in Addresses
  BY DEF AccountsInd, AddressesNamed, Judging
<1>4. r \in Calls /\ r.op = "signin" /\ r.a = call[p].a
  BY <1>3, RestingIsCall DEF Calls, Resting
<1> HIDE DEF c, r
<1>5. /\ challenge[c] \in EmailChallenges /\ challenge[c].wrong = misses[c]
      /\ misses[c] <= MaxWrong
  BY <1>2, Counted
<1>6. x \in EmailChallenges /\ x.wrong = misses[c] /\ x.to = challenge[c].to
  BY <1>5 DEF EmailChallenges
<1> HIDE DEF x
<1>7. /\ call' \in [Callers -> Calls] /\ Released(p)
      /\ \A q \in Callers : call'[q] = call[q] \/ Released(q)
  BY <1>1, <1>3, <1>4, CallSet DEF AccountsInd, Released
<1>8. /\ x.wrong = misses'[c] /\ misses'[c] <= MaxWrong
      /\ misses' \in [Challenges -> Nat]
      /\ \A d \in Challenges \ {c} : misses'[d] = misses[d]
  BY <1>5, <1>6 DEF AccountsInd, AccountsTypeOK
<1>9. \A q \in Callers : Judging(q) /\ call[q].c = c => Released(q)
  BY <1>2, <1>7
<1>10. x.to \in Addresses
  BY <1>2, <1>3, <1>6
<1> QED BY <1>1, <1>2, <1>6, <1>7, <1>8, <1>9, <1>10, ChallengeKeeps

LEMMA CompleteRegistrationKeeps ==
  ASSUME AccountsInd, NEW p \in Callers, CompleteRegistration(p)
  PROVE  AccountsInd'
<1>1. /\ Judging(p) /\ user' = user \cup {call[p].a}
      /\ password' = [password EXCEPT ![call[p].a] = 1]
      /\ challenge' = Consume(p) /\ SignInNext(p)
      /\ UNCHANGED misses /\ UNCHANGED rows /\ UNCHANGED clock
  BY DEF CompleteRegistration, Judging
<1>2. call[p].a \in Addresses
  BY <1>1 DEF AccountsInd, AddressesNamed, Judging
<1>3. /\ user' \in SUBSET Addresses /\ user \subseteq user'
      /\ password' \in [Addresses -> Nat]
      /\ \A a \in Addresses : a \notin user' => password'[a] = 0
  BY <1>1, <1>2 DEF AccountsInd, AccountsTypeOK, AddressesNamed
<1>4. /\ mfa' \in [Addresses -> MfaRows] /\ browser' \in [Browsers -> Tokens]
      /\ key' \in [HumanKeys -> Tokens]
  BY <1>1, RowsTyped DEF rows, AccountsInd
<1> QED BY <1>1, <1>3, <1>4, ConsumeKeeps

\* A request that recovers an account found it.
LEMMA RecoverKeeps ==
  ASSUME AccountsInd, NEW p \in Callers, Recover(p)
  PROVE  AccountsInd'
<1>1. /\ Judging(p) /\ user' = user
      /\ password' = [password EXCEPT ![call[p].a] = @ + 1]
      /\ mfa' = Stored(p) /\ browser' = Revoked(browser, call[p].out)
      /\ key' = Revoked(key, call[p].keys)
      /\ challenge' = Consume(p) /\ SignInNext(p)
      /\ UNCHANGED misses /\ UNCHANGED clock
  BY DEF Recover, Judging
<1>2. /\ user' \in SUBSET Addresses /\ user \subseteq user'
      /\ password' \in [Addresses -> Nat]
      /\ \A a \in Addresses : a \notin user' => password'[a] = 0
  <2>1. call[p].op = "recover"
    BY DEF Recover
  <2> QED BY <1>1, <2>1 DEF AccountsInd, AccountsTypeOK, AddressesNamed
<1>3. /\ mfa' \in [Addresses -> MfaRows] /\ browser' \in [Browsers -> Tokens]
      /\ key' \in [HumanKeys -> Tokens]
  BY <1>1, RowsTyped, StoredTyped, RevokedTyped DEF AccountsInd
<1> QED BY <1>1, <1>2, <1>3, ConsumeKeeps

LEMMA AccountsStart == AccountsInit => AccountsInd
<1> SUFFICES ASSUME AccountsInit PROVE AccountsInd
  OBVIOUS
<1>1. MaxWrong \in Nat
  BY AccountsAssumption DEF AccountsAssumption
<1>2. Unsent \in EmailChallenges /\ Unborn \in Tokens /\ NoMfa \in MfaRows /\ Resting \in Calls
  BY RestingIsCall DEF Unsent, Unborn, EmailChallenges, Tokens, Purposes
<1>3. Unsent.is = "absent" /\ Unsent.wrong = 0 /\ Resting.op = "none"
  BY DEF Unsent, Resting
<1>4. AccountsTypeOK
  BY <1>2 DEF AccountsInit, AccountsTypeOK
<1>5. AttemptsCounted
  BY <1>1, <1>3 DEF AccountsInit, AttemptsCounted
<1>6. AddressesNamed
  BY <1>3 DEF AccountsInit, AddressesNamed
<1>7. \A p \in Callers : ChallengeHeld(p)
  BY <1>3 DEF AccountsInit, ChallengeHeld, Judging
<1> QED BY <1>4, <1>5, <1>6, <1>7 DEF AccountsInd

LEMMA AccountsNextKeeps == AccountsInd /\ [AccountsNext]_accountVars => AccountsInd'
<1> SUFFICES ASSUME AccountsInd, [AccountsNext]_accountVars PROVE AccountsInd'
  OBVIOUS
<1>1. ASSUME NEW p \in Callers, StartEmailChallenge(p) PROVE AccountsInd'
  BY <1>1, AskChallengeKeeps, StoreChallengeKeeps DEF StartEmailChallenge
<1>2. ASSUME NEW p \in Callers, SubmitCode(p) PROVE AccountsInd'
  BY <1>2, PresentKeeps, WrongCodeKeeps DEF SubmitCode
<1>3. ASSUME NEW p \in Callers, RegisterHuman(p) \/ CompleteAccountRecovery(p)
      PROVE  AccountsInd'
  BY <1>3, CompleteRegistrationKeeps, RecoverReadKeeps, RecoverKeeps
     DEF RegisterHuman, CompleteAccountRecovery
<1>4. ASSUME NEW p \in Callers,
             \/ LoginHuman(p) \/ TotpSetup(p) \/ RemoveTotp(p) \/ RotateLegacyHumanKey(p)
             \/ \E a \in Addresses : Reauthenticate(p, a)
      PROVE  AccountsInd'
  BY <1>4, RequestsStartKeeps, RequestsEndKeeps
     DEF LoginHuman, TotpSetup, RemoveTotp, RotateLegacyHumanKey
<1>5. ASSUME NEW p \in Callers, SignIn(p) \/ GiveUp(p) PROVE AccountsInd'
  BY <1>5, RequestsEndKeeps
<1>6. CASE \E c \in Challenges : Cool(c) \/ ExpireChallenge(c)
  BY <1>6, AgeKeeps
<1>7. CASE Tick \/ \E b \in Browsers : SignOut(b) \/ ExpireBrowser(b)
  BY <1>7, OutsideKeeps
<1>8. CASE UNCHANGED accountVars
  BY <1>8 DEF accountVars, AccountsInd, AccountsTypeOK, AttemptsCounted, AddressesNamed,
              ChallengeHeld, Judging
<1> QED BY <1>1, <1>2, <1>3, <1>4, <1>5, <1>6, <1>7, <1>8 DEF AccountsNext

\* In every state of the accounts the rows are well formed, each request that
\* holds a challenge is the only one that does and has read it as it is, and an
\* address without an account has no password (accounts/service.py,
\* _verify_challenge under the row's lock).
THEOREM AccountsInvariant == AccountsSpec => []AccountsInd
<1>1. AccountsInit => AccountsInd
  BY AccountsStart
<1>2. AccountsInd /\ [AccountsNext]_accountVars => AccountsInd'
  BY AccountsNextKeeps
<1> QED BY <1>1, <1>2, PTL DEF AccountsSpec

\* Every wrong code compared with a challenge is counted in its row and there
\* are never more than email_challenge_max_attempts of them, however many
\* requests present the challenge at once (_verify_challenge).
THEOREM WrongCodesAreCounted == AccountsSpec => []AttemptsCounted
BY AccountsInvariant, PTL DEF AccountsInd

\* The steps that change a password or use up a challenge.
LEMMA SpendStep ==
  ASSUME AccountsInd, [AccountsNext]_accountVars
  PROVE  \/ password' = password /\ \A c \in Challenges : challenge'[c].is = "consumed" =>
                                      challenge[c].is = "consumed"
         \/ \E p \in Callers : CompleteRegistration(p) \/ Recover(p)
<1> DEFINE Still == password' = password /\ challenge' = challenge
           Same == /\ password' = password
                   /\ \A c \in Challenges : challenge'[c].is = "consumed" =>
                                      challenge[c].is = "consumed"
<1>1. CASE UNCHANGED accountVars
  BY <1>1 DEF accountVars
<1>2. ASSUME NEW p \in Callers,
             \/ LoginHuman(p) \/ SignIn(p) \/ TotpSetup(p) \/ RemoveTotp(p)
             \/ RotateLegacyHumanKey(p) \/ (\E a \in Addresses : Reauthenticate(p, a))
             \/ GiveUp(p) \/ RecoverRead(p) \/ (\E c \in Challenges : Present(p, c))
             \/ \E a \in Addresses, purpose \in {"register", "recover"} :
                  AskChallenge(p, a, purpose)
      PROVE  Still
  BY <1>2 DEF LoginHuman, Authenticate, Authenticated, SignIn, TotpSetup, BeginSetup,
              ConfirmSetup, Store, RemoveTotp, BeginDisable, Disable, RotateLegacyHumanKey,
              BeginRotate, RotateKey, Reauthenticate, Prove, GiveUp, RecoverRead, Present,
              AskChallenge, identity
<1>3. CASE Tick \/ \E b \in Browsers : SignOut(b) \/ ExpireBrowser(b)
  BY <1>3 DEF Tick, SignOut, ExpireBrowser, identity
<1>4. \A c \in Challenges : challenge[c] \in EmailChallenges
  BY Counted
<1>5. ASSUME NEW p \in Callers, NEW c \in Challenges, StoreChallenge(p, c) PROVE Same
  BY <1>4, <1>5 DEF StoreChallenge, EmailChallenges, AccountsInd, AccountsTypeOK
<1>6. ASSUME NEW p \in Callers, WrongCode(p) PROVE Same
  <2>1. challenge' = [challenge EXCEPT ![call[p].c].wrong = call[p].wrong + 1]
        /\ password' = password
    BY <1>6 DEF WrongCode
  <2>2. \A c \in Challenges : challenge'[c].is = challenge[c].is
    BY <1>4, <2>1 DEF EmailChallenges, AccountsInd, AccountsTypeOK
  <2> QED BY <2>1, <2>2
<1>7. ASSUME NEW c \in Challenges, Cool(c) \/ ExpireChallenge(c) PROVE Same
  BY <1>4, <1>7 DEF Cool, ExpireChallenge, EmailChallenges, AccountsInd, AccountsTypeOK
<1> QED
  BY <1>1, <1>2, <1>3, <1>5, <1>6, <1>7
     DEF AccountsNext, StartEmailChallenge, SubmitCode, RegisterHuman, CompleteAccountRecovery

\* What the holder of challenge c spends it on.
LEMMA SpendsOne ==
  ASSUME AccountsInd, NEW p \in Callers, CompleteRegistration(p) \/ Recover(p)
  PROVE  \E c \in Challenges :
           /\ challenge[c].is # "consumed" /\ challenge'[c].is = "consumed"
           /\ \A d \in Challenges \ {c} : challenge'[d] = challenge[d]
           /\ password'[challenge[c].to] = password[challenge[c].to] + 1
           /\ \A a \in Addresses \ {challenge[c].to} : password'[a] = password[a]
<1>1. Judging(p) /\ challenge' = Consume(p)
  BY DEF CompleteRegistration, Recover, Judging
<1> DEFINE c == call[p].c
<1>2. /\ c \in Challenges /\ challenge[c].is # "consumed" /\ call[p].a = challenge[c].to
      /\ call[p].a \in Addresses
  BY <1>1 DEF AccountsInd, ChallengeHeld, AddressesNamed, Judging
<1>3. /\ challenge'[c].is = "consumed"
      /\ \A d \in Challenges \ {c} : challenge'[d] = challenge[d]
  BY <1>1, <1>2, Counted DEF Consume, EmailChallenges, AccountsInd, AccountsTypeOK
<1>4. /\ password'[call[p].a] = password[call[p].a] + 1
      /\ \A a \in Addresses \ {call[p].a} : password'[a] = password[a]
  <2>1. password \in [Addresses -> Nat]
    BY DEF AccountsInd, AccountsTypeOK
  <2>2. CASE CompleteRegistration(p)
    <3>1. password[call[p].a] = 0
      BY <1>2, <2>2 DEF CompleteRegistration, AccountsInd, AddressesNamed
    <3> QED BY <1>2, <2>1, <2>2, <3>1 DEF CompleteRegistration
  <2>3. CASE Recover(p)
    BY <1>2, <2>1, <2>3 DEF Recover
  <2> QED BY <2>2, <2>3
<1> QED BY <1>2, <1>3, <1>4

\* An account is made, or gets another password, exactly by a step that uses up
\* one challenge sent to its address, and using one up makes or changes one
\* (complete_registration and recover_account of accounts/service.py).
THEOREM ChallengesAreSpentOnce == AccountsSpec => ChallengeSpentOnce
<1> DEFINE Spent ==
      /\ \A a \in Addresses : password'[a] # password[a] =>
           \E c \in Challenges : /\ challenge[c].to = a
                                 /\ challenge[c].is # "consumed" /\ challenge'[c].is = "consumed"
      /\ \A c \in Challenges : challenge[c].is # "consumed" /\ challenge'[c].is = "consumed" =>
           password'[challenge[c].to] = password[challenge[c].to] + 1
<1>1. AccountsInd /\ [AccountsNext]_accountVars => Spent
  <2> SUFFICES ASSUME AccountsInd, [AccountsNext]_accountVars PROVE Spent
    OBVIOUS
  <2>1. CASE password' = password /\ \A c \in Challenges : challenge'[c].is = "consumed" =>
                                       challenge[c].is = "consumed"
    BY <2>1
  <2>2. ASSUME NEW p \in Callers, CompleteRegistration(p) \/ Recover(p) PROVE Spent
    <3>1. PICK c \in Challenges :
           /\ challenge[c].is # "consumed" /\ challenge'[c].is = "consumed"
           /\ \A d \in Challenges \ {c} : challenge'[d] = challenge[d]
           /\ password'[challenge[c].to] = password[challenge[c].to] + 1
           /\ \A a \in Addresses \ {challenge[c].to} : password'[a] = password[a]
      BY <2>2, SpendsOne
    <3> QED BY <3>1
  <2> QED BY <2>1, <2>2, SpendStep
<1> QED BY <1>1, AccountsInvariant, PTL DEF AccountsSpec, ChallengeSpentOnce
=============================================================================

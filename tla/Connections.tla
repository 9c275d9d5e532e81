---------------------------- MODULE Connections ----------------------------
(***************************************************************************)
(* Pairing a device with an Agent, the connector this creates and the      *)
(* credentials it hands out: onboarding/service.py, oauth/service.py and   *)
(* disable_owned_agent of control/service.py.                              *)
(*                                                                         *)
(* An approved pairing creates exactly one ConnectorInstance and at most   *)
(* one token family, so the connector and the tokens of pairing p are      *)
(* named by p.  A request that takes row locks is a record in tx: its      *)
(* first step takes the locks and reads, its last step commits and frees   *)
(* them; what it read without a lock may have changed in between.          *)
(***************************************************************************)
EXTENDS Naturals, FiniteSets

CONSTANTS
  Pairings,   \* device sessions
  Agents,     \* Agents of the one Human who decides
  Keys,       \* Idempotency-Keys of decisions
  Sessions,   \* requests in flight at once
  MaxGen,     \* refresh token generations per family
  MaxNotices, \* upgrade notifications per connector
  NoPairing, NoAgent, NoKey, NoSession

ASSUME ConnAssumption ==
  /\ MaxGen \in Nat \ {0} /\ MaxNotices \in Nat
  /\ NoPairing \notin Pairings /\ NoAgent \notin Agents
  /\ NoKey \notin Keys /\ NoSession \notin Sessions

VARIABLES
  pairing,  \* AgentPairingSession.status
  mode,     \* AgentPairingSession.credential_mode
  clock,    \* which deadlines of the pairing have passed: none, first, renewed
  decided,  \* the recorded decision and its Idempotency-Key
  agentOf,  \* pairing.agent_id
  agent,    \* Agent.status
  binding,  \* AgentConnectorBinding: the pairing whose connector is current
  conn,     \* ConnectorInstance.status
  cred,     \* row 0: the API key; row n > 0: the n-th pair of OAuth tokens
  auth,     \* OAuthAuthorizationRequest.status of a "code" pairing
  notices,  \* upgrade notifications sent to the connector's Agent
  lock,     \* row -> the request that holds it FOR UPDATE
  tx        \* the requests in flight

vars == <<pairing, mode, clock, decided, agentOf, agent, binding, conn, cred, auth,
          notices, lock, tx>>

Gens == 0..MaxGen
Rows == ({"pairing", "connector", "authorization"} \X Pairings)
          \cup ({"agent", "binding"} \X Agents)
          \cup ({"refresh"} \X Pairings \X Gens)
          \cup {<<"human">>}

PairingStatus == {"absent", "pending", "approved", "denied", "expired", "consumed"}
NoDecision == [verdict |-> "none", key |-> NoKey]
Decisions == {NoDecision} \cup [verdict : {"approved", "denied"}, key : Keys]
ConnStatus == {"none", "active", "replaced", "revoked"}
CredStatus == {"none", "live", "consumed", "revoked"}
AuthStatus == {"none", "pending", "approved", "denied", "expired", "consumed"}

Idle == [op |-> "idle", p |-> NoPairing, a |-> NoAgent, key |-> NoKey,
         gen |-> 0, rows |-> {}]
Steps == {"idle", "preview", "decide", "target", "create", "replace", "issue",
          "device", "exchange", "rotate", "kill", "revoke", "unbind",
          "disable", "retire", "beat"}
Requests == [op : Steps, p : Pairings \cup {NoPairing}, a : Agents \cup {NoAgent},
             key : Keys \cup {NoKey}, gen : Gens, rows : SUBSET Gens]

TypeOK ==
  /\ pairing \in [Pairings -> PairingStatus]
  /\ mode \in [Pairings -> {"none", "api_key", "device", "code"}]
  /\ clock \in [Pairings -> {"none", "first", "renewed"}]
  /\ decided \in [Pairings -> Decisions]
  /\ agentOf \in [Pairings -> Agents \cup {NoAgent}]
  /\ agent \in [Agents -> {"absent", "active", "disabled"}]
  /\ binding \in [Agents -> Pairings \cup {NoPairing}]
  /\ conn \in [Pairings -> ConnStatus]
  /\ cred \in [Pairings -> [Gens -> CredStatus]]
  /\ auth \in [Pairings -> AuthStatus]
  /\ notices \in [Pairings -> 0..MaxNotices]
  /\ lock \in [Rows -> Sessions \cup {NoSession}]
  /\ tx \in [Sessions -> Requests]

Init ==
  /\ pairing = [p \in Pairings |-> "absent"]
  /\ mode = [p \in Pairings |-> "none"]
  /\ clock = [p \in Pairings |-> "none"]
  /\ decided = [p \in Pairings |-> NoDecision]
  /\ agentOf = [p \in Pairings |-> NoAgent]
  /\ agent = [a \in Agents |-> "absent"]
  /\ binding = [a \in Agents |-> NoPairing]
  /\ conn = [p \in Pairings |-> "none"]
  /\ cred = [p \in Pairings |-> [n \in Gens |-> "none"]]
  /\ auth = [p \in Pairings |-> "none"]
  /\ notices = [p \in Pairings |-> 0]
  /\ lock = [r \in Rows |-> NoSession]
  /\ tx = [s \in Sessions |-> Idle]

-----------------------------------------------------------------------------
(* Rows, deadlines and what a request reads.                               *)

FreeRow(r) == lock[r] = NoSession
Take(s, rs) == /\ \A r \in rs : FreeRow(r)
               /\ lock' = [r \in Rows |-> IF r \in rs THEN s ELSE lock[r]]
\* The transaction ends: its locks are released and the request is answered.
End(s) == /\ lock' = [r \in Rows |-> IF lock[r] = s THEN NoSession ELSE lock[r]]
          /\ tx' = [tx EXCEPT ![s] = Idle]
\* A row this request updates: nobody else may hold it.
Writable(s, r) == lock[r] \in {s, NoSession}

\* An approval renews expires_at; the first deadline then no longer counts.
Expired(p) == IF decided[p].verdict = "approved" THEN clock[p] = "renewed"
                                                 ELSE clock[p] # "none"

\* connector active and the Agent's binding points to it
Current(p) == /\ agentOf[p] # NoAgent
              /\ conn[p] = "active"
              /\ binding[agentOf[p]] = p

Issued(p) == {n \in Gens : cred[p][n] # "none"}
\* revoked_at = revoked_at or now, on the rows the request has loaded
Withdraw(p, rs) ==
  [n \in Gens |-> IF n \in rs /\ cred[p][n] = "live" THEN "revoked" ELSE cred[p][n]]
RowsWritable(s, p, rs) ==
  \A n \in rs : cred[p][n] = "live" => Writable(s, <<"refresh", p, n>>)

unchangedPairing == UNCHANGED <<pairing, mode, clock, decided, agentOf, auth>>
unchangedConn == UNCHANGED <<agent, binding, conn, cred, notices>>

-----------------------------------------------------------------------------
(* The device opens a pairing.                                             *)

OpenPairing(p, m) ==
  /\ pairing[p] = "absent"
  /\ pairing' = [pairing EXCEPT ![p] = "pending"]
  /\ mode' = [mode EXCEPT ![p] = m]
  /\ UNCHANGED <<clock, decided, agentOf, lock, tx>>
  /\ unchangedConn

CreatePairing(p) == OpenPairing(p, "api_key") /\ UNCHANGED auth

CreateDeviceAuthorization(p) == OpenPairing(p, "device") /\ UNCHANGED auth

\* The pairing and the authorization request are inserted by one commit.
StartAuthorizationCode(p) ==
  /\ OpenPairing(p, "code")
  /\ auth' = [auth EXCEPT ![p] = "pending"]

\* A deadline is watched only while a request may still ask for it.
PassDeadline(p) ==
  /\ pairing[p] \in {"pending", "approved"} \/ auth[p] \in {"pending", "approved"}
  /\ \/ clock[p] = "none" /\ clock' = [clock EXCEPT ![p] = "first"]
     \/ /\ clock[p] = "first" /\ decided[p].verdict = "approved"
        /\ clock' = [clock EXCEPT ![p] = "renewed"]
  /\ UNCHANGED <<pairing, mode, decided, agentOf, auth, lock, tx>>
  /\ unchangedConn

-----------------------------------------------------------------------------
(* get_pairing_for_human and _expire_if_needed: the preview reads without a *)
(* lock and then writes "expired" over whatever was committed meanwhile.    *)

PreviewRead(s, p) ==
  /\ tx[s].op = "idle"
  /\ pairing[p] \in {"pending", "approved"} /\ Expired(p)
  /\ tx' = [tx EXCEPT ![s] = [Idle EXCEPT !.op = "preview", !.p = p]]
  /\ UNCHANGED lock /\ unchangedPairing /\ unchangedConn

ExpireWrite(s) ==
  LET p == tx[s].p IN
  /\ tx[s].op = "preview" /\ FreeRow(<<"pairing", p>>)
  /\ pairing' = [pairing EXCEPT ![p] = "expired"]
  /\ End(s)
  /\ UNCHANGED <<mode, clock, decided, agentOf, auth>> /\ unchangedConn

\* The same check by a caller that holds the row: a decision or a poll.
ExpireLocked(p) ==
  /\ pairing[p] \in {"pending", "approved"} /\ Expired(p)
  /\ FreeRow(<<"pairing", p>>)
  /\ pairing' = [pairing EXCEPT ![p] = "expired"]
  /\ UNCHANGED <<mode, clock, decided, agentOf, auth, lock, tx>> /\ unchangedConn

-----------------------------------------------------------------------------
(* decide_pairing.  The key lookup takes no lock: a key used twice at once *)
(* is caught by the unique constraint when the second request commits.     *)

DecideBegin(s, p, k) ==
  /\ tx[s].op = "idle"
  /\ \A q \in Pairings : decided[q].key # k
  /\ pairing[p] = "pending" /\ ~Expired(p)
  /\ Take(s, {<<"pairing", p>>})
  /\ tx' = [tx EXCEPT ![s] = [Idle EXCEPT !.op = "decide", !.p = p, !.key = k]]
  /\ unchangedPairing /\ unchangedConn

UniqueKeyUnchecked(s) == TRUE
UniqueKey(s) == \A q \in Pairings : decided[q].key # tx[s].key

Deny(s) ==
  LET p == tx[s].p IN
  /\ tx[s].op = "decide" /\ UniqueKey(s)
  /\ pairing' = [pairing EXCEPT ![p] = "denied"]
  /\ decided' = [decided EXCEPT ![p] = [verdict |-> "denied", key |-> tx[s].key]]
  /\ End(s)
  /\ UNCHANGED <<mode, clock, agentOf, auth>> /\ unchangedConn

\* An existing Agent: owned, active, its row locked.
AgentUnlocked(s, a) == agent[a] = "active" /\ UNCHANGED lock
AgentLocked(s, a) == agent[a] = "active" /\ Take(s, {<<"agent", a>>})

ChooseExisting(s, a) ==
  /\ tx[s].op = "decide" /\ AgentLocked(s, a)
  /\ tx' = [tx EXCEPT ![s].op = "target", ![s].a = a]
  /\ unchangedPairing /\ unchangedConn

\* A new Agent: the Human's row is locked while the address is allocated.
ChooseNew(s, a) ==
  /\ tx[s].op = "decide" /\ agent[a] = "absent"
  /\ Take(s, {<<"human">>})
  /\ tx' = [tx EXCEPT ![s].op = "create", ![s].a = a]
  /\ unchangedPairing /\ unchangedConn

\* The binding is locked, the credentials of the connector it names are read.
DecideBinding(s) ==
  LET a == tx[s].a IN
  /\ tx[s].op = "target"
  /\ Take(s, {<<"binding", a>>})
  /\ tx' = [tx EXCEPT ![s].op = "replace",
       ![s].rows = IF binding[a] = NoPairing THEN {} ELSE Issued(binding[a])]
  /\ unchangedPairing /\ unchangedConn

RecordApproval(s, p, a) ==
  /\ pairing' = [pairing EXCEPT ![p] = "approved"]
  /\ decided' = [decided EXCEPT ![p] = [verdict |-> "approved", key |-> tx[s].key]]
  /\ agentOf' = [agentOf EXCEPT ![p] = a]
  /\ binding' = [binding EXCEPT ![a] = p]
  /\ UNCHANGED <<mode, clock, auth, notices>>

ApproveNew(s) ==
  LET p == tx[s].p  a == tx[s].a IN
  /\ tx[s].op = "create" /\ UniqueKey(s)
  /\ RecordApproval(s, p, a)
  /\ agent' = [agent EXCEPT ![a] = "active"]
  /\ conn' = [conn EXCEPT ![p] = "active"]
  /\ End(s) /\ UNCHANGED cred

ApproveExisting(s) ==
  LET p == tx[s].p  a == tx[s].a  previous == binding[a] IN
  /\ tx[s].op = "replace" /\ UniqueKey(s)
  /\ RecordApproval(s, p, a)
  /\ IF previous = NoPairing
     THEN /\ conn' = [conn EXCEPT ![p] = "active"]
          /\ UNCHANGED cred
     ELSE /\ Writable(s, <<"connector", previous>>)
          /\ RowsWritable(s, previous, tx[s].rows)
          /\ conn' = [conn EXCEPT ![previous] = "replaced", ![p] = "active"]
          /\ cred' = [cred EXCEPT ![previous] = Withdraw(previous, tx[s].rows)]
  /\ End(s) /\ UNCHANGED agent

-----------------------------------------------------------------------------
(* issue_pairing_token: the poll of an API-key device.  The connector, its *)
(* binding and its key are read without a lock; the insert waits for a      *)
(* revocation that holds the connector's row (foreign key).                *)

IssueBegin(s, p) ==
  /\ tx[s].op = "idle" /\ mode[p] = "api_key"
  /\ pairing[p] \in {"approved", "consumed"}
  /\ pairing[p] = "approved" => ~Expired(p)
  /\ Current(p) /\ cred[p][0] # "revoked"
  /\ Take(s, {<<"pairing", p>>})
  /\ tx' = [tx EXCEPT ![s] = [Idle EXCEPT !.op = "issue", !.p = p, !.rows = Issued(p)]]
  /\ unchangedPairing /\ unchangedConn

IssueCommit(s) ==
  LET p == tx[s].p IN
  /\ tx[s].op = "issue"
  /\ IF tx[s].rows = {}
     THEN /\ FreeRow(<<"connector", p>>)
          /\ cred' = [cred EXCEPT ![p][0] = "live"]
     ELSE UNCHANGED cred
  /\ pairing' = [pairing EXCEPT ![p] = "consumed"]
  /\ End(s)
  /\ UNCHANGED <<mode, clock, decided, agentOf, auth, agent, binding, conn, notices>>

-----------------------------------------------------------------------------
(* OAuth: the device grant, the authorization code grant and the rotation  *)
(* of refresh tokens.  _create_token_rows inserts a pair of tokens.        *)

CreateTokenRows(p, n) ==
  /\ n \in Gens /\ FreeRow(<<"connector", p>>)
  /\ cred' = [cred EXCEPT ![p][n] = "live"]

\* A poll after the grant is consumed changes nothing: it hands out the same
\* derived tokens while they are live.
DeviceBegin(s, p) ==
  /\ tx[s].op = "idle" /\ mode[p] = "device"
  /\ pairing[p] = "approved" /\ ~Expired(p) /\ Current(p)
  /\ Take(s, {<<"pairing", p>>})
  /\ tx' = [tx EXCEPT ![s] = [Idle EXCEPT !.op = "device", !.p = p]]
  /\ unchangedPairing /\ unchangedConn

DeviceCommit(s) ==
  LET p == tx[s].p IN
  /\ tx[s].op = "device"
  /\ CreateTokenRows(p, 1)
  /\ pairing' = [pairing EXCEPT ![p] = "consumed"]
  /\ End(s)
  /\ UNCHANGED <<mode, clock, decided, agentOf, auth, agent, binding, conn, notices>>

\* The authorization expires at the first deadline, also when the approval has
\* renewed the pairing; a code is handed out once.
CompleteAuthorization(p) ==
  /\ auth[p] # "none" /\ FreeRow(<<"authorization", p>>)
  /\ \/ /\ clock[p] # "none"
        /\ auth' = [auth EXCEPT ![p] = "expired"]
     \/ /\ clock[p] = "none" /\ pairing[p] = "denied"
        /\ auth' = [auth EXCEPT ![p] = "denied"]
     \/ /\ clock[p] = "none" /\ pairing[p] = "approved" /\ auth[p] = "pending"
        /\ auth' = [auth EXCEPT ![p] = "approved"]
  /\ UNCHANGED <<pairing, mode, clock, decided, agentOf, lock, tx>> /\ unchangedConn

ExchangeBegin(s, p) ==
  /\ tx[s].op = "idle"
  /\ auth[p] = "approved" /\ pairing[p] = "approved" /\ Current(p)
  /\ Take(s, {<<"authorization", p>>})
  /\ tx' = [tx EXCEPT ![s] = [Idle EXCEPT !.op = "exchange", !.p = p]]
  /\ unchangedPairing /\ unchangedConn

ExchangeCommit(s) ==
  LET p == tx[s].p IN
  /\ tx[s].op = "exchange" /\ FreeRow(<<"pairing", p>>)
  /\ CreateTokenRows(p, 1)
  /\ auth' = [auth EXCEPT ![p] = "consumed"]
  /\ pairing' = [pairing EXCEPT ![p] = "consumed"]
  /\ End(s)
  /\ UNCHANGED <<mode, clock, decided, agentOf, agent, binding, conn, notices>>

\* Only the presented token's row is locked; the family is read unlocked.
PresentedUnlocked(s, p, n) == UNCHANGED lock
Presented(s, p, n) == Take(s, {<<"refresh", p, n>>})

RefreshBegin(s, p, n) ==
  /\ tx[s].op = "idle" /\ cred[p][n] \in {"live", "consumed"}
  /\ Presented(s, p, n)
  /\ tx' = [tx EXCEPT ![s] = [Idle EXCEPT !.p = p, !.gen = n, !.rows = Issued(p),
       !.op = IF cred[p][n] = "live" /\ Current(p) THEN "rotate" ELSE "kill"]]
  /\ unchangedPairing /\ unchangedConn

Rotate(s) ==
  LET p == tx[s].p  n == tx[s].gen  fresh == Cardinality(Issued(p) \ {0}) + 1 IN
  /\ tx[s].op = "rotate" /\ fresh <= MaxGen
  /\ RowsWritable(s, p, tx[s].rows) /\ FreeRow(<<"connector", p>>)
  /\ cred' = [cred EXCEPT ![p] =
       [Withdraw(p, tx[s].rows) EXCEPT ![n] = "consumed", ![fresh] = "live"]]
  /\ End(s)
  /\ unchangedPairing /\ UNCHANGED <<agent, binding, conn, notices>>

\* A consumed token was presented again, or the connector is no longer current.
RevokeFamily(s) ==
  LET p == tx[s].p IN
  /\ tx[s].op = "kill" /\ RowsWritable(s, p, tx[s].rows)
  /\ cred' = [cred EXCEPT ![p] = Withdraw(p, tx[s].rows)]
  /\ End(s)
  /\ unchangedPairing /\ UNCHANGED <<agent, binding, conn, notices>>

-----------------------------------------------------------------------------
(* revoke_connector locks the connector, then the binding; a decision locks *)
(* the binding and then writes the connector.                               *)

RevokeBegin(s, p) ==
  /\ tx[s].op = "idle" /\ conn[p] = "active"
  /\ Take(s, {<<"connector", p>>})
  /\ tx' = [tx EXCEPT ![s] = [Idle EXCEPT !.op = "revoke", !.p = p]]
  /\ unchangedPairing /\ unchangedConn

RevokeBinding(s) ==
  LET p == tx[s].p  a == agentOf[p] IN
  /\ tx[s].op = "revoke" /\ binding[a] = p
  /\ Take(s, {<<"binding", a>>})
  /\ tx' = [tx EXCEPT ![s].op = "unbind", ![s].rows = Issued(p)]
  /\ unchangedPairing /\ unchangedConn

RevokeConnector(s) ==
  LET p == tx[s].p IN
  /\ tx[s].op = "unbind" /\ RowsWritable(s, p, tx[s].rows)
  /\ binding' = [binding EXCEPT ![agentOf[p]] = NoPairing]
  /\ conn' = [conn EXCEPT ![p] = "revoked"]
  /\ cred' = [cred EXCEPT ![p] = Withdraw(p, tx[s].rows)]
  /\ End(s)
  /\ unchangedPairing /\ UNCHANGED <<agent, notices>>

(* disable_owned_agent: the Agent's row, then its binding.                 *)

DisableBegin(s, a) ==
  /\ tx[s].op = "idle" /\ agent[a] = "active"
  /\ Take(s, {<<"agent", a>>})
  /\ tx' = [tx EXCEPT ![s] = [Idle EXCEPT !.op = "disable", !.a = a]]
  /\ unchangedPairing /\ unchangedConn

DisableBinding(s) ==
  LET a == tx[s].a IN
  /\ tx[s].op = "disable"
  /\ Take(s, {<<"binding", a>>})
  /\ tx' = [tx EXCEPT ![s].op = "retire",
       ![s].rows = IF binding[a] = NoPairing THEN {} ELSE Issued(binding[a])]
  /\ unchangedPairing /\ unchangedConn

DisableAgent(s) ==
  LET a == tx[s].a  p == binding[a] IN
  /\ tx[s].op = "retire"
  /\ agent' = [agent EXCEPT ![a] = "disabled"]
  /\ binding' = [binding EXCEPT ![a] = NoPairing]
  /\ IF p = NoPairing
     THEN UNCHANGED <<conn, cred>>
     ELSE /\ Writable(s, <<"connector", p>>)
          /\ RowsWritable(s, p, tx[s].rows)
          /\ conn' = [conn EXCEPT ![p] = "revoked"]
          /\ cred' = [cred EXCEPT ![p] = Withdraw(p, tx[s].rows)]
  /\ End(s)
  /\ unchangedPairing /\ UNCHANGED notices

-----------------------------------------------------------------------------
(* The heartbeat of an outdated connector.  get_current_agent loads the     *)
(* connector while it authenticates; the locked read of the heartbeat does  *)
(* not refresh it, so the upgrade check judges what authentication saw.     *)

HeartbeatBegin(s, p) ==
  /\ tx[s].op = "idle" /\ cred[p][0] = "live"
  /\ agentOf[p] # NoAgent /\ agent[agentOf[p]] = "active"
  /\ tx' = [tx EXCEPT ![s] = [Idle EXCEPT !.op = "beat", !.p = p,
       !.rows = IF notices[p] = 0 THEN {} ELSE {0}]]
  /\ UNCHANGED lock /\ unchangedPairing /\ unchangedConn

RecordHeartbeat(s) ==
  LET p == tx[s].p IN
  /\ tx[s].op = "beat" /\ FreeRow(<<"connector", p>>) /\ Current(p)
  /\ IF tx[s].rows = {} THEN /\ notices[p] < MaxNotices
                             /\ notices' = [notices EXCEPT ![p] = @ + 1]
                        ELSE UNCHANGED notices
  /\ End(s)
  /\ unchangedPairing /\ UNCHANGED <<agent, binding, conn, cred>>

\* A refused request, a deadlock victim and a lost process leave the same
\* trace: the transaction is rolled back.
Abort(s) ==
  /\ tx[s].op # "idle" /\ End(s)
  /\ unchangedPairing /\ unchangedConn

-----------------------------------------------------------------------------
Request(s) ==
  \/ \E p \in Pairings :
       \/ PreviewRead(s, p) \/ IssueBegin(s, p) \/ DeviceBegin(s, p)
       \/ ExchangeBegin(s, p) \/ RevokeBegin(s, p) \/ HeartbeatBegin(s, p)
       \/ \E k \in Keys : DecideBegin(s, p, k)
       \/ \E n \in Gens \ {0} : RefreshBegin(s, p, n)
  \/ \E a \in Agents :
       ChooseExisting(s, a) \/ ChooseNew(s, a) \/ DisableBegin(s, a)
  \/ DecideBinding(s) \/ RevokeBinding(s) \/ DisableBinding(s)

Commit(s) ==
  \/ ExpireWrite(s) \/ Deny(s) \/ ApproveNew(s) \/ ApproveExisting(s)
  \/ IssueCommit(s) \/ DeviceCommit(s) \/ ExchangeCommit(s)
  \/ Rotate(s) \/ RevokeFamily(s)
  \/ RevokeConnector(s) \/ DisableAgent(s) \/ RecordHeartbeat(s)

Next ==
  \/ \E p \in Pairings :
       \/ CreatePairing(p) \/ CreateDeviceAuthorization(p)
       \/ StartAuthorizationCode(p) \/ CompleteAuthorization(p)
       \/ PassDeadline(p) \/ ExpireLocked(p)
  \/ \E s \in Sessions : Request(s) \/ Commit(s) \/ Abort(s)

Spec == Init /\ [][Next]_vars

-----------------------------------------------------------------------------
(* Properties.                                                             *)

\* What the requests in flight hold, and what they may rely on while they do.
ReqInv(s) ==
  LET t == tx[s] IN
    /\ t.op \in {"decide", "target", "create", "replace"} =>
         /\ t.p \in Pairings /\ t.key \in Keys
         /\ lock[<<"pairing", t.p>>] = s /\ pairing[t.p] = "pending"
    /\ t.op \in {"target", "replace", "disable", "retire"} =>
         /\ t.a \in Agents /\ agent[t.a] = "active"
         /\ lock[<<"agent", t.a>>] = s
    /\ t.op = "create" =>
         t.a \in Agents /\ agent[t.a] = "absent" /\ lock[<<"human">>] = s
    /\ t.op \in {"replace", "retire"} => lock[<<"binding", t.a>>] = s
    /\ t.op \in {"revoke", "unbind"} =>
         /\ t.p \in Pairings /\ conn[t.p] = "active"
         /\ lock[<<"connector", t.p>>] = s
    /\ t.op = "unbind" => lock[<<"binding", agentOf[t.p]>>] = s
    /\ t.op \in {"issue", "device", "exchange", "rotate", "kill", "preview", "beat"} =>
         t.p \in Pairings
    /\ t.op \in {"issue", "device"} =>
         /\ lock[<<"pairing", t.p>>] = s
         /\ pairing[t.p] \in {"approved", "consumed"}
    /\ t.op = "device" => pairing[t.p] = "approved" /\ mode[t.p] = "device"
    /\ t.op = "exchange" =>
         auth[t.p] = "approved" /\ lock[<<"authorization", t.p>>] = s
    /\ t.op = "rotate" =>
         /\ t.gen # 0 /\ cred[t.p][t.gen] = "live"
         /\ lock[<<"refresh", t.p, t.gen>>] = s

RequestInv == \A s \in Sessions : ReqInv(s)

\* The decision, the Agent it chose and the connector it created go together.
DecidedInv ==
  \A p \in Pairings :
    /\ pairing[p] \in {"absent", "pending"} => decided[p] = NoDecision
    /\ pairing[p] \in {"approved", "consumed"} => decided[p].verdict = "approved"
    /\ decided[p].verdict = "approved" <=> agentOf[p] # NoAgent
    /\ decided[p].verdict = "approved" <=> conn[p] # "none"
    /\ auth[p] # "none" => mode[p] = "code"

\* A spent grant stays spent, and a family's tokens are issued in order, each
\* after the one before it is out of use.
GrantInv ==
  \A p \in Pairings :
    /\ \A m, n \in Gens \ {0} :
         m < n /\ cred[p][n] # "none" => cred[p][m] \notin {"none", "live"}
    /\ \A n \in Gens \ {0} : cred[p][n] # "none" =>
         \/ mode[p] = "device" /\ pairing[p] \in {"consumed", "expired"}
         \/ mode[p] = "code" /\ auth[p] \in {"consumed", "expired"}

\* What a binding names is the one active connector of an active Agent, and an
\* active connector is always the bound one: decide_pairing, revoke_connector
\* and disable_owned_agent each change both tables, under different locks.
BoundIsActive ==
  /\ \A a \in Agents : binding[a] # NoPairing =>
       /\ conn[binding[a]] = "active" /\ agentOf[binding[a]] = a
       /\ agent[a] = "active"
  /\ \A p \in Pairings : conn[p] = "active" => Current(p)

ConnInv == TypeOK /\ RequestInv /\ DecidedInv /\ GrantInv /\ BoundIsActive

\* A grant yields one token family and the family has one usable refresh token:
\* refresh_access_token locks only the token presented, exchange_device_code
\* only the pairing, exchange_authorization_code only the authorization.
OneUsableRefresh ==
  \A p \in Pairings : \A m, n \in Gens \ {0} :
    cred[p][m] = "live" /\ cred[p][n] = "live" => m = n

\* Of two decisions of one pairing, or a decision and the expiry a preview
\* writes, what was recorded first stands, with the Agent it chose, and no
\* Idempotency-Key decides two pairings.
DecisionStands ==
  [][\A p \in Pairings :
       /\ decided[p] # NoDecision =>
            decided'[p] = decided[p] /\ agentOf'[p] = agentOf[p]
       /\ decided'[p] # NoDecision /\ decided[p] = NoDecision =>
            \A q \in Pairings \ {p} : decided'[q].key # decided'[p].key]_vars
=============================================================================

-------------------------- MODULE ConnectionsProofs --------------------------
(***************************************************************************)
(* Theorems of Connections and of Orbit.                                   *)
(*                                                                         *)
(* Connections: a binding and the one active connector agree, a token       *)
(* family has one usable refresh token, and a decision stands.  ConnInv     *)
(* becomes inductive with Settled: an authorization that may yield tokens,  *)
(* and every token there is, belong to an approved pairing, which no        *)
(* deadline and no poll turns into a denied one.                            *)
(*                                                                         *)
(* Orbit: contents are shown to those who held access, and results stand.   *)
(* A request in flight keeps a history of the access there was; its         *)
(* statements take from the tables only what that history has, and the      *)
(* messages it found never go away.                                        *)
(***************************************************************************)
EXTENDS Connections, Orbit, FiniteSetTheorems, WellFoundedInduction, TLAPS

Settled ==
  \A p \in Pairings :
    /\ pairing[p] = "absent" => auth[p] = "none"
    /\ pairing[p] = "denied" => decided[p].verdict = "denied"
    /\ auth[p] \in {"approved", "consumed"} => decided[p].verdict = "approved"
    /\ (\E n \in Gens \ {0} : cred[p][n] # "none") => decided[p].verdict = "approved"

ConnInd == ConnInv /\ Settled

\* The types of the tables, without the locks and the requests.
TableTypes ==
  /\ pairing \in [Pairings -> PairingStatus]
  /\ mode \in [Pairings -> {"none", "api_key", "device", "code"}]
  /\ clock \in [Pairings -> {"none", "first", "renewed"}]
  /\ decided \in [Pairings -> Decisions]
  /\ agentOf \in [Pairings -> Agents \cup {NoAgent}]
  /\ agent \in [Agents -> {"absent", "active", "disabled"}]
  /\ binding \in [Agents -> Pairings \cup {NoPairing}]
  /\ conn \in [Pairings -> ConnStatus]
  /\ cred \in [Pairings -> [Gens -> CredStatus]]
  /\ auth \in [Pairings -> AuthStatus]
  /\ notices \in [Pairings -> 0..MaxNotices]

LEMMA RowNames ==
  /\ \A p \in Pairings : /\ <<"pairing", p>> \in Rows
                         /\ <<"connector", p>> \in Rows
                         /\ <<"authorization", p>> \in Rows
                         /\ \A n \in Gens : <<"refresh", p, n>> \in Rows
  /\ \A a \in Agents : <<"agent", a>> \in Rows /\ <<"binding", a>> \in Rows
  /\ <<"human">> \in Rows
BY DEF Rows

-----------------------------------------------------------------------------
(* Locks.                                                                  *)

LEMMA TakeHolds ==
  ASSUME TypeOK, NEW s \in Sessions, NEW rs \in SUBSET Rows, Take(s, rs)
  PROVE  /\ lock' \in [Rows -> Sessions \cup {NoSession}]
         /\ \A r \in rs : lock[r] = NoSession /\ lock'[r] = s
         /\ \A r \in Rows : lock[r] # NoSession => lock'[r] = lock[r]
BY DEF TypeOK, Take, FreeRow

LEMMA EndFrees ==
  ASSUME TypeOK, NEW s \in Sessions, End(s)
  PROVE  /\ lock' \in [Rows -> Sessions \cup {NoSession}]
         /\ \A r \in Rows : lock[r] # s => lock'[r] = lock[r]
         /\ tx' \in [Sessions -> Requests]
         /\ tx'[s] = Idle
         /\ \A t \in Sessions \ {s} : tx'[t] = tx[t]
<1>1. Idle \in Requests
  BY ConnAssumption DEF Idle, Requests, Steps, Gens, ConnAssumption
<1> QED BY <1>1 DEF TypeOK, End

\* What a step of another request leaves of the rows that request t holds.
Frame(t) ==
  /\ \A p \in Pairings :
       /\ \/ pairing'[p] = pairing[p]
          \/ pairing[p] = "absent" \/ lock[<<"pairing", p>>] # t
       /\ \/ conn'[p] = conn[p]
          \/ conn[p] # "active" \/ lock[<<"connector", p>>] # t
       /\ agentOf'[p] = agentOf[p] \/ conn[p] # "active"
       /\ \/ auth'[p] = auth[p]
          \/ auth[p] # "approved" \/ lock[<<"authorization", p>>] # t
       /\ mode'[p] = mode[p] \/ pairing[p] = "absent"
       /\ \A n \in Gens \ {0} :
            \/ cred'[p][n] = cred[p][n]
            \/ cred[p][n] # "live" \/ lock[<<"refresh", p, n>>] # t
  /\ \A a \in Agents :
       \/ agent'[a] = agent[a]
       \/ agent[a] = "active" /\ lock[<<"agent", a>>] # t
       \/ agent[a] = "absent" /\ lock[<<"human">>] # t

LEMMA OthersKeep ==
  ASSUME ConnInd, NEW t \in Sessions, Frame(t), tx'[t] = tx[t],
         \A r \in Rows : lock[r] = t => lock'[r] = t
  PROVE  ReqInv(t)'
<1> DEFINE q == tx[t]
<1>1. q \in Requests /\ ReqInv(t)
  BY DEF ConnInd, ConnInv, TypeOK, RequestInv
<1>2. q.op \in {"decide", "target", "create", "replace"} =>
        /\ q.p \in Pairings /\ q.key \in Keys
        /\ lock'[<<"pairing", q.p>>] = t /\ pairing'[q.p] = "pending"
  BY <1>1, RowNames DEF ReqInv, Frame
<1>3. q.op \in {"target", "replace", "disable", "retire"} =>
        /\ q.a \in Agents /\ agent'[q.a] = "active"
        /\ lock'[<<"agent", q.a>>] = t
  BY <1>1, RowNames DEF ReqInv, Frame
<1>4. q.op = "create" =>
         q.a \in Agents /\ agent'[q.a] = "absent" /\ lock'[<<"human">>] = t
  BY <1>1, RowNames DEF ReqInv, Frame
<1>5. q.op \in {"replace", "retire"} => lock'[<<"binding", q.a>>] = t
  BY <1>1, RowNames DEF ReqInv
<1>6. q.op \in {"revoke", "unbind"} =>
         /\ q.p \in Pairings /\ conn'[q.p] = "active"
         /\ lock'[<<"connector", q.p>>] = t
  BY <1>1, RowNames DEF ReqInv, Frame
<1>7. q.op = "unbind" => lock'[<<"binding", agentOf'[q.p]>>] = t
  <2> SUFFICES ASSUME q.op = "unbind" PROVE lock'[<<"binding", agentOf'[q.p]>>] = t
    OBVIOUS
  <2>1. q.p \in Pairings /\ conn[q.p] = "active" /\ lock[<<"binding", agentOf[q.p]>>] = t
    BY <1>1 DEF ReqInv
  <2> HIDE DEF q
  <2>2. agentOf[q.p] \in Agents
    BY <2>1 DEF ConnInd, ConnInv, TypeOK, BoundIsActive, Current
  <2>3. agentOf'[q.p] = agentOf[q.p]
    BY <2>1 DEF Frame
  <2> QED BY <2>1, <2>2, <2>3, RowNames
<1>8. q.op \in {"issue", "device", "exchange", "rotate", "kill", "preview", "beat"} =>
         q.p \in Pairings
  BY <1>1 DEF ReqInv
<1>9. q.op \in {"issue", "device"} =>
         /\ lock'[<<"pairing", q.p>>] = t
         /\ pairing'[q.p] \in {"approved", "consumed"}
  BY <1>1, RowNames DEF ReqInv, Frame
<1>10. q.op = "device" => pairing'[q.p] = "approved" /\ mode'[q.p] = "device"
  BY <1>1, RowNames DEF ReqInv, Frame
<1>11. q.op = "exchange" =>
         auth'[q.p] = "approved" /\ lock'[<<"authorization", q.p>>] = t
  BY <1>1, RowNames DEF ReqInv, Frame
<1>12. q.op = "rotate" =>
         /\ q.gen # 0 /\ cred'[q.p][q.gen] = "live"
         /\ lock'[<<"refresh", q.p, q.gen>>] = t
  <2> SUFFICES ASSUME q.op = "rotate"
               PROVE  /\ q.gen # 0 /\ cred'[q.p][q.gen] = "live"
                      /\ lock'[<<"refresh", q.p, q.gen>>] = t
    OBVIOUS
  <2>1. q.p \in Pairings /\ q.gen \in Gens \ {0}
    BY <1>1 DEF ReqInv, Requests
  <2>2. cred[q.p][q.gen] = "live" /\ lock[<<"refresh", q.p, q.gen>>] = t
    BY <1>1 DEF ReqInv
  <2> HIDE DEF q
  <2> QED BY <2>1, <2>2, RowNames DEF Frame
<1> QED BY <1>2, <1>3, <1>4, <1>5, <1>6, <1>7, <1>8, <1>9, <1>10, <1>11, <1>12 DEF ReqInv

\* A request reads and takes locks; the tables stay.
LEMMA RequestKeeps ==
  ASSUME ConnInd, NEW s \in Sessions, unchangedPairing, unchangedConn,
         lock' \in [Rows -> Sessions \cup {NoSession}],
         \A r \in Rows : lock[r] # NoSession => lock'[r] = lock[r],
         tx' \in [Sessions -> Requests], \A t \in Sessions \ {s} : tx'[t] = tx[t],
         ReqInv(s)'
  PROVE  ConnInd'
<1>1. tx' \in [Sessions -> Requests] /\ \A t \in Sessions \ {s} : tx'[t] = tx[t]
  OBVIOUS
<1>2. TableTypes' /\ DecidedInv' /\ GrantInv' /\ BoundIsActive' /\ Settled'
  BY DEF ConnInd, ConnInv, TypeOK, TableTypes, DecidedInv, GrantInv, BoundIsActive, Current,
         Settled, unchangedPairing, unchangedConn
<1>3. ASSUME NEW t \in Sessions PROVE ReqInv(t)'
  <2>1. CASE t = s
    BY <2>1
  <2>2. CASE t # s
    <3>1. Frame(t)
      BY DEF Frame, unchangedPairing, unchangedConn
    <3>2. \A r \in Rows : lock[r] = t => lock'[r] = t
      BY ConnAssumption DEF ConnAssumption
    <3> QED BY <1>1, <2>2, <3>1, <3>2, OthersKeep
  <2> QED BY <2>1, <2>2
<1>4. TypeOK'
  BY <1>1, <1>2 DEF TypeOK, TableTypes
<1>5. RequestInv'
  BY <1>3 DEF RequestInv
<1> QED BY <1>2, <1>4, <1>5 DEF ConnInd, ConnInv

\* A request commits and ends; what the others hold is as it was.
LEMMA CommitKeeps ==
  ASSUME ConnInd, NEW s \in Sessions, End(s), TableTypes',
         \A t \in Sessions \ {s} : Frame(t),
         DecidedInv', GrantInv', BoundIsActive', Settled'
  PROVE  ConnInd'
<1>1. /\ lock' \in [Rows -> Sessions \cup {NoSession}]
      /\ \A r \in Rows : lock[r] # s => lock'[r] = lock[r]
      /\ tx' \in [Sessions -> Requests]
      /\ tx'[s] = Idle
      /\ \A t \in Sessions \ {s} : tx'[t] = tx[t]
  BY EndFrees DEF ConnInd, ConnInv
<1>2. ASSUME NEW t \in Sessions PROVE ReqInv(t)'
  <2>1. CASE t = s
    BY <1>1, <2>1 DEF ReqInv, Idle
  <2>2. CASE t # s
    BY <1>1, <2>2, OthersKeep
  <2> QED BY <2>1, <2>2
<1>3. TypeOK'
  BY <1>1 DEF TypeOK, TableTypes
<1>4. RequestInv'
  BY <1>2 DEF RequestInv
<1> QED BY <1>3, <1>4 DEF ConnInd, ConnInv

\* A single statement of a request that holds no lock afterwards.
LEMMA StatementKeeps ==
  ASSUME ConnInd, UNCHANGED <<lock, tx>>, TableTypes',
         \A t \in Sessions : Frame(t),
         DecidedInv', GrantInv', BoundIsActive', Settled'
  PROVE  ConnInd'
<1>1. ASSUME NEW t \in Sessions PROVE ReqInv(t)'
  BY OthersKeep
<1>2. TypeOK'
  BY DEF ConnInd, ConnInv, TypeOK, TableTypes
<1>3. RequestInv'
  BY <1>1 DEF RequestInv
<1> QED BY <1>2, <1>3 DEF ConnInd, ConnInv

-----------------------------------------------------------------------------
(* Requests begin.                                                         *)

LEMMA Fresh == 0 \in Gens /\ NoSession \notin Sessions /\ Idle \in Requests
BY ConnAssumption DEF Gens, ConnAssumption, Idle, Requests, Steps

LEMMA PreviewReadKeeps ==
  ASSUME ConnInd, NEW s \in Sessions, NEW p \in Pairings, PreviewRead(s, p)
  PROVE  ConnInd'
<1> DEFINE req == [Idle EXCEPT !.op = "preview", !.p = p]
<1>1. /\ req \in Requests
      /\ req.op = "preview" /\ req.p = p
  BY Fresh DEF Requests, Steps
<1>2. /\ tx' = [tx EXCEPT ![s] = req]
      /\ unchangedPairing /\ unchangedConn
  BY DEF PreviewRead
<1>3. lock' = lock /\ lock' \in [Rows -> Sessions \cup {NoSession}]
  BY DEF PreviewRead, ConnInd, ConnInv, TypeOK
<1>4. /\ tx'[s] = req /\ tx' \in [Sessions -> Requests]
      /\ \A t \in Sessions \ {s} : tx'[t] = tx[t]
  BY <1>1, <1>2 DEF ConnInd, ConnInv, TypeOK
<1> HIDE DEF req
<1>5. ReqInv(s)'
  BY <1>1, <1>4 DEF ReqInv
<1> QED BY <1>2, <1>3, <1>4, <1>5, RequestKeeps

LEMMA DecideBeginKeeps ==
  ASSUME ConnInd, NEW s \in Sessions, NEW p \in Pairings, NEW k \in Keys, DecideBegin(s, p, k)
  PROVE  ConnInd'
<1> DEFINE req == [Idle EXCEPT !.op = "decide", !.p = p, !.key = k]
<1>1. /\ req \in Requests
      /\ req.op = "decide" /\ req.p = p /\ req.key = k
  BY Fresh DEF Requests, Steps
<1>2. /\ tx' = [tx EXCEPT ![s] = req]
      /\ unchangedPairing /\ unchangedConn
  BY DEF DecideBegin
<1>3. Take(s, {<<"pairing", p>>}) /\ <<"pairing", p>> \in Rows
  BY RowNames DEF DecideBegin
<1>4. /\ lock' \in [Rows -> Sessions \cup {NoSession}]
      /\ lock'[<<"pairing", p>>] = s
      /\ \A r \in Rows : lock[r] # NoSession => lock'[r] = lock[r]
  BY <1>3, TakeHolds DEF ConnInd, ConnInv
<1>5. /\ tx'[s] = req /\ tx' \in [Sessions -> Requests]
      /\ \A t \in Sessions \ {s} : tx'[t] = tx[t]
  BY <1>1, <1>2 DEF ConnInd, ConnInv, TypeOK
<1>6. pairing'[p] = "pending"
  BY DEF DecideBegin, unchangedPairing
<1> HIDE DEF req
<1>7. ReqInv(s)'
  BY <1>1, <1>4, <1>5, <1>6 DEF ReqInv
<1> QED BY <1>2, <1>4, <1>5, <1>7, RequestKeeps

LEMMA IssueBeginKeeps ==
  ASSUME ConnInd, NEW s \in Sessions, NEW p \in Pairings, IssueBegin(s, p)
  PROVE  ConnInd'
<1> DEFINE req == [Idle EXCEPT !.op = "issue", !.p = p, !.rows = Issued(p)]
<1>1. /\ req \in Requests
      /\ req.op = "issue" /\ req.p = p
  BY Fresh DEF Requests, Steps, Issued
<1>2. /\ tx' = [tx EXCEPT ![s] = req]
      /\ unchangedPairing /\ unchangedConn
  BY DEF IssueBegin
<1>3. Take(s, {<<"pairing", p>>}) /\ <<"pairing", p>> \in Rows
  BY RowNames DEF IssueBegin
<1>4. /\ lock' \in [Rows -> Sessions \cup {NoSession}]
      /\ lock'[<<"pairing", p>>] = s
      /\ \A r \in Rows : lock[r] # NoSession => lock'[r] = lock[r]
  BY <1>3, TakeHolds DEF ConnInd, ConnInv
<1>5. /\ tx'[s] = req /\ tx' \in [Sessions -> Requests]
      /\ \A t \in Sessions \ {s} : tx'[t] = tx[t]
  BY <1>1, <1>2 DEF ConnInd, ConnInv, TypeOK
<1>6. pairing'[p] \in {"approved", "consumed"}
  BY DEF IssueBegin, unchangedPairing
<1> HIDE DEF req
<1>7. ReqInv(s)'
  BY <1>1, <1>4, <1>5, <1>6 DEF ReqInv
<1> QED BY <1>2, <1>4, <1>5, <1>7, RequestKeeps

LEMMA DeviceBeginKeeps ==
  ASSUME ConnInd, NEW s \in Sessions, NEW p \in Pairings, DeviceBegin(s, p)
  PROVE  ConnInd'
<1> DEFINE req == [Idle EXCEPT !.op = "device", !.p = p]
<1>1. /\ req \in Requests
      /\ req.op = "device" /\ req.p = p
  BY Fresh DEF Requests, Steps
<1>2. /\ tx' = [tx EXCEPT ![s] = req]
      /\ unchangedPairing /\ unchangedConn
  BY DEF DeviceBegin
<1>3. Take(s, {<<"pairing", p>>}) /\ <<"pairing", p>> \in Rows
  BY RowNames DEF DeviceBegin
<1>4. /\ lock' \in [Rows -> Sessions \cup {NoSession}]
      /\ lock'[<<"pairing", p>>] = s
      /\ \A r \in Rows : lock[r] # NoSession => lock'[r] = lock[r]
  BY <1>3, TakeHolds DEF ConnInd, ConnInv
<1>5. /\ tx'[s] = req /\ tx' \in [Sessions -> Requests]
      /\ \A t \in Sessions \ {s} : tx'[t] = tx[t]
  BY <1>1, <1>2 DEF ConnInd, ConnInv, TypeOK
<1>6. pairing'[p] = "approved" /\ mode'[p] = "device"
  BY DEF DeviceBegin, unchangedPairing
<1> HIDE DEF req
<1>7. ReqInv(s)'
  BY <1>1, <1>4, <1>5, <1>6 DEF ReqInv
<1> QED BY <1>2, <1>4, <1>5, <1>7, RequestKeeps

LEMMA ExchangeBeginKeeps ==
  ASSUME ConnInd, NEW s \in Sessions, NEW p \in Pairings, ExchangeBegin(s, p)
  PROVE  ConnInd'
<1> DEFINE req == [Idle EXCEPT !.op = "exchange", !.p = p]
<1>1. /\ req \in Requests
      /\ req.op = "exchange" /\ req.p = p
  BY Fresh DEF Requests, Steps
<1>2. /\ tx' = [tx EXCEPT ![s] = req]
      /\ unchangedPairing /\ unchangedConn
  BY DEF ExchangeBegin
<1>3. Take(s, {<<"authorization", p>>}) /\ <<"authorization", p>> \in Rows
  BY RowNames DEF ExchangeBegin
<1>4. /\ lock' \in [Rows -> Sessions \cup {NoSession}]
      /\ lock'[<<"authorization", p>>] = s
      /\ \A r \in Rows : lock[r] # NoSession => lock'[r] = lock[r]
  BY <1>3, TakeHolds DEF ConnInd, ConnInv
<1>5. /\ tx'[s] = req /\ tx' \in [Sessions -> Requests]
      /\ \A t \in Sessions \ {s} : tx'[t] = tx[t]
  BY <1>1, <1>2 DEF ConnInd, ConnInv, TypeOK
<1>6. auth'[p] = "approved"
  BY DEF ExchangeBegin, unchangedPairing
<1> HIDE DEF req
<1>7. ReqInv(s)'
  BY <1>1, <1>4, <1>5, <1>6 DEF ReqInv
<1> QED BY <1>2, <1>4, <1>5, <1>7, RequestKeeps

LEMMA RevokeBeginKeeps ==
  ASSUME ConnInd, NEW s \in Sessions, NEW p \in Pairings, RevokeBegin(s, p)
  PROVE  ConnInd'
<1> DEFINE req == [Idle EXCEPT !.op = "revoke", !.p = p]
<1>1. /\ req \in Requests
      /\ req.op = "revoke" /\ req.p = p
  BY Fresh DEF Requests, Steps
<1>2. /\ tx' = [tx EXCEPT ![s] = req]
      /\ unchangedPairing /\ unchangedConn
  BY DEF RevokeBegin
<1>3. Take(s, {<<"connector", p>>}) /\ <<"connector", p>> \in Rows
  BY RowNames DEF RevokeBegin
<1>4. /\ lock' \in [Rows -> Sessions \cup {NoSession}]
      /\ lock'[<<"connector", p>>] = s
      /\ \A r \in Rows : lock[r] # NoSession => lock'[r] = lock[r]
  BY <1>3, TakeHolds DEF ConnInd, ConnInv
<1>5. /\ tx'[s] = req /\ tx' \in [Sessions -> Requests]
      /\ \A t \in Sessions \ {s} : tx'[t] = tx[t]
  BY <1>1, <1>2 DEF ConnInd, ConnInv, TypeOK
<1>6. conn'[p] = "active"
  BY DEF RevokeBegin, unchangedConn
<1> HIDE DEF req
<1>7. ReqInv(s)'
  BY <1>1, <1>4, <1>5, <1>6 DEF ReqInv
<1> QED BY <1>2, <1>4, <1>5, <1>7, RequestKeeps

LEMMA DisableBeginKeeps ==
  ASSUME ConnInd, NEW s \in Sessions, NEW a \in Agents, DisableBegin(s, a)
  PROVE  ConnInd'
<1> DEFINE req == [Idle EXCEPT !.op = "disable", !.a = a]
<1>1. /\ req \in Requests
      /\ req.op = "disable" /\ req.a = a
  BY Fresh DEF Requests, Steps
<1>2. /\ tx' = [tx EXCEPT ![s] = req]
      /\ unchangedPairing /\ unchangedConn
  BY DEF DisableBegin
<1>3. Take(s, {<<"agent", a>>}) /\ <<"agent", a>> \in Rows
  BY RowNames DEF DisableBegin
<1>4. /\ lock' \in [Rows -> Sessions \cup {NoSession}]
      /\ lock'[<<"agent", a>>] = s
      /\ \A r \in Rows : lock[r] # NoSession => lock'[r] = lock[r]
  BY <1>3, TakeHolds DEF ConnInd, ConnInv
<1>5. /\ tx'[s] = req /\ tx' \in [Sessions -> Requests]
      /\ \A t \in Sessions \ {s} : tx'[t] = tx[t]
  BY <1>1, <1>2 DEF ConnInd, ConnInv, TypeOK
<1>6. agent'[a] = "active"
  BY DEF DisableBegin, unchangedConn
<1> HIDE DEF req
<1>7. ReqInv(s)'
  BY <1>1, <1>4, <1>5, <1>6 DEF ReqInv
<1> QED BY <1>2, <1>4, <1>5, <1>7, RequestKeeps

LEMMA HeartbeatBeginKeeps ==
  ASSUME ConnInd, NEW s \in Sessions, NEW p \in Pairings, HeartbeatBegin(s, p)
  PROVE  ConnInd'
<1> DEFINE seen == IF notices[p] = 0 THEN {} ELSE {0}
           req == [Idle EXCEPT !.op = "beat", !.p = p, !.rows = seen]
<1>1. /\ req \in Requests
      /\ req.op = "beat" /\ req.p = p
  BY Fresh DEF Requests, Steps
<1>2. /\ tx' = [tx EXCEPT ![s] = req]
      /\ unchangedPairing /\ unchangedConn
  BY DEF HeartbeatBegin
<1>3. lock' = lock /\ lock' \in [Rows -> Sessions \cup {NoSession}]
  BY DEF HeartbeatBegin, ConnInd, ConnInv, TypeOK
<1>4. /\ tx'[s] = req /\ tx' \in [Sessions -> Requests]
      /\ \A t \in Sessions \ {s} : tx'[t] = tx[t]
  BY <1>1, <1>2 DEF ConnInd, ConnInv, TypeOK
<1> HIDE DEF req
<1>5. ReqInv(s)'
  BY <1>1, <1>4 DEF ReqInv
<1> QED BY <1>2, <1>3, <1>4, <1>5, RequestKeeps

LEMMA RefreshBeginKeeps ==
  ASSUME ConnInd, NEW s \in Sessions, NEW p \in Pairings, NEW n \in Gens \ {0},
         RefreshBegin(s, p, n)
  PROVE  ConnInd'
<1> DEFINE op == IF cred[p][n] = "live" /\ Current(p) THEN "rotate" ELSE "kill"
           req == [Idle EXCEPT !.p = p, !.gen = n, !.rows = Issued(p), !.op = op]
<1>1. /\ req \in Requests
      /\ req.p = p /\ req.gen = n /\ req.op = op
  BY Fresh DEF Requests, Steps, Issued
<1>2. /\ tx' = [tx EXCEPT ![s] = req]
      /\ unchangedPairing /\ unchangedConn
  BY DEF RefreshBegin
<1>3. Take(s, {<<"refresh", p, n>>}) /\ <<"refresh", p, n>> \in Rows
  BY RowNames DEF RefreshBegin, Presented
<1>4. /\ lock' \in [Rows -> Sessions \cup {NoSession}]
      /\ lock'[<<"refresh", p, n>>] = s
      /\ \A r \in Rows : lock[r] # NoSession => lock'[r] = lock[r]
  BY <1>3, TakeHolds DEF ConnInd, ConnInv
<1>5. /\ tx'[s] = req /\ tx' \in [Sessions -> Requests]
      /\ \A t \in Sessions \ {s} : tx'[t] = tx[t]
  BY <1>1, <1>2 DEF ConnInd, ConnInv, TypeOK
<1>6. /\ op \in {"rotate", "kill"}
      /\ op = "rotate" => cred'[p][n] = "live"
  BY DEF RefreshBegin, unchangedConn
<1> HIDE DEF op, req
<1>7. ReqInv(s)'
  BY <1>1, <1>4, <1>5, <1>6 DEF ReqInv
<1> QED BY <1>2, <1>4, <1>5, <1>7, RequestKeeps

-----------------------------------------------------------------------------
(* Requests go on.                                                         *)

\* The request keeps what it holds and takes another row.
LEMMA RowTaken ==
  ASSUME ConnInd, NEW s \in Sessions, NEW row \in Rows, Take(s, {row})
  PROVE  /\ lock' \in [Rows -> Sessions \cup {NoSession}]
         /\ lock'[row] = s
         /\ \A r \in Rows : lock[r] # NoSession => lock'[r] = lock[r]
         /\ \A r \in Rows : lock[r] = s => lock'[r] = s
BY TakeHolds, Fresh DEF ConnInd, ConnInv

LEMMA ChooseExistingKeeps ==
  ASSUME ConnInd, NEW s \in Sessions, NEW a \in Agents, ChooseExisting(s, a)
  PROVE  ConnInd'
<1> DEFINE q == tx[s]
           req == [op |-> "target", p |-> q.p, a |-> a, key |-> q.key,
                   gen |-> q.gen, rows |-> q.rows]
<1>1. q \in Requests /\ ReqInv(s)
  BY DEF ConnInd, ConnInv, TypeOK, RequestInv
<1>2. /\ q.p \in Pairings /\ q.key \in Keys
      /\ lock[<<"pairing", q.p>>] = s /\ pairing[q.p] = "pending"
  BY <1>1 DEF ChooseExisting, ReqInv
<1>3. req \in Requests
  BY <1>1, <1>2 DEF Requests, Steps
<1>4. /\ tx'[s] = req /\ unchangedPairing /\ unchangedConn
      /\ \A t \in Sessions \ {s} : tx'[t] = tx[t]
  BY <1>1 DEF ChooseExisting, Requests, ConnInd, ConnInv, TypeOK
<1>5. Take(s, {<<"agent", a>>}) /\ <<"agent", a>> \in Rows
  BY <1>2, RowNames DEF ChooseExisting, AgentLocked
<1>6. /\ lock' \in [Rows -> Sessions \cup {NoSession}]
      /\ lock'[<<"agent", a>>] = s
      /\ \A r \in Rows : lock[r] # NoSession => lock'[r] = lock[r]
      /\ \A r \in Rows : lock[r] = s => lock'[r] = s
  BY <1>5, RowTaken
<1>7. tx' \in [Sessions -> Requests]
  BY <1>3, <1>4 DEF ChooseExisting, ConnInd, ConnInv, TypeOK
<1> HIDE DEF q
<1>8. /\ lock'[<<"pairing", q.p>>] = s /\ pairing'[q.p] = "pending"
      /\ agent'[a] = "active"
  BY <1>2, <1>4, <1>6, RowNames DEF ChooseExisting, AgentLocked, unchangedPairing, unchangedConn
<1>9. ReqInv(s)'
  BY <1>2, <1>4, <1>6, <1>8 DEF ReqInv
<1> QED BY <1>4, <1>6, <1>7, <1>9, RequestKeeps

LEMMA ChooseNewKeeps ==
  ASSUME ConnInd, NEW s \in Sessions, NEW a \in Agents, ChooseNew(s, a)
  PROVE  ConnInd'
<1> DEFINE q == tx[s]
           req == [op |-> "create", p |-> q.p, a |-> a, key |-> q.key,
                   gen |-> q.gen, rows |-> q.rows]
<1>1. q \in Requests /\ ReqInv(s)
  BY DEF ConnInd, ConnInv, TypeOK, RequestInv
<1>2. /\ q.p \in Pairings /\ q.key \in Keys
      /\ lock[<<"pairing", q.p>>] = s /\ pairing[q.p] = "pending"
      /\ agent[a] = "absent"
  BY <1>1 DEF ChooseNew, ReqInv
<1>3. req \in Requests
  BY <1>1, <1>2 DEF Requests, Steps
<1>4. /\ tx'[s] = req /\ unchangedPairing /\ unchangedConn
      /\ \A t \in Sessions \ {s} : tx'[t] = tx[t]
  BY <1>1 DEF ChooseNew, Requests, ConnInd, ConnInv, TypeOK
<1>5. Take(s, {<<"human">>}) /\ <<"human">> \in Rows
  BY <1>2, RowNames DEF ChooseNew
<1>6. /\ lock' \in [Rows -> Sessions \cup {NoSession}]
      /\ lock'[<<"human">>] = s
      /\ \A r \in Rows : lock[r] # NoSession => lock'[r] = lock[r]
      /\ \A r \in Rows : lock[r] = s => lock'[r] = s
  BY <1>5, RowTaken
<1>7. tx' \in [Sessions -> Requests]
  BY <1>3, <1>4 DEF ChooseNew, ConnInd, ConnInv, TypeOK
<1> HIDE DEF q
<1>8. /\ lock'[<<"pairing", q.p>>] = s /\ pairing'[q.p] = "pending"
      /\ agent'[a] = "absent"
  BY <1>2, <1>4, <1>6, RowNames DEF unchangedPairing, unchangedConn
<1>9. ReqInv(s)'
  BY <1>2, <1>4, <1>6, <1>8 DEF ReqInv
<1> QED BY <1>4, <1>6, <1>7, <1>9, RequestKeeps

LEMMA DecideBindingKeeps ==
  ASSUME ConnInd, NEW s \in Sessions, DecideBinding(s)
  PROVE  ConnInd'
<1> DEFINE q == tx[s]
           req == [op |-> "replace", p |-> q.p, a |-> q.a, key |-> q.key,
                   gen |-> q.gen, rows |-> IF binding[q.a] = NoPairing THEN {} ELSE Issued(binding[q.a])]
<1>1. q \in Requests /\ ReqInv(s)
  BY DEF ConnInd, ConnInv, TypeOK, RequestInv
<1>2. /\ q.p \in Pairings /\ q.key \in Keys
      /\ lock[<<"pairing", q.p>>] = s /\ pairing[q.p] = "pending"
      /\ q.a \in Agents /\ agent[q.a] = "active"
      /\ lock[<<"agent", q.a>>] = s
  BY <1>1 DEF DecideBinding, ReqInv
<1>3. req \in Requests
  BY <1>1, <1>2 DEF Requests, Steps, Issued
<1>4. /\ tx'[s] = req /\ unchangedPairing /\ unchangedConn
      /\ \A t \in Sessions \ {s} : tx'[t] = tx[t]
  BY <1>1 DEF DecideBinding, Requests, ConnInd, ConnInv, TypeOK
<1>5. Take(s, {<<"binding", q.a>>}) /\ <<"binding", q.a>> \in Rows
  BY <1>2, RowNames DEF DecideBinding
<1>6. /\ lock' \in [Rows -> Sessions \cup {NoSession}]
      /\ lock'[<<"binding", q.a>>] = s
      /\ \A r \in Rows : lock[r] # NoSession => lock'[r] = lock[r]
      /\ \A r \in Rows : lock[r] = s => lock'[r] = s
  BY <1>5, RowTaken
<1>7. tx' \in [Sessions -> Requests]
  BY <1>3, <1>4 DEF DecideBinding, ConnInd, ConnInv, TypeOK
<1> HIDE DEF q
<1>8. /\ lock'[<<"pairing", q.p>>] = s /\ pairing'[q.p] = "pending"
      /\ agent'[q.a] = "active" /\ lock'[<<"agent", q.a>>] = s
  BY <1>2, <1>4, <1>6, RowNames DEF unchangedPairing, unchangedConn
<1>9. ReqInv(s)'
  BY <1>2, <1>4, <1>6, <1>8 DEF ReqInv
<1> QED BY <1>4, <1>6, <1>7, <1>9, RequestKeeps

LEMMA DisableBindingKeeps ==
  ASSUME ConnInd, NEW s \in Sessions, DisableBinding(s)
  PROVE  ConnInd'
<1> DEFINE q == tx[s]
           req == [op |-> "retire", p |-> q.p, a |-> q.a, key |-> q.key,
                   gen |-> q.gen, rows |-> IF binding[q.a] = NoPairing THEN {} ELSE Issued(binding[q.a])]
<1>1. q \in Requests /\ ReqInv(s)
  BY DEF ConnInd, ConnInv, TypeOK, RequestInv
<1>2. /\ q.a \in Agents /\ agent[q.a] = "active"
      /\ lock[<<"agent", q.a>>] = s
  BY <1>1 DEF DisableBinding, ReqInv
<1>3. req \in Requests
  BY <1>1, <1>2 DEF Requests, Steps, Issued
<1>4. /\ tx'[s] = req /\ unchangedPairing /\ unchangedConn
      /\ \A t \in Sessions \ {s} : tx'[t] = tx[t]
  BY <1>1 DEF DisableBinding, Requests, ConnInd, ConnInv, TypeOK
<1>5. Take(s, {<<"binding", q.a>>}) /\ <<"binding", q.a>> \in Rows
  BY <1>2, RowNames DEF DisableBinding
<1>6. /\ lock' \in [Rows -> Sessions \cup {NoSession}]
      /\ lock'[<<"binding", q.a>>] = s
      /\ \A r \in Rows : lock[r] # NoSession => lock'[r] = lock[r]
      /\ \A r \in Rows : lock[r] = s => lock'[r] = s
  BY <1>5, RowTaken
<1>7. tx' \in [Sessions -> Requests]
  BY <1>3, <1>4 DEF DisableBinding, ConnInd, ConnInv, TypeOK
<1> HIDE DEF q
<1>8. /\ agent'[q.a] = "active" /\ lock'[<<"agent", q.a>>] = s
  BY <1>2, <1>4, <1>6, RowNames DEF unchangedPairing, unchangedConn
<1>9. ReqInv(s)'
  BY <1>2, <1>4, <1>6, <1>8 DEF ReqInv
<1> QED BY <1>4, <1>6, <1>7, <1>9, RequestKeeps

LEMMA RevokeBindingKeeps ==
  ASSUME ConnInd, NEW s \in Sessions, RevokeBinding(s)
  PROVE  ConnInd'
<1> DEFINE q == tx[s]
           req == [op |-> "unbind", p |-> q.p, a |-> q.a, key |-> q.key,
                   gen |-> q.gen, rows |-> Issued(q.p)]
<1>1. q \in Requests /\ ReqInv(s)
  BY DEF ConnInd, ConnInv, TypeOK, RequestInv
<1>2. /\ q.p \in Pairings /\ conn[q.p] = "active"
      /\ lock[<<"connector", q.p>>] = s
      /\ agentOf[q.p] \in Agents
  BY <1>1 DEF RevokeBinding, ReqInv, ConnInd, ConnInv, TypeOK, BoundIsActive, Current
<1>3. req \in Requests
  BY <1>1, <1>2 DEF Requests, Steps, Issued
<1>4. /\ tx'[s] = req /\ unchangedPairing /\ unchangedConn
      /\ \A t \in Sessions \ {s} : tx'[t] = tx[t]
  BY <1>1 DEF RevokeBinding, Requests, ConnInd, ConnInv, TypeOK
<1>5. Take(s, {<<"binding", agentOf[q.p]>>}) /\ <<"binding", agentOf[q.p]>> \in Rows
  BY <1>2, RowNames DEF RevokeBinding
<1>6. /\ lock' \in [Rows -> Sessions \cup {NoSession}]
      /\ lock'[<<"binding", agentOf[q.p]>>] = s
      /\ \A r \in Rows : lock[r] # NoSession => lock'[r] = lock[r]
      /\ \A r \in Rows : lock[r] = s => lock'[r] = s
  BY <1>5, RowTaken
<1>7. tx' \in [Sessions -> Requests]
  BY <1>3, <1>4 DEF RevokeBinding, ConnInd, ConnInv, TypeOK
<1> HIDE DEF q
<1>8. /\ conn'[q.p] = "active" /\ lock'[<<"connector", q.p>>] = s
      /\ lock'[<<"binding", agentOf'[q.p]>>] = s
  BY <1>2, <1>4, <1>6, RowNames DEF unchangedPairing, unchangedConn
<1>9. ReqInv(s)'
  BY <1>2, <1>4, <1>6, <1>8 DEF ReqInv
<1> QED BY <1>4, <1>6, <1>7, <1>9, RequestKeeps

-----------------------------------------------------------------------------
(* Commits.                                                                *)

\* What a request that holds its rows leaves to every other one.
LEMMA MineNotTheirs ==
  ASSUME NEW s \in Sessions, NEW t \in Sessions \ {s}, NEW r,
         lock[r] = s \/ lock[r] = NoSession
  PROVE  lock[r] # t
BY Fresh

\* The tokens read with a family are revoked where they are live; no token
\* comes into being and none comes back.
Withdrawn ==
  \A q \in Pairings : \A n \in Gens :
    \/ cred'[q][n] = cred[q][n]
    \/ cred[q][n] = "live" /\ cred'[q][n] = "revoked"

LEMMA WithdrawFamily ==
  ASSUME TypeOK, NEW s \in Sessions, NEW p \in Pairings, NEW rs \in SUBSET Gens,
         RowsWritable(s, p, rs), cred' = [cred EXCEPT ![p] = Withdraw(p, rs)]
  PROVE  /\ cred' \in [Pairings -> [Gens -> CredStatus]]
         /\ Withdrawn
         /\ \A t \in Sessions \ {s}, q \in Pairings, n \in Gens :
              \/ cred'[q][n] = cred[q][n]
              \/ cred[q][n] # "live" \/ lock[<<"refresh", q, n>>] # t
<1> DEFINE w == Withdraw(p, rs)
<1>1. w \in [Gens -> CredStatus]
  BY DEF Withdraw, TypeOK, CredStatus
<1>2. \A n \in Gens : w[n] = IF n \in rs /\ cred[p][n] = "live" THEN "revoked" ELSE cred[p][n]
  BY DEF Withdraw
<1> HIDE DEF w
<1>3. /\ cred' \in [Pairings -> [Gens -> CredStatus]]
      /\ \A q \in Pairings : cred'[q] = IF q = p THEN w ELSE cred[q]
  BY <1>1 DEF w, TypeOK
<1>4. Withdrawn
  BY <1>2, <1>3 DEF Withdrawn
<1>5. ASSUME NEW t \in Sessions \ {s}, NEW q \in Pairings, NEW n \in Gens,
             cred'[q][n] # cred[q][n]
      PROVE  lock[<<"refresh", q, n>>] # t
  <2>1. q = p /\ n \in rs /\ cred[p][n] = "live"
    BY <1>2, <1>3, <1>5
  <2> QED BY <2>1, Fresh DEF RowsWritable, Writable
<1> QED BY <1>3, <1>4, <1>5

LEMMA WithdrawnGrant ==
  ASSUME ConnInd, Withdrawn, UNCHANGED <<mode, auth, pairing>>
  PROVE  GrantInv'
<1>1. \A q \in Pairings : \A n \in Gens :
        /\ cred'[q][n] # "none" => cred[q][n] # "none"
        /\ cred[q][n] \notin {"none", "live"} => cred'[q][n] \notin {"none", "live"}
  BY DEF Withdrawn
<1> QED BY <1>1 DEF GrantInv, ConnInd, ConnInv

LEMMA WithdrawnSettled ==
  ASSUME ConnInd, Withdrawn, UNCHANGED <<mode, auth, pairing, decided>>
  PROVE  Settled'
<1>1. \A q \in Pairings : \A n \in Gens : cred'[q][n] # "none" => cred[q][n] # "none"
  BY DEF Withdrawn
<1> QED BY <1>1 DEF Settled, ConnInd

LEMMA Rows0 ==
  ASSUME TypeOK, NEW s \in Sessions
  PROVE  /\ tx[s].rows \in SUBSET Gens /\ tx[s].gen \in Gens
         /\ tx[s].p \in Pairings \cup {NoPairing} /\ tx[s].a \in Agents \cup {NoAgent}
         /\ tx[s].key \in Keys \cup {NoKey}
BY DEF TypeOK, Requests

-----------------------------------------------------------------------------
(* An expiry, a denial and an aborted request.                             *)

\* A pairing that expires keeps its decision, its connector and its tokens.
LEMMA ExpiryFacts ==
  ASSUME ConnInd, NEW p \in Pairings,
         pairing' = [pairing EXCEPT ![p] = "expired"],
         UNCHANGED <<mode, clock, decided, agentOf, auth>>, unchangedConn
  PROVE  TableTypes' /\ DecidedInv' /\ GrantInv' /\ BoundIsActive' /\ Settled'
<1>1. /\ pairing' \in [Pairings -> PairingStatus]
      /\ \A q \in Pairings : pairing'[q] = IF q = p THEN "expired" ELSE pairing[q]
  BY DEF ConnInd, ConnInv, TypeOK, PairingStatus
<1>2. TableTypes'
  BY <1>1 DEF ConnInd, ConnInv, TypeOK, TableTypes, unchangedConn
<1>3. DecidedInv'
  BY <1>1 DEF ConnInd, ConnInv, DecidedInv, unchangedConn
<1>4. GrantInv'
  BY <1>1 DEF ConnInd, ConnInv, GrantInv, unchangedConn
<1>5. BoundIsActive'
  BY DEF ConnInd, ConnInv, BoundIsActive, Current, unchangedConn
<1>6. Settled'
  BY <1>1 DEF ConnInd, Settled, unchangedConn
<1> QED BY <1>2, <1>3, <1>4, <1>5, <1>6

LEMMA ExpireWriteKeeps ==
  ASSUME ConnInd, NEW s \in Sessions, ExpireWrite(s)
  PROVE  ConnInd'
<1> DEFINE p == tx[s].p
<1>1. p \in Pairings
  BY DEF ExpireWrite, ConnInd, ConnInv, RequestInv, ReqInv
<1>2. /\ pairing' = [pairing EXCEPT ![p] = "expired"]
      /\ UNCHANGED <<mode, clock, decided, agentOf, auth>> /\ unchangedConn
      /\ End(s) /\ lock[<<"pairing", p>>] = NoSession
  BY DEF ExpireWrite, FreeRow
<1> HIDE DEF p
<1>3. TableTypes' /\ DecidedInv' /\ GrantInv' /\ BoundIsActive' /\ Settled'
  BY <1>1, <1>2, ExpiryFacts
<1>4. \A q \in Pairings : pairing'[q] = IF q = p THEN "expired" ELSE pairing[q]
  BY <1>1, <1>2 DEF ConnInd, ConnInv, TypeOK
<1>5. \A t \in Sessions \ {s} : Frame(t)
  BY <1>2, <1>4, Fresh DEF Frame, unchangedConn
<1> QED BY <1>2, <1>3, <1>5, CommitKeeps

LEMMA ExpireLockedKeeps ==
  ASSUME ConnInd, NEW p \in Pairings, ExpireLocked(p)
  PROVE  ConnInd'
<1>1. /\ pairing' = [pairing EXCEPT ![p] = "expired"]
      /\ UNCHANGED <<mode, clock, decided, agentOf, auth>> /\ unchangedConn
      /\ UNCHANGED <<lock, tx>> /\ lock[<<"pairing", p>>] = NoSession
  BY DEF ExpireLocked, FreeRow
<1>2. TableTypes' /\ DecidedInv' /\ GrantInv' /\ BoundIsActive' /\ Settled'
  BY <1>1, ExpiryFacts
<1>3. \A q \in Pairings : pairing'[q] = IF q = p THEN "expired" ELSE pairing[q]
  BY <1>1 DEF ConnInd, ConnInv, TypeOK
<1>4. \A t \in Sessions : Frame(t)
  BY <1>1, <1>3, Fresh DEF Frame, unchangedConn
<1> QED BY <1>1, <1>2, <1>4, StatementKeeps

LEMMA Bottoms ==
  /\ \A q \in Pairings : q # NoPairing
  /\ \A b \in Agents : b # NoAgent
BY ConnAssumption DEF ConnAssumption

\* A pairing that waits for its decision has no Agent, no connector, no tokens.
LEMMA PendingIsBare ==
  ASSUME ConnInd, NEW p \in Pairings, pairing[p] \in {"absent", "pending"}
  PROVE  /\ decided[p] = NoDecision /\ decided[p].verdict = "none"
         /\ agentOf[p] = NoAgent /\ conn[p] = "none"
         /\ auth[p] \notin {"approved", "consumed"}
         /\ \A n \in Gens \ {0} : cred[p][n] = "none"
<1>1. decided[p] = NoDecision /\ decided[p].verdict = "none"
  BY DEF ConnInd, ConnInv, DecidedInv, NoDecision
<1> QED BY <1>1 DEF ConnInd, ConnInv, DecidedInv, Settled

LEMMA DenyKeeps ==
  ASSUME ConnInd, NEW s \in Sessions, Deny(s)
  PROVE  ConnInd'
<1> DEFINE p == tx[s].p
           d == [verdict |-> "denied", key |-> tx[s].key]
<1>1. /\ p \in Pairings /\ tx[s].key \in Keys
      /\ lock[<<"pairing", p>>] = s /\ pairing[p] = "pending"
  BY DEF Deny, ConnInd, ConnInv, RequestInv, ReqInv
<1>2. /\ pairing' = [pairing EXCEPT ![p] = "denied"]
      /\ decided' = [decided EXCEPT ![p] = d]
      /\ UNCHANGED <<mode, clock, agentOf, auth>> /\ unchangedConn
      /\ End(s)
  BY DEF Deny
<1>3. d \in Decisions /\ d.verdict = "denied"
  BY <1>1 DEF Decisions
<1> HIDE DEF p, d
<1>4. /\ pairing' \in [Pairings -> PairingStatus]
      /\ \A q \in Pairings : pairing'[q] = IF q = p THEN "denied" ELSE pairing[q]
      /\ decided' \in [Pairings -> Decisions]
      /\ \A q \in Pairings : decided'[q] = IF q = p THEN d ELSE decided[q]
  BY <1>1, <1>2, <1>3 DEF ConnInd, ConnInv, TypeOK, PairingStatus
<1>5. /\ agentOf[p] = NoAgent /\ conn[p] = "none"
      /\ auth[p] \notin {"approved", "consumed"}
      /\ \A n \in Gens \ {0} : cred[p][n] = "none"
  BY <1>1, PendingIsBare
<1>6. TableTypes'
  BY <1>2, <1>4 DEF ConnInd, ConnInv, TypeOK, TableTypes, unchangedConn
<1>7. \A t \in Sessions \ {s} : Frame(t)
  BY <1>1, <1>2, <1>4 DEF Frame, unchangedConn
<1>8. DecidedInv'
  BY <1>2, <1>3, <1>4, <1>5 DEF ConnInd, ConnInv, DecidedInv, unchangedConn
<1>9. GrantInv'
  BY <1>2, <1>4, <1>5 DEF ConnInd, ConnInv, GrantInv, unchangedConn
<1>10. BoundIsActive'
  BY <1>2 DEF ConnInd, ConnInv, BoundIsActive, Current, unchangedConn
<1>11. Settled'
  BY <1>2, <1>3, <1>4, <1>5 DEF ConnInd, Settled, unchangedConn
<1> QED BY <1>2, <1>6, <1>7, <1>8, <1>9, <1>10, <1>11, CommitKeeps

LEMMA AbortKeeps ==
  ASSUME ConnInd, NEW s \in Sessions, Abort(s)
  PROVE  ConnInd'
<1>1. End(s) /\ unchangedPairing /\ unchangedConn
  BY DEF Abort
<1>2. TableTypes' /\ DecidedInv' /\ GrantInv' /\ BoundIsActive' /\ Settled'
  BY <1>1 DEF ConnInd, ConnInv, TypeOK, TableTypes, DecidedInv, GrantInv, BoundIsActive,
              Current, Settled, unchangedPairing, unchangedConn
<1>3. \A t \in Sessions \ {s} : Frame(t)
  BY <1>1 DEF Frame, unchangedPairing, unchangedConn
<1> QED BY <1>1, <1>2, <1>3, CommitKeeps

-----------------------------------------------------------------------------
(* An approval: a new binding, and the end of the connector it replaces.   *)

LEMMA ApprovalKeeps ==
  ASSUME ConnInd, NEW s \in Sessions, NEW p \in Pairings, NEW a \in Agents,
         tx[s].key \in Keys, lock[<<"pairing", p>>] = s, pairing[p] = "pending",
         RecordApproval(s, p, a), End(s),
         cred' \in [Pairings -> [Gens -> CredStatus]], Withdrawn,
         \A t \in Sessions \ {s}, q \in Pairings, n \in Gens :
            \/ cred'[q][n] = cred[q][n]
            \/ cred[q][n] # "live" \/ lock[<<"refresh", q, n>>] # t,
         agent' \in [Agents -> {"absent", "active", "disabled"}],
         \A b \in Agents : agent'[b] = IF b = a THEN "active" ELSE agent[b],
         agent[a] = "active" \/ (agent[a] = "absent" /\ lock[<<"human">>] = s),
         conn' \in [Pairings -> ConnStatus], conn'[p] = "active",
         \A q \in Pairings \ {p, binding[a]} : conn'[q] = conn[q],
         binding[a] # NoPairing =>
            conn'[binding[a]] = "replaced" /\ Writable(s, <<"connector", binding[a]>>)
  PROVE  ConnInd'
<1> DEFINE d == [verdict |-> "approved", key |-> tx[s].key]
<1>1. d \in Decisions /\ d.verdict = "approved" /\ d # NoDecision
  BY DEF Decisions, NoDecision
<1>2. /\ pairing' = [pairing EXCEPT ![p] = "approved"]
      /\ decided' = [decided EXCEPT ![p] = d]
      /\ agentOf' = [agentOf EXCEPT ![p] = a]
      /\ binding' = [binding EXCEPT ![a] = p]
      /\ UNCHANGED <<mode, clock, auth, notices>>
  BY DEF RecordApproval
<1> HIDE DEF d
<1>3. /\ pairing' \in [Pairings -> PairingStatus]
      /\ decided' \in [Pairings -> Decisions]
      /\ agentOf' \in [Pairings -> Agents \cup {NoAgent}]
      /\ binding' \in [Agents -> Pairings \cup {NoPairing}]
  BY <1>1, <1>2 DEF ConnInd, ConnInv, TypeOK, PairingStatus
<1>4. /\ \A q \in Pairings : /\ pairing'[q] = IF q = p THEN "approved" ELSE pairing[q]
                             /\ decided'[q] = IF q = p THEN d ELSE decided[q]
                             /\ agentOf'[q] = IF q = p THEN a ELSE agentOf[q]
      /\ \A b \in Agents : binding'[b] = IF b = a THEN p ELSE binding[b]
  BY <1>2 DEF ConnInd, ConnInv, TypeOK
<1>5. /\ agentOf[p] = NoAgent /\ conn[p] = "none"
      /\ auth[p] \notin {"approved", "consumed"}
      /\ \A n \in Gens \ {0} : cred[p][n] = "none"
  BY PendingIsBare
<1>6. \A q \in Pairings : \A n \in Gens :
        /\ cred'[q][n] # "none" => cred[q][n] # "none"
        /\ cred[q][n] \notin {"none", "live"} => cred'[q][n] \notin {"none", "live"}
  BY DEF Withdrawn
<1>7. binding[a] # NoPairing =>
        /\ binding[a] \in Pairings \ {p} /\ conn[binding[a]] = "active"
        /\ agentOf[binding[a]] = a
  BY <1>5 DEF ConnInd, ConnInv, TypeOK, BoundIsActive
<1>8. \A q \in Pairings : q # p => (conn'[q] # "none" <=> conn[q] # "none")
  <2> SUFFICES ASSUME NEW q \in Pairings, q # p
               PROVE  conn'[q] # "none" <=> conn[q] # "none"
    OBVIOUS
  <2>1. CASE q = binding[a]
    BY <1>7, <2>1, Bottoms
  <2>2. CASE q # binding[a]
    BY <2>2
  <2> QED BY <2>1, <2>2
<1>9. TableTypes'
  BY <1>2, <1>3 DEF ConnInd, ConnInv, TypeOK, TableTypes
<1>10. ASSUME NEW t \in Sessions \ {s} PROVE Frame(t)
  <2>1. ASSUME NEW q \in Pairings
        PROVE  /\ \/ conn'[q] = conn[q]
                  \/ conn[q] # "active" \/ lock[<<"connector", q>>] # t
               /\ agentOf'[q] = agentOf[q] \/ conn[q] # "active"
    <3>1. CASE q = p
      BY <1>5, <3>1
    <3>2. CASE q # p /\ q = binding[a]
      BY <1>4, <1>7, <3>2, Fresh, Bottoms DEF Writable
    <3>3. CASE q # p /\ q # binding[a]
      BY <1>4, <3>3
    <3> QED BY <3>1, <3>2, <3>3
  <2>2. \A q \in Pairings : pairing'[q] = pairing[q] \/ lock[<<"pairing", q>>] # t
    BY <1>4
  <2>3. \A b \in Agents : \/ agent'[b] = agent[b]
                          \/ agent[b] = "absent" /\ lock[<<"human">>] # t
    OBVIOUS
  <2> QED BY <1>2, <2>1, <2>2, <2>3 DEF Frame
<1>11. DecidedInv'
  <2>1. ASSUME NEW q \in Pairings
        PROVE  /\ pairing'[q] \in {"absent", "pending"} => decided'[q] = NoDecision
               /\ pairing'[q] \in {"approved", "consumed"} => decided'[q].verdict = "approved"
               /\ decided'[q].verdict = "approved" <=> agentOf'[q] # NoAgent
               /\ decided'[q].verdict = "approved" <=> conn'[q] # "none"
               /\ auth'[q] # "none" => mode'[q] = "code"
    <3>1. CASE q = p
      BY <1>1, <1>2, <1>4, <3>1, Bottoms DEF ConnInd, ConnInv, DecidedInv
    <3>2. CASE q # p
      BY <1>2, <1>4, <1>8, <3>2 DEF ConnInd, ConnInv, DecidedInv
    <3> QED BY <3>1, <3>2
  <2> QED BY <2>1 DEF DecidedInv
<1>12. GrantInv'
  BY <1>2, <1>4, <1>5, <1>6 DEF ConnInd, ConnInv, GrantInv
<1>13. BoundIsActive'
  <2>1. ASSUME NEW b \in Agents, binding'[b] # NoPairing
        PROVE  /\ conn'[binding'[b]] = "active" /\ agentOf'[binding'[b]] = b
               /\ agent'[b] = "active"
    <3>1. CASE b = a
      BY <1>4, <3>1
    <3>2. CASE b # a
      <4>1. /\ binding'[b] = binding[b] /\ binding[b] \in Pairings
            /\ conn[binding[b]] = "active" /\ agentOf[binding[b]] = b /\ agent[b] = "active"
        BY <1>4, <2>1, <3>2 DEF ConnInd, ConnInv, TypeOK, BoundIsActive
      <4>2. binding[b] # p /\ binding[b] # binding[a]
        BY <1>5, <1>7, <3>2, <4>1, Bottoms
      <4> QED BY <1>4, <3>2, <4>1, <4>2
    <3> QED BY <3>1, <3>2
  <2>2. ASSUME NEW q \in Pairings, conn'[q] = "active"
        PROVE  agentOf'[q] # NoAgent /\ binding'[agentOf'[q]] = q
    <3>1. CASE q = p
      BY <1>4, <3>1, Bottoms
    <3>2. CASE q # p
      <4>1. q # binding[a] /\ conn[q] = "active"
        BY <2>2, <3>2, Bottoms
      <4>2. agentOf[q] # NoAgent /\ binding[agentOf[q]] = q /\ agentOf[q] \in Agents
        BY <4>1 DEF ConnInd, ConnInv, TypeOK, BoundIsActive, Current
      <4> QED BY <1>4, <3>2, <4>1, <4>2
    <3> QED BY <3>1, <3>2
  <2> QED BY <2>1, <2>2 DEF BoundIsActive, Current
<1>14. Settled'
  BY <1>1, <1>2, <1>4, <1>5, <1>6 DEF ConnInd, Settled
<1> QED BY <1>9, <1>10, <1>11, <1>12, <1>13, <1>14, CommitKeeps

LEMMA ApproveNewKeeps ==
  ASSUME ConnInd, NEW s \in Sessions, ApproveNew(s)
  PROVE  ConnInd'
<1> DEFINE p == tx[s].p
           a == tx[s].a
<1>1. /\ p \in Pairings /\ a \in Agents /\ tx[s].key \in Keys
      /\ lock[<<"pairing", p>>] = s /\ pairing[p] = "pending"
      /\ agent[a] = "absent" /\ lock[<<"human">>] = s
  BY DEF ApproveNew, ConnInd, ConnInv, RequestInv, ReqInv
<1>2. /\ RecordApproval(s, p, a) /\ End(s) /\ cred' = cred
      /\ agent' = [agent EXCEPT ![a] = "active"]
      /\ conn' = [conn EXCEPT ![p] = "active"]
  BY DEF ApproveNew
<1> HIDE DEF p, a
<1>3. binding[a] = NoPairing
  BY <1>1 DEF ConnInd, ConnInv, BoundIsActive
<1>4. /\ agent' \in [Agents -> {"absent", "active", "disabled"}]
      /\ \A b \in Agents : agent'[b] = IF b = a THEN "active" ELSE agent[b]
      /\ conn' \in [Pairings -> ConnStatus] /\ conn'[p] = "active"
      /\ \A q \in Pairings \ {p, binding[a]} : conn'[q] = conn[q]
  BY <1>1, <1>2 DEF ConnInd, ConnInv, TypeOK, ConnStatus
<1>5. /\ cred' \in [Pairings -> [Gens -> CredStatus]] /\ Withdrawn
      /\ \A t \in Sessions \ {s}, q \in Pairings, n \in Gens :
           \/ cred'[q][n] = cred[q][n]
           \/ cred[q][n] # "live" \/ lock[<<"refresh", q, n>>] # t
  BY <1>2 DEF ConnInd, ConnInv, TypeOK, Withdrawn
<1> QED BY <1>1, <1>2, <1>3, <1>4, <1>5, ApprovalKeeps

LEMMA ApproveExistingKeeps ==
  ASSUME ConnInd, NEW s \in Sessions, ApproveExisting(s)
  PROVE  ConnInd'
<1> DEFINE p == tx[s].p
           a == tx[s].a
           previous == binding[a]
<1>1. /\ p \in Pairings /\ a \in Agents /\ tx[s].key \in Keys
      /\ lock[<<"pairing", p>>] = s /\ pairing[p] = "pending"
      /\ agent[a] = "active"
  BY DEF ApproveExisting, ConnInd, ConnInv, RequestInv, ReqInv
<1>2. /\ RecordApproval(s, p, a) /\ End(s) /\ agent' = agent
      /\ IF previous = NoPairing
         THEN conn' = [conn EXCEPT ![p] = "active"] /\ cred' = cred
         ELSE /\ Writable(s, <<"connector", previous>>)
              /\ RowsWritable(s, previous, tx[s].rows)
              /\ conn' = [conn EXCEPT ![previous] = "replaced", ![p] = "active"]
              /\ cred' = [cred EXCEPT ![previous] = Withdraw(previous, tx[s].rows)]
  BY DEF ApproveExisting
<1>3. tx[s].rows \in SUBSET Gens /\ TypeOK
  BY Rows0 DEF ConnInd, ConnInv
<1> HIDE DEF p, a
<1>4. previous \in Pairings \cup {NoPairing} /\ (previous # NoPairing => previous # p)
  BY <1>1, PendingIsBare DEF ConnInd, ConnInv, TypeOK, BoundIsActive
<1>5. /\ agent' \in [Agents -> {"absent", "active", "disabled"}]
      /\ \A b \in Agents : agent'[b] = IF b = a THEN "active" ELSE agent[b]
  BY <1>1, <1>2 DEF ConnInd, ConnInv, TypeOK
<1>6. /\ conn' \in [Pairings -> ConnStatus] /\ conn'[p] = "active"
      /\ \A q \in Pairings \ {p, previous} : conn'[q] = conn[q]
      /\ previous # NoPairing =>
           conn'[previous] = "replaced" /\ Writable(s, <<"connector", previous>>)
  <2>1. CASE previous = NoPairing
    BY <1>1, <1>2, <2>1 DEF ConnInd, ConnInv, TypeOK, ConnStatus
  <2>2. CASE previous # NoPairing
    <3> HIDE DEF previous
    <3>1. conn' = [[conn EXCEPT ![previous] = "replaced"] EXCEPT ![p] = "active"]
      BY <1>2, <2>2
    <3>2. conn \in [Pairings -> ConnStatus]
      BY DEF ConnInd, ConnInv, TypeOK
    <3>3. \A q \in Pairings :
            conn'[q] = IF q = p THEN "active" ELSE IF q = previous THEN "replaced" ELSE conn[q]
      BY <1>1, <1>4, <2>2, <3>1, <3>2
    <3>4. conn' \in [Pairings -> ConnStatus]
      BY <1>1, <1>4, <2>2, <3>1, <3>2 DEF ConnStatus
    <3> QED BY <1>1, <1>2, <1>4, <2>2, <3>3, <3>4
  <2> QED BY <2>1, <2>2
<1>7. /\ cred' \in [Pairings -> [Gens -> CredStatus]] /\ Withdrawn
      /\ \A t \in Sessions \ {s}, q \in Pairings, n \in Gens :
           \/ cred'[q][n] = cred[q][n]
           \/ cred[q][n] # "live" \/ lock[<<"refresh", q, n>>] # t
  <2>1. CASE previous = NoPairing
    BY <1>2, <2>1 DEF ConnInd, ConnInv, TypeOK, Withdrawn
  <2>2. CASE previous # NoPairing
    BY <1>2, <1>3, <1>4, <2>2, WithdrawFamily
  <2> QED BY <2>1, <2>2
<1>8. RecordApproval(s, p, a) /\ End(s)
  BY <1>2
<1> QED BY <1>1, <1>5, <1>6, <1>7, <1>8, ApprovalKeeps

-----------------------------------------------------------------------------
(* Grants: the API key, the device grant, the code grant.                  *)

LEMMA IssueCommitKeeps ==
  ASSUME ConnInd, NEW s \in Sessions, IssueCommit(s)
  PROVE  ConnInd'
<1> DEFINE p == tx[s].p
<1>1. /\ p \in Pairings /\ lock[<<"pairing", p>>] = s
      /\ pairing[p] \in {"approved", "consumed"}
  BY ZenonT(60) DEF IssueCommit, ConnInd, ConnInv, RequestInv, ReqInv
<1>2. /\ cred' = cred \/ cred' = [cred EXCEPT ![p][0] = "live"]
      /\ pairing' = [pairing EXCEPT ![p] = "consumed"]
      /\ End(s)
      /\ UNCHANGED <<mode, clock, decided, agentOf, auth, agent, binding, conn, notices>>
  BY DEF IssueCommit
<1> HIDE DEF p
<1>3. /\ pairing' \in [Pairings -> PairingStatus]
      /\ \A q \in Pairings : pairing'[q] = IF q = p THEN "consumed" ELSE pairing[q]
  BY <1>1, <1>2 DEF ConnInd, ConnInv, TypeOK, PairingStatus
<1>4. /\ cred' \in [Pairings -> [Gens -> CredStatus]]
      /\ \A q \in Pairings : \A n \in Gens \ {0} : cred'[q][n] = cred[q][n]
  <2> DEFINE w == [cred[p] EXCEPT ![0] = "live"]
  <2>1. cred \in [Pairings -> [Gens -> CredStatus]]
    BY DEF ConnInd, ConnInv, TypeOK
  <2>2. w \in [Gens -> CredStatus] /\ \A n \in Gens \ {0} : w[n] = cred[p][n]
    BY <1>1, <2>1 DEF CredStatus
  <2>3. cred' = cred \/ cred' = [cred EXCEPT ![p] = w]
    BY <1>2
  <2> HIDE DEF w
  <2> QED BY <1>1, <2>1, <2>2, <2>3
<1>5. TableTypes'
  BY <1>2, <1>3, <1>4 DEF ConnInd, ConnInv, TypeOK, TableTypes
<1>6. \A t \in Sessions \ {s} : Frame(t)
  BY SMTT(60), <1>1, <1>2, <1>3, <1>4 DEF Frame
<1>7. DecidedInv'
  BY <1>1, <1>2, <1>3 DEF ConnInd, ConnInv, DecidedInv
<1>8. GrantInv'
  BY <1>2, <1>3, <1>4 DEF ConnInd, ConnInv, GrantInv
<1>9. BoundIsActive'
  BY <1>2 DEF ConnInd, ConnInv, BoundIsActive, Current
<1>10. Settled'
  BY <1>2, <1>3, <1>4 DEF ConnInd, Settled
<1> QED BY <1>2, <1>5, <1>6, <1>7, <1>8, <1>9, <1>10, CommitKeeps

\* The first tokens of a family.
LEMMA FirstTokens ==
  ASSUME ConnInd, NEW p \in Pairings, CreateTokenRows(p, 1)
  PROVE  /\ 1 \in Gens \ {0} /\ cred' \in [Pairings -> [Gens -> CredStatus]]
         /\ \A q \in Pairings : \A n \in Gens :
              cred'[q][n] = IF q = p /\ n = 1 THEN "live" ELSE cred[q][n]
BY DEF CreateTokenRows, ConnInd, ConnInv, TypeOK, CredStatus

LEMMA DeviceCommitKeeps ==
  ASSUME ConnInd, NEW s \in Sessions, DeviceCommit(s)
  PROVE  ConnInd'
<1> DEFINE p == tx[s].p
<1>1. /\ p \in Pairings /\ lock[<<"pairing", p>>] = s
      /\ pairing[p] = "approved" /\ mode[p] = "device"
  BY ZenonT(60) DEF DeviceCommit, ConnInd, ConnInv, RequestInv, ReqInv
<1>2. /\ CreateTokenRows(p, 1)
      /\ pairing' = [pairing EXCEPT ![p] = "consumed"]
      /\ End(s)
      /\ UNCHANGED <<mode, clock, decided, agentOf, auth, agent, binding, conn, notices>>
  BY DEF DeviceCommit
<1> HIDE DEF p
<1>3. /\ pairing' \in [Pairings -> PairingStatus]
      /\ \A q \in Pairings : pairing'[q] = IF q = p THEN "consumed" ELSE pairing[q]
  BY <1>1, <1>2 DEF ConnInd, ConnInv, TypeOK, PairingStatus
<1>4. /\ 1 \in Gens \ {0} /\ cred' \in [Pairings -> [Gens -> CredStatus]]
      /\ \A q \in Pairings : \A n \in Gens :
           cred'[q][n] = IF q = p /\ n = 1 THEN "live" ELSE cred[q][n]
  BY <1>1, <1>2, FirstTokens
<1>5. \A n \in Gens \ {0} : cred[p][n] = "none"
  BY <1>1 DEF ConnInd, ConnInv, GrantInv
<1>6. TableTypes'
  BY <1>2, <1>3, <1>4 DEF ConnInd, ConnInv, TypeOK, TableTypes
<1>7. \A t \in Sessions \ {s} : Frame(t)
  BY <1>1, <1>2, <1>3, <1>4, <1>5 DEF Frame
<1>8. DecidedInv'
  BY <1>1, <1>2, <1>3 DEF ConnInd, ConnInv, DecidedInv
<1>9. GrantInv'
  <2>1. ASSUME NEW q \in Pairings, NEW m \in Gens \ {0}, NEW n \in Gens \ {0},
               m < n, cred'[q][n] # "none"
        PROVE  cred'[q][m] \notin {"none", "live"}
    BY <1>4, <1>5, <2>1 DEF ConnInd, ConnInv, GrantInv, Gens
  <2>2. ASSUME NEW q \in Pairings, NEW n \in Gens \ {0}, cred'[q][n] # "none"
        PROVE  \/ mode'[q] = "device" /\ pairing'[q] \in {"consumed", "expired"}
               \/ mode'[q] = "code" /\ auth'[q] \in {"consumed", "expired"}
    BY <1>1, <1>2, <1>3, <1>4, <2>2 DEF ConnInd, ConnInv, GrantInv
  <2> QED BY <2>1, <2>2 DEF GrantInv
<1>10. BoundIsActive'
  BY <1>2 DEF ConnInd, ConnInv, BoundIsActive, Current
<1>11. Settled'
  BY <1>1, <1>2, <1>3, <1>4 DEF ConnInd, ConnInv, DecidedInv, Settled
<1> QED BY <1>2, <1>6, <1>7, <1>8, <1>9, <1>10, <1>11, CommitKeeps

LEMMA ExchangeCommitKeeps ==
  ASSUME ConnInd, NEW s \in Sessions, ExchangeCommit(s)
  PROVE  ConnInd'
<1> DEFINE p == tx[s].p
<1>1. /\ p \in Pairings /\ lock[<<"authorization", p>>] = s /\ auth[p] = "approved"
      /\ lock[<<"pairing", p>>] = NoSession
  BY ZenonT(60) DEF ExchangeCommit, FreeRow, ConnInd, ConnInv, RequestInv, ReqInv
<1>2. /\ CreateTokenRows(p, 1)
      /\ auth' = [auth EXCEPT ![p] = "consumed"]
      /\ pairing' = [pairing EXCEPT ![p] = "consumed"]
      /\ End(s)
      /\ UNCHANGED <<mode, clock, decided, agentOf, agent, binding, conn, notices>>
  BY DEF ExchangeCommit
<1> HIDE DEF p
<1>3. /\ pairing' \in [Pairings -> PairingStatus] /\ auth' \in [Pairings -> AuthStatus]
      /\ \A q \in Pairings : /\ pairing'[q] = IF q = p THEN "consumed" ELSE pairing[q]
                             /\ auth'[q] = IF q = p THEN "consumed" ELSE auth[q]
  BY <1>1, <1>2 DEF ConnInd, ConnInv, TypeOK, PairingStatus, AuthStatus
<1>4. /\ 1 \in Gens \ {0} /\ cred' \in [Pairings -> [Gens -> CredStatus]]
      /\ \A q \in Pairings : \A n \in Gens :
           cred'[q][n] = IF q = p /\ n = 1 THEN "live" ELSE cred[q][n]
  BY <1>1, <1>2, FirstTokens
<1>5. mode[p] = "code" /\ decided[p].verdict = "approved"
  BY <1>1 DEF ConnInd, ConnInv, DecidedInv, Settled
<1>6. \A n \in Gens \ {0} : cred[p][n] = "none"
  BY <1>1, <1>5 DEF ConnInd, ConnInv, GrantInv
<1>7. TableTypes'
  BY <1>2, <1>3, <1>4 DEF ConnInd, ConnInv, TypeOK, TableTypes
<1>8. ASSUME NEW t \in Sessions \ {s} PROVE Frame(t)
  <2>1. lock[<<"pairing", p>>] # t /\ lock[<<"authorization", p>>] # t
    BY <1>1, Fresh
  <2>2. \A q \in Pairings : \A n \in Gens \ {0} :
          cred'[q][n] = cred[q][n] \/ cred[q][n] # "live"
    BY <1>4, <1>6
  <2> QED BY <1>2, <1>3, <2>1, <2>2 DEF Frame
<1>9. DecidedInv'
  BY <1>2, <1>3, <1>5 DEF ConnInd, ConnInv, DecidedInv
<1>10. GrantInv'
  <2>1. ASSUME NEW q \in Pairings, NEW m \in Gens \ {0}, NEW n \in Gens \ {0},
               m < n, cred'[q][n] # "none"
        PROVE  cred'[q][m] \notin {"none", "live"}
    BY <1>4, <1>6, <2>1 DEF ConnInd, ConnInv, GrantInv, Gens
  <2>2. ASSUME NEW q \in Pairings, NEW n \in Gens \ {0}, cred'[q][n] # "none"
        PROVE  \/ mode'[q] = "device" /\ pairing'[q] \in {"consumed", "expired"}
               \/ mode'[q] = "code" /\ auth'[q] \in {"consumed", "expired"}
    BY <1>2, <1>3, <1>4, <1>5, <2>2 DEF ConnInd, ConnInv, GrantInv
  <2> QED BY <2>1, <2>2 DEF GrantInv
<1>11. BoundIsActive'
  BY <1>2 DEF ConnInd, ConnInv, BoundIsActive, Current
<1>12. Settled'
  BY <1>2, <1>3, <1>4, <1>5 DEF ConnInd, Settled
<1> QED BY <1>2, <1>7, <1>8, <1>9, <1>10, <1>11, <1>12, CommitKeeps

-----------------------------------------------------------------------------
(* Rotation.                                                               *)

\* In a family the live refresh token is the last one issued.
LEMMA LiveIsLast ==
  ASSUME ConnInd, NEW p \in Pairings, NEW n \in Gens \ {0}, cred[p][n] = "live"
  PROVE  /\ Issued(p) \ {0} = 1..n
         /\ Cardinality(Issued(p) \ {0}) = n
         /\ \A m \in Gens \ {0} :
              /\ m < n => cred[p][m] \notin {"none", "live"}
              /\ n < m => cred[p][m] = "none"
<1>1. \A m \in Gens \ {0} :
        /\ m < n => cred[p][m] \notin {"none", "live"}
        /\ n < m => cred[p][m] = "none"
  BY DEF ConnInd, ConnInv, GrantInv
<1>2. Issued(p) \ {0} = 1..n
  <2>1. ASSUME NEW m \in Issued(p) \ {0} PROVE m \in 1..n
    BY <1>1, ConnAssumption DEF Issued, Gens, ConnAssumption
  <2>2. ASSUME NEW m \in 1..n PROVE m \in Issued(p) \ {0}
    <3>1. m \in Gens \ {0} /\ (m < n \/ m = n)
      BY ConnAssumption DEF Gens, ConnAssumption
    <3> QED BY <1>1, <3>1 DEF Issued
  <2> QED BY <2>1, <2>2
<1>3. Cardinality(1..n) = n
  <2>1. n \in Int /\ 1 \in Int /\ 1 <= n
    BY ConnAssumption DEF Gens, ConnAssumption
  <2>2. Cardinality(1..n) = n - 1 + 1
    BY <2>1, FS_Interval
  <2> QED BY <2>1, <2>2
<1> QED BY <1>1, <1>2, <1>3

LEMMA RotateKeeps ==
  ASSUME ConnInd, NEW s \in Sessions, Rotate(s)
  PROVE  ConnInd'
<1> DEFINE p == tx[s].p
           n == tx[s].gen
           w == Withdraw(p, tx[s].rows)
           next == [w EXCEPT ![n] = "consumed", ![n + 1] = "live"]
<1>1. /\ p \in Pairings /\ n \in Gens \ {0} /\ cred[p][n] = "live"
      /\ lock[<<"refresh", p, n>>] = s
  BY Rows0 DEF Rotate, ConnInd, ConnInv, RequestInv, ReqInv
<1>2. /\ Cardinality(Issued(p) \ {0}) = n
      /\ \A m \in Gens \ {0} : /\ m < n => cred[p][m] \notin {"none", "live"}
                               /\ n < m => cred[p][m] = "none"
  <2> HIDE DEF p, n
  <2> QED BY <1>1, LiveIsLast
<1>3. /\ n + 1 <= MaxGen /\ cred' = [cred EXCEPT ![p] = next]
      /\ End(s) /\ unchangedPairing /\ UNCHANGED <<agent, binding, conn, notices>>
  BY <1>2 DEF Rotate
<1>4. /\ w \in [Gens -> CredStatus]
      /\ \A m \in Gens \ {0, n} : w[m] = cred[p][m]
  <2>1. w \in [Gens -> CredStatus]
    <3> HIDE DEF p
    <3> QED BY <1>1 DEF Withdraw, ConnInd, ConnInv, TypeOK, CredStatus
  <2>2. ASSUME NEW m \in Gens \ {0, n} PROVE w[m] = cred[p][m]
    <3>1. cred[p][m] # "live"
      BY <1>1, <1>2, <2>2, ConnAssumption DEF Gens, ConnAssumption
    <3> QED BY <3>1 DEF Withdraw
  <2> QED BY <2>1, <2>2
<1> HIDE DEF p, n, w
<1>5. n + 1 \in Gens \ {0, n}
  BY <1>1, <1>3, ConnAssumption DEF Gens, ConnAssumption
<1>6. /\ next \in [Gens -> CredStatus]
      /\ next[n] = "consumed" /\ next[n + 1] = "live"
      /\ \A m \in Gens \ {0, n, n + 1} : next[m] = cred[p][m]
  <2> DEFINE v == [w EXCEPT ![n] = "consumed"]
  <2>1. /\ v \in [Gens -> CredStatus] /\ v[n] = "consumed"
        /\ \A m \in Gens \ {0, n} : v[m] = cred[p][m]
    BY <1>1, <1>4 DEF CredStatus
  <2>2. next = [v EXCEPT ![n + 1] = "live"]
    OBVIOUS
  <2> HIDE DEF v, next
  <2> QED BY <1>1, <1>5, <2>1, <2>2 DEF CredStatus
<1> HIDE DEF next
<1>7. /\ cred' \in [Pairings -> [Gens -> CredStatus]]
      /\ cred'[p] = next /\ \A q \in Pairings \ {p} : cred'[q] = cred[q]
  BY <1>1, <1>3, <1>6 DEF ConnInd, ConnInv, TypeOK
<1>8. TableTypes'
  BY <1>3, <1>7 DEF ConnInd, ConnInv, TypeOK, TableTypes, unchangedPairing
<1>9. ASSUME NEW t \in Sessions \ {s} PROVE Frame(t)
  <2>1. ASSUME NEW q \in Pairings, NEW m \in Gens \ {0}
        PROVE  \/ cred'[q][m] = cred[q][m]
               \/ cred[q][m] # "live" \/ lock[<<"refresh", q, m>>] # t
    <3>1. CASE q # p
      BY <1>7, <3>1
    <3>2. CASE q = p /\ m = n
      BY <1>1, <3>2
    <3>3. CASE q = p /\ m = n + 1
      BY <1>1, <1>2, <1>5, <3>3, ConnAssumption DEF Gens, ConnAssumption
    <3>4. CASE q = p /\ m \notin {n, n + 1}
      BY <1>6, <1>7, <3>4
    <3> QED BY <3>1, <3>2, <3>3, <3>4
  <2> QED BY <1>3, <2>1 DEF Frame, unchangedPairing
<1>10. DecidedInv'
  BY <1>3 DEF ConnInd, ConnInv, DecidedInv, unchangedPairing
<1>11. GrantInv'
  <2>1. ASSUME NEW q \in Pairings, NEW m \in Gens \ {0}, NEW k \in Gens \ {0},
               m < k, cred'[q][k] # "none"
        PROVE  cred'[q][m] \notin {"none", "live"}
    <3>1. CASE q # p
      BY <1>7, <2>1, <3>1 DEF ConnInd, ConnInv, GrantInv
    <3>2. CASE q = p
      <4>1. n \in Nat /\ m \in Nat /\ k \in Nat
        BY <1>1, ConnAssumption DEF Gens, ConnAssumption
      <4>2. ~ (n + 1 < k)
        <5> SUFFICES ASSUME n + 1 < k PROVE FALSE
          OBVIOUS
        <5>1. k \in Gens \ {0, n, n + 1} /\ n < k
          BY <4>1
        <5> QED BY <1>2, <1>6, <1>7, <2>1, <3>2, <5>1
      <4>3. CASE m = n
        BY <1>6, <1>7, <3>2, <4>3
      <4>4. CASE m # n
        <5>1. m < n /\ m \in Gens \ {0, n, n + 1}
          BY <2>1, <4>1, <4>2, <4>4
        <5> QED BY <1>2, <1>6, <1>7, <3>2, <5>1
      <4> QED BY <4>3, <4>4
    <3> QED BY <3>1, <3>2
  <2>2. ASSUME NEW q \in Pairings, NEW k \in Gens \ {0}, cred'[q][k] # "none"
        PROVE  \/ mode'[q] = "device" /\ pairing'[q] \in {"consumed", "expired"}
               \/ mode'[q] = "code" /\ auth'[q] \in {"consumed", "expired"}
    <3>1. \E i \in Gens \ {0} : cred[q][i] # "none"
      BY <1>1, <1>7, <2>2
    <3> QED BY <1>3, <3>1 DEF ConnInd, ConnInv, GrantInv, unchangedPairing
  <2> QED BY <2>1, <2>2 DEF GrantInv
<1>12. BoundIsActive'
  BY <1>3 DEF ConnInd, ConnInv, BoundIsActive, Current, unchangedPairing
<1>13. Settled'
  <2>1. \A q \in Pairings : (\E k \in Gens \ {0} : cred'[q][k] # "none") =>
                               \E i \in Gens \ {0} : cred[q][i] # "none"
    BY <1>1, <1>7
  <2> QED BY <1>3, <2>1 DEF ConnInd, Settled, unchangedPairing
<1> QED BY <1>3, <1>8, <1>9, <1>10, <1>11, <1>12, <1>13, CommitKeeps

LEMMA RevokeFamilyKeeps ==
  ASSUME ConnInd, NEW s \in Sessions, RevokeFamily(s)
  PROVE  ConnInd'
<1>1. /\ tx[s].p \in Pairings /\ RowsWritable(s, tx[s].p, tx[s].rows)
      /\ cred' = [cred EXCEPT ![tx[s].p] = Withdraw(tx[s].p, tx[s].rows)]
      /\ End(s) /\ unchangedPairing /\ UNCHANGED <<agent, binding, conn, notices>>
  BY DEF RevokeFamily, ConnInd, ConnInv, RequestInv, ReqInv
<1>2. tx[s].rows \in SUBSET Gens /\ TypeOK
  BY Rows0 DEF ConnInd, ConnInv
<1>3. /\ cred' \in [Pairings -> [Gens -> CredStatus]] /\ Withdrawn
      /\ \A t \in Sessions \ {s}, q \in Pairings, n \in Gens :
           \/ cred'[q][n] = cred[q][n]
           \/ cred[q][n] # "live" \/ lock[<<"refresh", q, n>>] # t
  BY <1>1, <1>2, WithdrawFamily
<1>4. TableTypes'
  BY <1>1, <1>3 DEF ConnInd, ConnInv, TypeOK, TableTypes, unchangedPairing
<1>5. \A t \in Sessions \ {s} : Frame(t)
  BY <1>1, <1>3 DEF Frame, unchangedPairing
<1>6. DecidedInv' /\ BoundIsActive'
  BY <1>1 DEF ConnInd, ConnInv, DecidedInv, BoundIsActive, Current, unchangedPairing
<1>7. GrantInv' /\ Settled'
  BY <1>1, <1>3, WithdrawnGrant, WithdrawnSettled DEF unchangedPairing
<1> QED BY <1>1, <1>4, <1>5, <1>6, <1>7, CommitKeeps

-----------------------------------------------------------------------------
(* The end of a connector, and its heartbeat.                              *)

LEMMA RevokeConnectorKeeps ==
  ASSUME ConnInd, NEW s \in Sessions, RevokeConnector(s)
  PROVE  ConnInd'
<1> DEFINE p == tx[s].p
           a == agentOf[p]
<1>1. /\ p \in Pairings /\ conn[p] = "active" /\ lock[<<"connector", p>>] = s
  BY DEF RevokeConnector, ConnInd, ConnInv, RequestInv, ReqInv
<1>2. /\ RowsWritable(s, p, tx[s].rows)
      /\ binding' = [binding EXCEPT ![a] = NoPairing]
      /\ conn' = [conn EXCEPT ![p] = "revoked"]
      /\ cred' = [cred EXCEPT ![p] = Withdraw(p, tx[s].rows)]
      /\ End(s) /\ unchangedPairing /\ UNCHANGED <<agent, notices>>
  BY DEF RevokeConnector
<1>3. tx[s].rows \in SUBSET Gens /\ TypeOK
  BY Rows0 DEF ConnInd, ConnInv
<1> HIDE DEF p
<1>4. a \in Agents /\ binding[a] = p
  BY <1>1, <1>3 DEF TypeOK, ConnInd, ConnInv, BoundIsActive, Current
<1>5. /\ cred' \in [Pairings -> [Gens -> CredStatus]] /\ Withdrawn
      /\ \A t \in Sessions \ {s}, q \in Pairings, n \in Gens :
           \/ cred'[q][n] = cred[q][n]
           \/ cred[q][n] # "live" \/ lock[<<"refresh", q, n>>] # t
  BY <1>1, <1>2, <1>3, WithdrawFamily
<1> HIDE DEF a
<1>6. /\ binding' \in [Agents -> Pairings \cup {NoPairing}]
      /\ \A b \in Agents : binding'[b] = IF b = a THEN NoPairing ELSE binding[b]
      /\ conn' \in [Pairings -> ConnStatus]
      /\ \A q \in Pairings : conn'[q] = IF q = p THEN "revoked" ELSE conn[q]
  BY <1>1, <1>2, <1>3, <1>4 DEF TypeOK, ConnStatus
<1>7. TableTypes'
  BY <1>2, <1>3, <1>5, <1>6 DEF TypeOK, TableTypes, unchangedPairing
<1>8. \A t \in Sessions \ {s} : Frame(t)
  BY <1>1, <1>2, <1>5, <1>6 DEF Frame, unchangedPairing
<1>9. DecidedInv'
  BY <1>1, <1>2, <1>6 DEF ConnInd, ConnInv, DecidedInv, unchangedPairing
<1>10. BoundIsActive'
  <2>1. ASSUME NEW b \in Agents, binding'[b] # NoPairing
        PROVE  /\ conn'[binding'[b]] = "active" /\ agentOf'[binding'[b]] = b
               /\ agent'[b] = "active"
    <3>1. b # a /\ binding'[b] = binding[b] /\ binding[b] \in Pairings
      BY <1>3, <1>6, <2>1 DEF TypeOK
    <3>2. conn[binding[b]] = "active" /\ agentOf[binding[b]] = b /\ agent[b] = "active"
      BY <2>1, <3>1 DEF ConnInd, ConnInv, BoundIsActive
    <3>3. binding[b] # p
      BY <3>1, <3>2 DEF a
    <3> QED BY <1>2, <1>6, <3>1, <3>2, <3>3 DEF unchangedPairing
  <2>2. ASSUME NEW q \in Pairings, conn'[q] = "active"
        PROVE  agentOf'[q] # NoAgent /\ binding'[agentOf'[q]] = q
    <3>1. q # p /\ conn[q] = "active"
      BY <1>6, <2>2
    <3>2. agentOf[q] \in Agents /\ agentOf[q] # NoAgent /\ binding[agentOf[q]] = q
      BY <1>3, <3>1 DEF ConnInd, ConnInv, BoundIsActive, Current, TypeOK
    <3> QED BY <1>2, <1>4, <1>6, <3>1, <3>2 DEF unchangedPairing
  <2> QED BY <2>1, <2>2 DEF BoundIsActive, Current
<1>11. GrantInv' /\ Settled'
  BY <1>2, <1>5, WithdrawnGrant, WithdrawnSettled DEF unchangedPairing
<1> QED BY <1>2, <1>7, <1>8, <1>9, <1>10, <1>11, CommitKeeps

LEMMA DisableAgentKeeps ==
  ASSUME ConnInd, NEW s \in Sessions, DisableAgent(s)
  PROVE  ConnInd'
<1> DEFINE a == tx[s].a
           p == binding[a]
<1>1. a \in Agents /\ agent[a] = "active" /\ lock[<<"agent", a>>] = s
  BY DEF DisableAgent, ConnInd, ConnInv, RequestInv, ReqInv
<1>2. /\ agent' = [agent EXCEPT ![a] = "disabled"]
      /\ binding' = [binding EXCEPT ![a] = NoPairing]
      /\ IF p = NoPairing
         THEN conn' = conn /\ cred' = cred
         ELSE /\ Writable(s, <<"connector", p>>)
              /\ RowsWritable(s, p, tx[s].rows)
              /\ conn' = [conn EXCEPT ![p] = "revoked"]
              /\ cred' = [cred EXCEPT ![p] = Withdraw(p, tx[s].rows)]
      /\ End(s) /\ unchangedPairing /\ UNCHANGED notices
  BY DEF DisableAgent
<1>3. tx[s].rows \in SUBSET Gens /\ TypeOK
  BY Rows0 DEF ConnInd, ConnInv
<1> HIDE DEF a
<1>4. /\ p \in Pairings \cup {NoPairing}
      /\ p # NoPairing => conn[p] = "active" /\ agentOf[p] = a
  BY <1>1, <1>3 DEF TypeOK, ConnInd, ConnInv, BoundIsActive
<1>5. /\ cred' \in [Pairings -> [Gens -> CredStatus]] /\ Withdrawn
      /\ \A t \in Sessions \ {s}, q \in Pairings, n \in Gens :
           \/ cred'[q][n] = cred[q][n]
           \/ cred[q][n] # "live" \/ lock[<<"refresh", q, n>>] # t
  <2>1. CASE p = NoPairing
    BY <1>2, <1>3, <2>1 DEF TypeOK, Withdrawn
  <2>2. CASE p # NoPairing
    BY <1>2, <1>3, <1>4, <2>2, WithdrawFamily
  <2> QED BY <2>1, <2>2
<1>6. /\ agent' \in [Agents -> {"absent", "active", "disabled"}]
      /\ binding' \in [Agents -> Pairings \cup {NoPairing}]
      /\ \A b \in Agents : /\ agent'[b] = IF b = a THEN "disabled" ELSE agent[b]
                           /\ binding'[b] = IF b = a THEN NoPairing ELSE binding[b]
  BY <1>1, <1>2, <1>3 DEF TypeOK
<1>7. /\ conn' \in [Pairings -> ConnStatus]
      /\ \A q \in Pairings : conn'[q] = IF q = p THEN "revoked" ELSE conn[q]
  <2>1. CASE p = NoPairing
    BY <1>2, <1>3, <2>1, Bottoms DEF TypeOK
  <2>2. CASE p # NoPairing
    BY SMTT(60), <1>2, <1>3, <1>4, <2>2 DEF TypeOK, ConnStatus
  <2> QED BY <2>1, <2>2
<1>8. TableTypes'
  BY <1>2, <1>3, <1>5, <1>6, <1>7 DEF TypeOK, TableTypes, unchangedPairing
<1>9. ASSUME NEW t \in Sessions \ {s} PROVE Frame(t)
  <2>1. p # NoPairing => lock[<<"connector", p>>] # t
    BY <1>2, Fresh DEF Writable
  <2>2. \A q \in Pairings : conn'[q] = conn[q] \/ lock[<<"connector", q>>] # t
    BY <1>7, <2>1, Bottoms
  <2>3. \A b \in Agents : \/ agent'[b] = agent[b]
                          \/ (agent[b] = "active" /\ lock[<<"agent", b>>] # t)
    BY <1>1, <1>6
  <2> QED BY <1>2, <1>5, <2>2, <2>3 DEF Frame, unchangedPairing
<1>10. DecidedInv'
  <2>1. \A q \in Pairings : conn'[q] # "none" <=> conn[q] # "none"
    BY <1>4, <1>7, Bottoms
  <2> QED BY <1>2, <2>1 DEF ConnInd, ConnInv, DecidedInv, unchangedPairing
<1>11. BoundIsActive'
  <2>1. ASSUME NEW b \in Agents, binding'[b] # NoPairing
        PROVE  /\ conn'[binding'[b]] = "active" /\ agentOf'[binding'[b]] = b
               /\ agent'[b] = "active"
    <3>1. b # a /\ binding'[b] = binding[b] /\ binding[b] \in Pairings
      BY <1>3, <1>6, <2>1 DEF TypeOK
    <3>2. conn[binding[b]] = "active" /\ agentOf[binding[b]] = b /\ agent[b] = "active"
      BY <2>1, <3>1 DEF ConnInd, ConnInv, BoundIsActive
    <3>3. binding[b] # p
      BY <1>4, <3>1, <3>2, Bottoms
    <3> QED BY <1>2, <1>6, <1>7, <3>1, <3>2, <3>3 DEF unchangedPairing
  <2>2. ASSUME NEW q \in Pairings, conn'[q] = "active"
        PROVE  agentOf'[q] # NoAgent /\ binding'[agentOf'[q]] = q
    <3>1. q # p /\ conn[q] = "active"
      BY <1>7, <2>2
    <3>2. agentOf[q] \in Agents /\ agentOf[q] # NoAgent /\ binding[agentOf[q]] = q
      BY <1>3, <3>1 DEF ConnInd, ConnInv, BoundIsActive, Current, TypeOK
    <3> QED BY <1>2, <1>6, <3>1, <3>2 DEF unchangedPairing
  <2> QED BY <2>1, <2>2 DEF BoundIsActive, Current
<1>12. GrantInv' /\ Settled'
  BY <1>2, <1>5, WithdrawnGrant, WithdrawnSettled DEF unchangedPairing
<1> QED BY <1>2, <1>8, <1>9, <1>10, <1>11, <1>12, CommitKeeps

LEMMA RecordHeartbeatKeeps ==
  ASSUME ConnInd, NEW s \in Sessions, RecordHeartbeat(s)
  PROVE  ConnInd'
<1> DEFINE p == tx[s].p
<1>1. p \in Pairings
  BY DEF RecordHeartbeat, ConnInd, ConnInv, RequestInv, ReqInv
<1>2. /\ \/ notices[p] < MaxNotices /\ notices' = [notices EXCEPT ![p] = @ + 1]
         \/ UNCHANGED notices
      /\ End(s) /\ unchangedPairing /\ UNCHANGED <<agent, binding, conn, cred>>
  BY DEF RecordHeartbeat
<1> HIDE DEF p
<1>3. notices' \in [Pairings -> 0..MaxNotices]
  <2>1. notices \in [Pairings -> 0..MaxNotices]
    BY DEF ConnInd, ConnInv, TypeOK
  <2> QED BY <1>1, <1>2, <2>1, ConnAssumption DEF ConnAssumption
<1>4. TableTypes'
  BY <1>2, <1>3 DEF ConnInd, ConnInv, TypeOK, TableTypes, unchangedPairing
<1>5. \A t \in Sessions \ {s} : Frame(t)
  BY <1>2 DEF Frame, unchangedPairing
<1>6. DecidedInv' /\ GrantInv' /\ BoundIsActive' /\ Settled'
  BY <1>2 DEF ConnInd, ConnInv, DecidedInv, GrantInv, BoundIsActive, Current, Settled,
              unchangedPairing
<1> QED BY <1>2, <1>4, <1>5, <1>6, CommitKeeps

-----------------------------------------------------------------------------
(* Single statements.                                                      *)

LEMMA OpenPairingKeeps ==
  ASSUME ConnInd, NEW p \in Pairings, NEW m \in {"api_key", "device", "code"},
         OpenPairing(p, m),
         \/ UNCHANGED auth
         \/ (m = "code" /\ auth' = [auth EXCEPT ![p] = "pending"])
  PROVE  ConnInd'
<1>1. /\ pairing[p] = "absent"
      /\ pairing' = [pairing EXCEPT ![p] = "pending"]
      /\ mode' = [mode EXCEPT ![p] = m]
      /\ UNCHANGED <<clock, decided, agentOf, lock, tx>> /\ unchangedConn
  BY DEF OpenPairing
<1>2. /\ pairing' \in [Pairings -> PairingStatus]
      /\ mode' \in [Pairings -> {"none", "api_key", "device", "code"}]
      /\ auth' \in [Pairings -> AuthStatus]
      /\ \A q \in Pairings : /\ pairing'[q] = IF q = p THEN "pending" ELSE pairing[q]
                             /\ mode'[q] = IF q = p THEN m ELSE mode[q]
                             /\ q # p => auth'[q] = auth[q]
      /\ auth'[p] = auth[p] \/ (m = "code" /\ auth'[p] = "pending")
  BY <1>1 DEF ConnInd, ConnInv, TypeOK, PairingStatus, AuthStatus
<1>3. /\ decided[p] = NoDecision /\ auth[p] = "none"
      /\ \A n \in Gens \ {0} : cred[p][n] = "none"
  BY <1>1, PendingIsBare DEF ConnInd, Settled
<1>4. TableTypes'
  BY <1>1, <1>2 DEF ConnInd, ConnInv, TypeOK, TableTypes, unchangedConn
<1>5. \A t \in Sessions : Frame(t)
  BY <1>1, <1>2, <1>3 DEF Frame, unchangedConn
<1>6. DecidedInv'
  BY <1>1, <1>2, <1>3 DEF ConnInd, ConnInv, DecidedInv, unchangedConn
<1>7. GrantInv'
  BY <1>1, <1>2, <1>3 DEF ConnInd, ConnInv, GrantInv, unchangedConn
<1>8. BoundIsActive'
  BY <1>1 DEF ConnInd, ConnInv, BoundIsActive, Current, unchangedConn
<1>9. Settled'
  BY <1>1, <1>2, <1>3 DEF ConnInd, Settled, unchangedConn
<1> QED BY <1>1, <1>4, <1>5, <1>6, <1>7, <1>8, <1>9, StatementKeeps

LEMMA CompleteAuthorizationKeeps ==
  ASSUME ConnInd, NEW p \in Pairings, CompleteAuthorization(p)
  PROVE  ConnInd'
<1>1. \E st \in {"expired", "denied", "approved"} :
        /\ auth' = [auth EXCEPT ![p] = st]
        /\ st = "denied" => pairing[p] = "denied"
        /\ st = "approved" => pairing[p] = "approved" /\ auth[p] = "pending"
  BY DEF CompleteAuthorization
<1>2. PICK st \in {"expired", "denied", "approved"} :
        /\ auth' = [auth EXCEPT ![p] = st]
        /\ st = "denied" => pairing[p] = "denied"
        /\ st = "approved" => pairing[p] = "approved" /\ auth[p] = "pending"
  BY <1>1
<1>3. /\ auth[p] # "none" /\ lock[<<"authorization", p>>] = NoSession
      /\ UNCHANGED <<pairing, mode, clock, decided, agentOf, lock, tx>> /\ unchangedConn
  BY DEF CompleteAuthorization, FreeRow
<1>4. /\ auth' \in [Pairings -> AuthStatus]
      /\ \A q \in Pairings : auth'[q] = IF q = p THEN st ELSE auth[q]
  BY <1>2 DEF ConnInd, ConnInv, TypeOK, AuthStatus
<1>5. /\ pairing[p] # "absent" /\ mode[p] = "code"
      /\ pairing[p] = "denied" => \A n \in Gens \ {0} : cred[p][n] = "none"
      /\ auth[p] = "pending" => \A n \in Gens \ {0} : cred[p][n] = "none"
      /\ pairing[p] = "approved" => decided[p].verdict = "approved"
  <2>1. mode[p] = "code"
    BY <1>3 DEF ConnInd, ConnInv, DecidedInv
  <2> QED BY <1>3, <2>1 DEF ConnInd, ConnInv, DecidedInv, GrantInv, Settled
<1>6. TableTypes'
  BY <1>3, <1>4 DEF ConnInd, ConnInv, TypeOK, TableTypes, unchangedConn
<1>7. \A t \in Sessions : Frame(t)
  BY <1>3, <1>4, Fresh DEF Frame, unchangedConn
<1>8. DecidedInv'
  BY <1>3, <1>4, <1>5 DEF ConnInd, ConnInv, DecidedInv, unchangedConn
<1>9. GrantInv'
  BY <1>2, <1>3, <1>4, <1>5 DEF ConnInd, ConnInv, GrantInv, unchangedConn
<1>10. BoundIsActive'
  BY <1>3 DEF ConnInd, ConnInv, BoundIsActive, Current, unchangedConn
<1>11. Settled'
  BY <1>2, <1>3, <1>4, <1>5 DEF ConnInd, Settled, unchangedConn
<1> QED BY <1>3, <1>6, <1>7, <1>8, <1>9, <1>10, <1>11, StatementKeeps

LEMMA PassDeadlineKeeps ==
  ASSUME ConnInd, NEW p \in Pairings, PassDeadline(p)
  PROVE  ConnInd'
<1>1. /\ clock' = [clock EXCEPT ![p] = "first"] \/ clock' = [clock EXCEPT ![p] = "renewed"]
      /\ UNCHANGED <<pairing, mode, decided, agentOf, auth, lock, tx>> /\ unchangedConn
  BY DEF PassDeadline
<1>2. TableTypes'
  BY <1>1 DEF ConnInd, ConnInv, TypeOK, TableTypes, unchangedConn
<1>3. \A t \in Sessions : Frame(t)
  BY <1>1 DEF Frame, unchangedConn
<1>4. DecidedInv' /\ GrantInv' /\ BoundIsActive' /\ Settled'
  BY <1>1 DEF ConnInd, ConnInv, DecidedInv, GrantInv, BoundIsActive, Current, Settled,
              unchangedConn
<1> QED BY <1>1, <1>2, <1>3, <1>4, StatementKeeps

-----------------------------------------------------------------------------
(* The invariant.                                                          *)

LEMMA InitInd == Init => ConnInd
<1> SUFFICES ASSUME Init PROVE ConnInd
  OBVIOUS
<1>1. TypeOK
  <2>1. [n \in Gens |-> "none"] \in [Gens -> CredStatus]
    BY DEF CredStatus
  <2>2. 0 \in 0..MaxNotices
    BY ConnAssumption DEF ConnAssumption
  <2> QED BY <2>1, <2>2, Fresh
          DEF Init, TypeOK, PairingStatus, Decisions, ConnStatus, AuthStatus
<1>2. RequestInv
  BY DEF Init, RequestInv, ReqInv, Idle
<1>3. DecidedInv /\ GrantInv /\ Settled
  BY DEF Init, DecidedInv, GrantInv, Settled, NoDecision
<1>4. BoundIsActive
  BY DEF Init, BoundIsActive
<1> QED BY <1>1, <1>2, <1>3, <1>4 DEF ConnInd, ConnInv

LEMMA RequestStep ==
  ASSUME ConnInd, NEW s \in Sessions, Request(s)
  PROVE  ConnInd'
<1>1. ASSUME NEW p \in Pairings,
             \/ PreviewRead(s, p) \/ IssueBegin(s, p) \/ DeviceBegin(s, p)
             \/ ExchangeBegin(s, p) \/ RevokeBegin(s, p) \/ HeartbeatBegin(s, p)
      PROVE  ConnInd'
  BY <1>1, PreviewReadKeeps, IssueBeginKeeps, DeviceBeginKeeps, ExchangeBeginKeeps,
     RevokeBeginKeeps, HeartbeatBeginKeeps
<1>2. ASSUME NEW p \in Pairings, NEW k \in Keys, DecideBegin(s, p, k) PROVE ConnInd'
  BY <1>2, DecideBeginKeeps
<1>3. ASSUME NEW p \in Pairings, NEW n \in Gens \ {0}, RefreshBegin(s, p, n) PROVE ConnInd'
  BY <1>3, RefreshBeginKeeps
<1>4. ASSUME NEW a \in Agents,
             ChooseExisting(s, a) \/ ChooseNew(s, a) \/ DisableBegin(s, a)
      PROVE  ConnInd'
  BY <1>4, ChooseExistingKeeps, ChooseNewKeeps, DisableBeginKeeps
<1>5. CASE DecideBinding(s) \/ RevokeBinding(s) \/ DisableBinding(s)
  BY <1>5, DecideBindingKeeps, RevokeBindingKeeps, DisableBindingKeeps
<1> QED BY <1>1, <1>2, <1>3, <1>4, <1>5 DEF Request

LEMMA CommitStep ==
  ASSUME ConnInd, NEW s \in Sessions, Commit(s)
  PROVE  ConnInd'
<1>1. CASE ExpireWrite(s) \/ Deny(s) \/ ApproveNew(s) \/ ApproveExisting(s)
  BY <1>1, ExpireWriteKeeps, DenyKeeps, ApproveNewKeeps, ApproveExistingKeeps
<1>2. CASE \/ IssueCommit(s) \/ DeviceCommit(s) \/ ExchangeCommit(s)
           \/ Rotate(s) \/ RevokeFamily(s)
  BY <1>2, IssueCommitKeeps, DeviceCommitKeeps, ExchangeCommitKeeps, RotateKeeps,
     RevokeFamilyKeeps
<1>3. CASE RevokeConnector(s) \/ DisableAgent(s) \/ RecordHeartbeat(s)
  BY <1>3, RevokeConnectorKeeps, DisableAgentKeeps, RecordHeartbeatKeeps
<1> QED BY <1>1, <1>2, <1>3 DEF Commit

LEMMA StepInd == ConnInd /\ [Next]_vars => ConnInd'
<1> SUFFICES ASSUME ConnInd, [Next]_vars PROVE ConnInd'
  OBVIOUS
<1>1. ASSUME NEW p \in Pairings,
             \/ CreatePairing(p) \/ CreateDeviceAuthorization(p)
             \/ StartAuthorizationCode(p)
      PROVE  ConnInd'
  BY <1>1, OpenPairingKeeps
     DEF CreatePairing, CreateDeviceAuthorization, StartAuthorizationCode
<1>2. ASSUME NEW p \in Pairings,
             CompleteAuthorization(p) \/ PassDeadline(p) \/ ExpireLocked(p)
      PROVE  ConnInd'
  BY <1>2, CompleteAuthorizationKeeps, PassDeadlineKeeps, ExpireLockedKeeps
<1>3. ASSUME NEW s \in Sessions, Request(s) \/ Commit(s) \/ Abort(s) PROVE ConnInd'
  BY <1>3, RequestStep, CommitStep, AbortKeeps
<1>4. CASE UNCHANGED vars
  <2>1. unchangedPairing /\ unchangedConn /\ UNCHANGED <<lock, tx>>
    BY <1>4 DEF vars, unchangedPairing, unchangedConn
  <2>2. TableTypes' /\ DecidedInv' /\ GrantInv' /\ BoundIsActive' /\ Settled'
    BY <2>1 DEF ConnInd, ConnInv, TypeOK, TableTypes, DecidedInv, GrantInv, BoundIsActive,
                Current, Settled, unchangedPairing, unchangedConn
  <2>3. \A t \in Sessions : Frame(t)
    BY <2>1 DEF Frame, unchangedPairing, unchangedConn
  <2> QED BY <2>1, <2>2, <2>3, StatementKeeps
<1> QED BY <1>1, <1>2, <1>3, <1>4 DEF Next

\* In every reachable state the requests in flight hold the rows they rely on,
\* and the decisions, the grants and the bindings are what ConnInv says.
THEOREM ConnectionsInvariant == Spec => []ConnInd
<1> QED BY InitInd, StepInd, PTL DEF Spec

\* A binding names the one active connector of an active Agent and an active
\* connector is always the bound one, whatever number of decisions, revocations
\* and disablings run at once under their different locks.
THEOREM BindingNamesTheActiveConnector == Spec => []BoundIsActive
<1>1. ConnInd => BoundIsActive
  BY DEF ConnInd, ConnInv
<1> QED BY <1>1, ConnectionsInvariant, PTL

\* A token family never has two usable refresh tokens: neither two rotations of
\* one token, nor a rotation and a replayed grant, leave a second live row.
THEOREM FamilyHasOneUsableRefresh == Spec => []OneUsableRefresh
<1>1. ConnInd => OneUsableRefresh
  <2> SUFFICES ASSUME ConnInd, NEW p \in Pairings, NEW m \in Gens \ {0}, NEW n \in Gens \ {0},
                      cred[p][m] = "live", cred[p][n] = "live"
               PROVE  m = n
    BY DEF OneUsableRefresh
  <2>1. m \in Nat /\ n \in Nat
    BY ConnAssumption DEF Gens, ConnAssumption
  <2>2. ~ (m < n) /\ ~ (n < m)
    BY DEF ConnInd, ConnInv, GrantInv
  <2> QED BY <2>1, <2>2
<1> QED BY <1>1, ConnectionsInvariant, PTL

-----------------------------------------------------------------------------
(* Decisions.                                                              *)

Stands(p) ==
  /\ decided[p] # NoDecision => decided'[p] = decided[p] /\ agentOf'[p] = agentOf[p]
  /\ decided'[p] # NoDecision /\ decided[p] = NoDecision =>
       \A q \in Pairings \ {p} : decided'[q].key # decided'[p].key

\* A request that decides found the pairing undecided and its key unused.
LEMMA DecisionIsFirst ==
  ASSUME ConnInd, NEW s \in Sessions, NEW p \in Pairings, NEW d, NEW a,
         pairing[p] = "pending", UniqueKey(s), d.key = tx[s].key, d \in Decisions,
         decided' = [decided EXCEPT ![p] = d],
         agentOf' = agentOf \/ agentOf' = [agentOf EXCEPT ![p] = a]
  PROVE  \A r \in Pairings : Stands(r)
<1>1. decided[p] = NoDecision
  BY PendingIsBare
<1>2. /\ \A q \in Pairings : decided'[q] = IF q = p THEN d ELSE decided[q]
      /\ \A q \in Pairings \ {p} : agentOf'[q] = agentOf[q]
  BY DEF ConnInd, ConnInv, TypeOK
<1> QED BY <1>1, <1>2 DEF Stands, UniqueKey

LEMMA NothingDecided ==
  ASSUME UNCHANGED <<decided, agentOf>>
  PROVE  \A r \in Pairings : Stands(r)
BY DEF Stands

LEMMA CommitStands ==
  ASSUME ConnInd, NEW s \in Sessions, Commit(s)
  PROVE  \A r \in Pairings : Stands(r)
<1>1. CASE Deny(s)
  <2> DEFINE d == [verdict |-> "denied", key |-> tx[s].key]
  <2>1. tx[s].p \in Pairings /\ tx[s].key \in Keys /\ pairing[tx[s].p] = "pending"
    BY <1>1 DEF Deny, ConnInd, ConnInv, RequestInv, ReqInv
  <2>2. d \in Decisions /\ d.key = tx[s].key
    BY <2>1 DEF Decisions
  <2>3. UniqueKey(s) /\ decided' = [decided EXCEPT ![tx[s].p] = d] /\ agentOf' = agentOf
    BY <1>1 DEF Deny
  <2> HIDE DEF d
  <2> QED BY <2>1, <2>2, <2>3, DecisionIsFirst
<1>2. CASE ApproveNew(s) \/ ApproveExisting(s)
  <2> DEFINE d == [verdict |-> "approved", key |-> tx[s].key]
  <2>1. tx[s].p \in Pairings /\ tx[s].key \in Keys /\ pairing[tx[s].p] = "pending"
    BY <1>2 DEF ApproveNew, ApproveExisting, ConnInd, ConnInv, RequestInv, ReqInv
  <2>2. d \in Decisions /\ d.key = tx[s].key
    BY <2>1 DEF Decisions
  <2>3. /\ UniqueKey(s) /\ decided' = [decided EXCEPT ![tx[s].p] = d]
        /\ agentOf' = [agentOf EXCEPT ![tx[s].p] = tx[s].a]
    BY <1>2 DEF ApproveNew, ApproveExisting, RecordApproval
  <2> HIDE DEF d
  <2> QED BY <2>1, <2>2, <2>3, DecisionIsFirst
<1>3. CASE ~ (Deny(s) \/ ApproveNew(s) \/ ApproveExisting(s))
  <2>1. UNCHANGED <<decided, agentOf>>
    BY <1>3 DEF Commit, ExpireWrite, IssueCommit, DeviceCommit, ExchangeCommit, Rotate,
                RevokeFamily, RevokeConnector, DisableAgent, RecordHeartbeat,
                unchangedPairing
  <2> QED BY <2>1, NothingDecided
<1> QED BY <1>1, <1>2, <1>3

\* Whatever races it, the decision recorded first stands with the Agent it
\* chose, and one Idempotency-Key decides one pairing.
THEOREM FirstDecisionStands == Spec => DecisionStands
<1>1. ConnInd /\ [Next]_vars => [\A p \in Pairings : Stands(p)]_vars
  <2> SUFFICES ASSUME ConnInd, Next PROVE \A p \in Pairings : Stands(p)
    OBVIOUS
  <2>1. ASSUME NEW p \in Pairings,
               \/ CreatePairing(p) \/ CreateDeviceAuthorization(p)
               \/ StartAuthorizationCode(p) \/ CompleteAuthorization(p)
               \/ PassDeadline(p) \/ ExpireLocked(p)
        PROVE  UNCHANGED <<decided, agentOf>>
    BY <2>1 DEF CreatePairing, CreateDeviceAuthorization, StartAuthorizationCode,
                OpenPairing, CompleteAuthorization, PassDeadline, ExpireLocked
  <2>2. ASSUME NEW s \in Sessions, Request(s) \/ Abort(s)
        PROVE  UNCHANGED <<decided, agentOf>>
    BY <2>2 DEF Request, Abort, PreviewRead, IssueBegin, DeviceBegin, ExchangeBegin,
                RevokeBegin, HeartbeatBegin, DecideBegin, RefreshBegin, ChooseExisting,
                ChooseNew, DisableBegin, DecideBinding, RevokeBinding, DisableBinding,
                unchangedPairing
  <2> QED BY <2>1, <2>2, CommitStands, NothingDecided DEF Next
<1>2. [\A p \in Pairings : Stands(p)]_vars <=>
        [\A p \in Pairings :
           /\ decided[p] # NoDecision =>
                decided'[p] = decided[p] /\ agentOf'[p] = agentOf[p]
           /\ decided'[p] # NoDecision /\ decided[p] = NoDecision =>
                \A q \in Pairings \ {p} : decided'[q].key # decided'[p].key]_vars
  BY DEF Stands
<1> QED BY <1>1, <1>2, ConnectionsInvariant, PTL DEF Spec, DecisionStands

-----------------------------------------------------------------------------
(* The views of Orbit.                                                     *)

\* What the answer of a view rests on.
Answering(q) ==
  \/ q.op = "list"
  \/ q.op = "thread" /\ InThread(q, q.t) # {}
  \/ q.op = "file" /\ log[q.at].task /\ log[q.at].t \in q.was
  \/ q.op = "file" /\ ContentAllowed(q, q.at)

\* What a request took for the Human's access was held while it ran.
Witnessed(q) ==
  /\ q.op # "closed" => \A a \in Party : Holding(own, role)[a] \subseteq q.held[a]
  /\ \A a \in Party : RoleRead(q, a) \in q.held[a] \cup {"none"}

\* What a request read is still there when it answers or writes.
StillThere(q) ==
  /\ q.op = "closed" => q.step = ""
  /\ q.op \in Marks => q.step = "write"
  /\ q.op = "file" => q.at \in committed
  /\ q.op \in {"thread"} \cup Marks => q.t \in Threads
  /\ q.rows \subseteq committed
  /\ q.step = "answer" => Answering(q)
  /\ q.step = "write" => q.at \in q.rows

\* A task that had an answer when the request began still has one.
FloorStands(q) ==
  \A i \in Positions :
    /\ q.floor[i] \in {"handled"} \cup Results => i \in committed /\ Replies(i) # {}
    /\ q.floor[i] \in Results => \E j \in Replies(i) : log[j].kind \in Results

\* A reply goes between the two Agents of what it answers.
RepliesBetween ==
  \A j \in DOMAIN log :
    log[j].reply # 0 => log[j].reply \in DOMAIN log /\ Ends(log[j].reply) = Ends(j)

OrbitInd ==
  /\ OrbitTypeOK /\ RepliesBetween
  /\ \A a \in own : role[a] = "none"
  /\ \A w \in Tabs : Witnessed(tab[w]) /\ StillThere(tab[w]) /\ FloorStands(tab[w])

LEMMA StatusNames ==
  Results \cap {"nothing", "pending", "handled", "task", "message"} = {}
BY OrbitAssumption DEF OrbitAssumption

LEMMA PositionsOf ==
  ASSUME OrbitTypeOK
  PROVE  /\ DOMAIN log = 1 .. Len(log) /\ Len(log) \in Nat /\ MaxMessages \in Nat
         /\ DOMAIN log \subseteq Positions /\ committed \subseteq Positions
         /\ \A i \in DOMAIN log : log[i] \in Messages
BY OrbitAssumption DEF OrbitAssumption, OrbitTypeOK, Positions

LEMMA MinIsLeast ==
  ASSUME NEW S \in SUBSET Nat, S # {}
  PROVE  Min(S) \in S /\ \A n \in S : Min(S) <= n
<1> DEFINE R == OpToRel(<, Nat)
<1>1. IsWellFoundedOn(R, Nat)
  BY NatLessThanWellFounded
<1>2. \A m, n \in Nat : m < n => <<m, n>> \in R
  BY DEF OpToRel
<1> HIDE DEF R
<1>3. PICK m \in S : \A n \in S : ~ (<<n, m>> \in R)
  BY <1>1, WFMin
<1>4. \A n \in S : m <= n
  <2> SUFFICES ASSUME NEW n \in S PROVE m <= n
    OBVIOUS
  <2>1. ~ (n < m)
    BY <1>2, <1>3
  <2> QED BY <2>1
<1> QED BY <1>4 DEF Min

\* The least bound of a set of numbers is in it.
LEMMA MaxIsGreatest ==
  ASSUME NEW S \in SUBSET Nat, S # {}, NEW b \in Nat, \A n \in S : n <= b
  PROVE  Max(S) \in S /\ \A n \in S : n <= Max(S)
<1> DEFINE bounds == {m \in Nat : \A n \in S : n <= m}
           m == Min(bounds)
<1>1. bounds # {} /\ bounds \in SUBSET Nat
  OBVIOUS
<1>2. m \in bounds /\ \A k \in bounds : m <= k
  <2> HIDE DEF bounds
  <2> QED BY <1>1, MinIsLeast
<1> HIDE DEF m
<1>3. m \in S
  <2> SUFFICES ASSUME m \notin S PROVE FALSE
    OBVIOUS
  <2>1. PICK n \in S : TRUE
    OBVIOUS
  <2>2. m \in Nat /\ n <= m /\ n # m /\ n \in Nat
    BY <1>2, <2>1
  <2>3. m - 1 \in bounds
    BY <1>2, <2>2
  <2> QED BY <1>2, <2>2, <2>3
<1> QED BY <1>2, <1>3 DEF Max

LEMMA LatestIn ==
  ASSUME NEW S \in SUBSET (Positions \cup {0}), S # {}
  PROVE  Max(S) \in S /\ \A n \in S : n <= Max(S)
<1>1. MaxMessages \in Nat
  BY OrbitAssumption DEF OrbitAssumption
<1>2. S \in SUBSET Nat /\ \A n \in S : n <= MaxMessages
  BY <1>1 DEF Positions
<1> QED BY <1>1, <1>2, MaxIsGreatest

\* The answer of a task: the last result, else the last reply, else nothing.
LEMMA ResponseIs ==
  ASSUME OrbitTypeOK, NEW i
  PROVE  /\ Response(i) \in Replies(i) \cup {0}
         /\ (\E j \in Replies(i) : log[j].kind \in Results) => log[Response(i)].kind \in Results
         /\ Replies(i) # {} => Response(i) # 0
<1> DEFINE results == {j \in Replies(i) : log[j].kind \in Results}
           all == Replies(i) \cup {0}
<1>1. Replies(i) \subseteq Positions /\ 0 \notin Positions
  BY PositionsOf DEF Replies, Positions
<1>2. CASE results # {}
  <2>1. Max(results) \in results
    <3>1. results \in SUBSET (Positions \cup {0})
      BY <1>1
    <3> HIDE DEF results
    <3> QED BY <1>2, <3>1, LatestIn
  <2>2. Response(i) = Max(results)
    BY <1>2 DEF Response
  <2> QED BY <1>1, <2>1, <2>2
<1>3. CASE results = {}
  <2>1. Max(all) \in all /\ \A n \in all : n <= Max(all)
    <3>1. all \in SUBSET (Positions \cup {0}) /\ all # {}
      BY <1>1
    <3> HIDE DEF all
    <3> QED BY <3>1, LatestIn
  <2>2. Response(i) = Max(all)
    BY <1>3 DEF Response, LastReply
  <2>3. Replies(i) # {} => Max(all) # 0
    <3> SUFFICES ASSUME NEW j \in Replies(i) PROVE Max(all) # 0
      OBVIOUS
    <3>1. j \in 1 .. MaxMessages /\ j <= Max(all)
      BY <1>1, <2>1 DEF Positions
    <3> HIDE DEF all
    <3> QED BY <3>1
  <2> QED BY <1>3, <2>1, <2>2, <2>3
<1> QED BY <1>2, <1>3

\* Rows that are added leave what a request read as it was.
LEMMA StandsWhenRowsAreAdded ==
  ASSUME OrbitTypeOK, committed \subseteq committed',
         \A i \in DOMAIN log : log'[i] = log[i],
         NEW q \in Lookups, StillThere(q), FloorStands(q)
  PROVE  StillThere(q)' /\ FloorStands(q)'
<1>1. \A i \in committed : i \in DOMAIN log /\ log'[i] = log[i] /\ Ends(i)' = Ends(i)
  BY DEF OrbitTypeOK, Ends
<1>2. \A i \in committed : Replies(i) \subseteq Replies(i)'
  BY <1>1 DEF Replies
<1>3. Answering(q) => Answering(q)' \/ q.step # "answer"
  BY <1>1 DEF Answering, InThread, ContentAllowed, RoleRead, StillThere
<1>4. StillThere(q)'
  BY <1>3 DEF StillThere
<1>5. FloorStands(q)'
  <2>1. ASSUME NEW i \in Positions, q.floor[i] \in {"handled"} \cup Results
        PROVE  i \in committed' /\ Replies(i)' # {}
    BY <1>2, <2>1 DEF FloorStands
  <2>2. ASSUME NEW i \in Positions, q.floor[i] \in Results
        PROVE  \E j \in Replies(i)' : log'[j].kind \in Results
    <3>1. i \in committed /\ \E j \in Replies(i) : log[j].kind \in Results
      BY <2>2 DEF FloorStands
    <3>2. PICK j \in Replies(i) : log[j].kind \in Results
      BY <3>1
    <3>3. j \in Replies(i)' /\ log'[j] = log[j]
      BY <1>1, <1>2, <3>1, <3>2 DEF Replies
    <3> QED BY <3>2, <3>3
  <2> QED BY <2>1, <2>2 DEF FloorStands
<1> QED BY <1>4, <1>5

LEMMA InFlightIs ==
  ASSUME NEW w, NEW q, tab'[w] = q, Witnessed(q)', StillThere(q)', FloorStands(q)'
  PROVE  Witnessed(tab[w])' /\ StillThere(tab[w])' /\ FloorStands(tab[w])'
<1>1. Witnessed(tab[w])'
  BY DEF Witnessed, RoleRead
<1>2. StillThere(tab[w])'
  BY DEF StillThere, Answering, InThread, ContentAllowed, RoleRead
<1>3. FloorStands(tab[w])'
  BY DEF FloorStands
<1> QED BY <1>1, <1>2, <1>3

\* Steps that touch no request and no access.
LEMMA RowsKeep ==
  ASSUME OrbitInd, UNCHANGED <<own, role, tab>>,
         committed \subseteq committed', \A i \in DOMAIN log : log'[i] = log[i],
         OrbitTypeOK', RepliesBetween'
  PROVE  OrbitInd'
<1>1. ASSUME NEW w \in Tabs
      PROVE  Witnessed(tab[w])' /\ StillThere(tab[w])' /\ FloorStands(tab[w])'
  <2>1. PICK q \in Lookups : q = tab[w]
    BY DEF OrbitInd, OrbitTypeOK
  <2>2. Witnessed(q) /\ StillThere(q) /\ FloorStands(q)
    BY <2>1 DEF OrbitInd
  <2>3. StillThere(q)' /\ FloorStands(q)'
    BY <2>2, StandsWhenRowsAreAdded DEF OrbitInd
  <2>4. Witnessed(q)'
    BY <2>2 DEF Witnessed, Holding, RoleRead
  <2>5. tab'[w] = q
    BY <2>1
  <2> QED BY <2>3, <2>4, <2>5, InFlightIs
<1> QED BY <1>1 DEF OrbitInd

\* Steps of one request that leave the messages and the access alone.
LEMMA TabKeeps ==
  ASSUME OrbitInd, UNCHANGED <<log, committed, own, role, member>>,
         NEW w \in Tabs, NEW q \in Lookups, tab' = [tab EXCEPT ![w] = q],
         Witnessed(q), StillThere(q), FloorStands(q),
         viewed' \in [Threads -> Positions \cup {0}], archived' \subseteq Threads,
         turns' \in Nat
  PROVE  OrbitInd'
<1>1. tab' \in [Tabs -> Lookups] /\ tab'[w] = q /\ \A v \in Tabs \ {w} : tab'[v] = tab[v]
  BY DEF OrbitInd, OrbitTypeOK
<1>2. OrbitTypeOK' /\ RepliesBetween'
  BY <1>1 DEF OrbitInd, OrbitTypeOK, RepliesBetween, Ends
<1>3. ASSUME NEW v \in Tabs
      PROVE  Witnessed(tab[v])' /\ StillThere(tab[v])' /\ FloorStands(tab[v])'
  <2>1. PICK r \in Lookups : r = tab'[v]
    BY <1>1
  <2>2. Witnessed(r) /\ StillThere(r) /\ FloorStands(r)
    BY <1>1, <2>1 DEF OrbitInd
  <2>3. StillThere(r)' /\ FloorStands(r)'
    BY <2>2, StandsWhenRowsAreAdded DEF OrbitInd
  <2>4. Witnessed(r)'
    BY <2>2 DEF Witnessed, Holding, RoleRead
  <2> QED BY <2>1, <2>3, <2>4, InFlightIs
<1> QED BY <1>2, <1>3 DEF OrbitInd

LEMMA RememberKeeps ==
  ASSUME OrbitInd, UNCHANGED <<log, committed, viewed, archived>>, turns' \in Nat,
         Remember(own', role', member'),
         own' \subseteq Party, role' \in [Party -> Roles], member' \subseteq TaskThreads,
         \A a \in own' : role'[a] = "none"
  PROVE  OrbitInd'
<1>1. PICK H : H = Holding(own', role')
  OBVIOUS
<1>2. PICK M : M = member'
  OBVIOUS
<1> DEFINE new(q) == [q EXCEPT !.held = [a \in Party |-> @[a] \cup H[a]], !.was = @ \cup M]
<1>3. \A w \in Tabs : tab'[w] = IF tab[w].op = "closed" THEN tab[w] ELSE new(tab[w])
  BY <1>1, <1>2 DEF Remember, OrbitInd, OrbitTypeOK
<1>4. /\ H \in [Party -> SUBSET (Roles \cup {"owner"})] /\ M \subseteq TaskThreads
      /\ H = Holding(own, role)'
  BY <1>1, <1>2 DEF Holding
<1>5. ASSUME NEW q \in Lookups
      PROVE  /\ new(q) \in Lookups
             /\ new(q).op = q.op /\ new(q).t = q.t /\ new(q).at = q.at /\ new(q).step = q.step
             /\ new(q).own = q.own /\ new(q).role = q.role /\ new(q).rows = q.rows
             /\ new(q).floor = q.floor /\ q.was \subseteq new(q).was
             /\ \A a \in Party : new(q).held[a] = q.held[a] \cup H[a]
  BY <1>4 DEF Lookups
<1> HIDE DEF new
<1>6. tab' \in [Tabs -> Lookups]
  <2>1. tab \in [Tabs -> Lookups]
    BY DEF OrbitInd, OrbitTypeOK
  <2>2. \A w \in Tabs : tab'[w] \in Lookups
    BY <1>3, <1>5, <2>1
  <2>3. tab' = [w \in Tabs |-> tab'[w]]
    BY DEF Remember, OrbitInd, OrbitTypeOK
  <2> QED BY <2>2, <2>3
<1>7. OrbitTypeOK' /\ RepliesBetween'
  BY <1>6 DEF OrbitInd, OrbitTypeOK, RepliesBetween, Ends
<1>8. ASSUME NEW w \in Tabs
      PROVE  Witnessed(tab[w])' /\ StillThere(tab[w])' /\ FloorStands(tab[w])'
  <2>1. PICK q \in Lookups : q = tab[w]
    BY DEF OrbitInd, OrbitTypeOK
  <2>2. PICK n \in Lookups : n = tab'[w]
    BY <1>6
  <2>3. Witnessed(q) /\ StillThere(q) /\ FloorStands(q)
    BY <2>1 DEF OrbitInd
  <2>4. StillThere(n) /\ FloorStands(n) /\ Witnessed(n)'
    <3>1. CASE q.op = "closed"
      <4>1. n = q
        BY <1>3, <2>1, <2>2, <3>1
      <4>2. Witnessed(n)'
        BY <2>3, <3>1, <4>1 DEF Witnessed, RoleRead
      <4> QED BY <2>3, <4>1, <4>2
    <3>2. CASE q.op # "closed"
      <4>1. n = new(q)
        BY <1>3, <2>1, <2>2, <3>2
      <4>2. /\ n.op = q.op /\ n.t = q.t /\ n.at = q.at /\ n.step = q.step
            /\ n.own = q.own /\ n.role = q.role /\ n.rows = q.rows
            /\ n.floor = q.floor /\ q.was \subseteq n.was
            /\ \A a \in Party : n.held[a] = q.held[a] \cup H[a]
        BY <1>5, <4>1
      <4>3. StillThere(n) /\ FloorStands(n)
        BY <2>3, <4>2 DEF StillThere, Answering, FloorStands, InThread, ContentAllowed, RoleRead
      <4>4. \A a \in Party : Holding(own, role)'[a] \subseteq n.held[a]
        BY <1>4, <4>2
      <4>5. \A a \in Party : RoleRead(n, a) \in n.held[a] \cup {"none"}
        BY <2>3, <4>2 DEF Witnessed, RoleRead
      <4>6. Witnessed(n)'
        BY <4>4, <4>5 DEF Witnessed, RoleRead
      <4> QED BY <4>3, <4>6
    <3> QED BY <3>1, <3>2
  <2>5. StillThere(n)' /\ FloorStands(n)'
    BY <2>4, StandsWhenRowsAreAdded DEF OrbitInd
  <2> QED BY <2>2, <2>4, <2>5, InFlightIs
<1> QED BY <1>7, <1>8 DEF OrbitInd

LEMMA AccessKeeps ==
  ASSUME OrbitInd,
         \/ \E a \in Party, r \in ViewRoles \cup {"owner", "none"} : ChangeAccess(a, r)
         \/ \E t \in TaskThreads : ChangeMembership(t)
  PROVE  OrbitInd'
<1>1. /\ own \subseteq Party /\ role \in [Party -> Roles] /\ member \subseteq TaskThreads
      /\ turns \in Nat /\ \A a \in own : role[a] = "none"
  BY DEF OrbitInd, OrbitTypeOK
<1>2. CASE \E a \in Party, r \in ViewRoles \cup {"owner", "none"} : ChangeAccess(a, r)
  <2>1. PICK a \in Party, r \in ViewRoles \cup {"owner", "none"} : ChangeAccess(a, r)
    BY <1>2
  <2>2. own' = IF r = "owner" THEN own \cup {a} ELSE own \ {a}
    BY <2>1 DEF ChangeAccess
  <2>3. role' = [role EXCEPT ![a] = IF r = "owner" THEN "none" ELSE r]
    BY <2>1 DEF ChangeAccess
  <2>4. role' \in [Party -> Roles] /\ own' \subseteq Party
    BY <1>1, <2>2, <2>3 DEF Roles
  <2>5. \A b \in own' : role'[b] = "none"
    BY <1>1, <2>2, <2>3
  <2>6. /\ turns' \in Nat /\ member' = member /\ UNCHANGED <<log, committed, viewed, archived>>
        /\ Remember(own', role', member')
    <3>1. turns' \in Nat /\ member' = member /\ UNCHANGED <<log, committed, viewed, archived>>
      BY <1>1, <2>1 DEF ChangeAccess, humanRows
    <3>2. Remember(own', role', member)
      BY <2>1 DEF ChangeAccess
    <3> QED BY <3>1, <3>2 DEF Remember
  <2> QED BY <1>1, <2>4, <2>5, <2>6, RememberKeeps
<1>3. CASE \E t \in TaskThreads : ChangeMembership(t)
  <2>1. /\ member' \subseteq TaskThreads /\ own' = own /\ role' = role /\ turns' \in Nat
        /\ UNCHANGED <<log, committed, viewed, archived>> /\ Remember(own', role', member')
    <3>1. PICK t \in TaskThreads : ChangeMembership(t)
      BY <1>3
    <3>2. /\ own' = own /\ role' = role /\ turns' = turns + 1
          /\ UNCHANGED <<log, committed, viewed, archived>>
          /\ member' = IF t \in member THEN member \ {t} ELSE member \cup {t}
      BY <3>1 DEF ChangeMembership, humanRows
    <3>3. Remember(own, role, member')
      BY <3>1 DEF ChangeMembership
    <3>4. Remember(own', role', member')
      BY <3>2, <3>3 DEF Remember
    <3>5. member' \subseteq TaskThreads /\ turns' \in Nat
      BY <1>1, <3>2
    <3> QED BY <3>2, <3>4, <3>5
  <2> QED BY <1>1, <2>1, RememberKeeps
<1> QED BY <1>2, <1>3

LEMMA WriteKeeps ==
  ASSUME OrbitInd, NEW a \in Party, NEW b \in Party, NEW t \in Threads, NEW kind \in Kinds,
         NEW reply \in Positions \cup {0}, NEW task \in BOOLEAN,
         Write(a, b, t, kind, reply, task),
         reply # 0 => reply \in DOMAIN log /\ Ends(reply) = {a, b}
  PROVE  OrbitInd'
<1> DEFINE m == Message(a, b, t, kind, reply, task)
<1>1. /\ log' = Append(log, m) /\ Len(log) < MaxMessages /\ turns' = turns + 1
      /\ UNCHANGED <<committed, own, role, member, viewed, archived, tab>>
  BY DEF Write, humanRows
<1>2. m \in Messages /\ m.reply = reply /\ m.from = a /\ m.to = b
  BY DEF Message, Messages
<1> HIDE DEF m
<1>3. /\ log \in Seq(Messages) /\ Len(log) \in Nat /\ DOMAIN log = 1 .. Len(log)
      /\ committed \subseteq DOMAIN log /\ MaxMessages \in Nat
  BY PositionsOf DEF OrbitInd, OrbitTypeOK
<1>4. /\ log' \in Seq(Messages) /\ Len(log') = Len(log) + 1
      /\ DOMAIN log' = 1 .. (Len(log) + 1) /\ log'[Len(log) + 1] = m
      /\ \A i \in DOMAIN log : log'[i] = log[i]
  BY <1>1, <1>2, <1>3
<1>5. OrbitTypeOK'
  BY <1>1, <1>3, <1>4 DEF OrbitInd, OrbitTypeOK
<1>6. RepliesBetween'
  <2>1. ASSUME NEW j \in DOMAIN log', log'[j].reply # 0
        PROVE  log'[j].reply \in DOMAIN log' /\ Ends(log[j].reply)' = Ends(j)'
    <3>1. CASE j \in DOMAIN log
      <4>1. PICK k : k = log[j].reply
        OBVIOUS
      <4>2. log'[j] = log[j] /\ k # 0
        BY <1>4, <2>1, <3>1, <4>1
      <4>3. k \in DOMAIN log /\ Ends(k) = Ends(j)
        BY <3>1, <4>1, <4>2 DEF OrbitInd, RepliesBetween
      <4>4. log'[k] = log[k] /\ k \in DOMAIN log'
        BY <1>3, <1>4, <4>3
      <4> QED BY <4>1, <4>2, <4>3, <4>4 DEF Ends
    <3>2. CASE j = Len(log) + 1
      <4>1. reply # 0 /\ reply \in DOMAIN log /\ Ends(reply) = {a, b} /\ log'[j] = m
        BY <1>2, <1>4, <2>1, <3>2
      <4> QED BY <1>2, <1>3, <1>4, <4>1 DEF Ends
    <3> QED BY <1>3, <1>4, <3>1, <3>2
  <2> QED BY <2>1 DEF RepliesBetween
<1> QED BY <1>1, <1>4, <1>5, <1>6, RowsKeep

LEMMA MessagesKeep ==
  ASSUME OrbitInd, NEW a \in Party, NEW b \in Party,
         \/ \E kind \in {"message", "task"} : OpenThread(a, b, kind)
         \/ \E t \in TaskThreads : Bridge(a, b, t)
         \/ \E i \in Positions, kind \in {"message"} \cup Results : ReplyTo(a, i, kind)
  PROVE  OrbitInd'
<1>1. TaskThreads \subseteq Threads
  BY OrbitAssumption DEF OrbitAssumption
<1>2. CASE \E kind \in {"message", "task"} : OpenThread(a, b, kind)
  BY <1>2, WriteKeeps DEF OpenThread, Kinds
<1>3. CASE \E t \in TaskThreads : Bridge(a, b, t)
  BY <1>1, <1>3, WriteKeeps DEF Bridge, Kinds
<1>4. CASE \E i \in Positions, kind \in {"message"} \cup Results : ReplyTo(a, i, kind)
  <2>1. PICK i \in Positions, kind \in {"message"} \cup Results : ReplyTo(a, i, kind)
    BY <1>4
  <2>2. i \in DOMAIN log /\ a \in Ends(i) /\ log[i] \in Messages
    BY <2>1, PositionsOf DEF ReplyTo, VisibleTo, OrbitInd, OrbitTypeOK
  <2>3. PICK c \in Ends(i) \ {a} : Write(a, c, log[i].t, kind, i, FALSE)
    BY <2>1 DEF ReplyTo
  <2>4. c \in Party /\ log[i].t \in Threads /\ Ends(i) = {a, c}
    BY <2>2, <2>3 DEF Ends, Messages
  <2> QED BY <2>2, <2>3, <2>4, WriteKeeps DEF Kinds
<1> QED BY <1>2, <1>3, <1>4

LEMMA AppearKeeps ==
  ASSUME OrbitInd, NEW i \in Positions, Appear(i)
  PROVE  OrbitInd'
<1>1. /\ committed' = committed \cup {i} /\ i \in DOMAIN log
      /\ UNCHANGED <<log, own, role, member, turns, viewed, archived, tab>>
  BY DEF Appear, accessRows, humanRows
<1>2. OrbitTypeOK' /\ RepliesBetween'
  BY <1>1 DEF OrbitInd, OrbitTypeOK, RepliesBetween, Ends
<1> QED BY <1>1, <1>2, RowsKeep

LEMMA ClosedIsIdle ==
  /\ Closed \in Lookups /\ Closed.op = "closed" /\ Closed.step = ""
  /\ Witnessed(Closed) /\ StillThere(Closed) /\ FloorStands(Closed)
<1>1. Closed \in Lookups
  BY DEF Closed, Lookups, Roles, Positions
<1>2. /\ Closed.op = "closed" /\ Closed.step = "" /\ Closed.rows = {}
      /\ \A a \in Party : RoleRead(Closed, a) = "none"
      /\ \A i \in Positions : Closed.floor[i] = "nothing"
  BY DEF Closed, RoleRead
<1>3. FloorStands(Closed)
  BY <1>2, StatusNames DEF FloorStands
<1>4. Witnessed(Closed) /\ StillThere(Closed)
  BY <1>2 DEF Witnessed, StillThere, Marks
<1> QED BY <1>1, <1>2, <1>3, <1>4

\* The rest of the state when a request only reads.
LEMMA TablesTyped ==
  ASSUME OrbitTypeOK
  PROVE  /\ viewed \in [Threads -> Positions \cup {0}] /\ archived \subseteq Threads
         /\ turns \in Nat /\ tab \in [Tabs -> Lookups]
BY DEF OrbitTypeOK

\* What a task's state says of its replies when a request notes it.
LEMMA StatesStand ==
  ASSUME OrbitTypeOK
  PROVE  /\ States \in [Positions -> {"nothing", "pending", "handled"} \cup Results]
         /\ \A i \in Positions :
              /\ States[i] \in {"handled"} \cup Results => i \in committed /\ Replies(i) # {}
              /\ States[i] \in Results => \E j \in Replies(i) : log[j].kind \in Results
<1>1. ASSUME NEW i \in Positions
      PROVE  /\ WorkStateFor(i) \in {"pending", "handled"} \cup Results
             /\ WorkStateFor(i) # "pending" => Response(i) \in Replies(i)
             /\ WorkStateFor(i) \in Results => log[Response(i)].kind \in Results
  BY ResponseIs, StatusNames DEF WorkStateFor
<1>2. States \in [Positions -> {"nothing", "pending", "handled"} \cup Results]
  BY <1>1 DEF States
<1>3. ASSUME NEW i \in Positions, States[i] \in {"handled"} \cup Results
      PROVE  i \in committed /\ States[i] = WorkStateFor(i) /\ States[i] # "pending"
  BY <1>3, StatusNames DEF States
<1>4. ASSUME NEW i \in Positions, States[i] \in {"handled"} \cup Results
      PROVE  i \in committed /\ Replies(i) # {}
  BY <1>1, <1>3, <1>4
<1>5. ASSUME NEW i \in Positions, States[i] \in Results
      PROVE  \E j \in Replies(i) : log[j].kind \in Results
  BY <1>1, <1>3, <1>5
<1> QED BY <1>2, <1>4, <1>5

LEMMA AskKeeps ==
  ASSUME OrbitInd, NEW w \in Tabs, NEW op \in {"list", "thread", "file"},
         NEW t \in Threads \cup {NoThread}, NEW at \in Positions \cup {0},
         NEW step \in {"grants", "answer"}, Ask(w, op, t, at, step),
         op = "thread" => t \in Threads,
         op = "file" => at \in committed,
         step = "answer" => op = "file" /\ log[at].task /\ log[at].t \in member
  PROVE  OrbitInd'
<1>1. PICK F, H, M : F = States /\ H = Holding(own, role) /\ M = member
  OBVIOUS
<1>2. PICK o : o = own
  OBVIOUS
<1> DEFINE q == [Closed EXCEPT !.op = op, !.t = t, !.at = at, !.step = step, !.own = o,
                               !.floor = F, !.held = H, !.was = M]
<1>3. tab' = [tab EXCEPT ![w] = q] /\ UNCHANGED <<log, committed, own, role, member>>
      /\ UNCHANGED <<viewed, archived, turns>>
  BY <1>1, <1>2 DEF Ask, accessRows, humanRows
<1>4. OrbitTypeOK
  BY DEF OrbitInd
<1>5. /\ F \in [Positions -> {"nothing", "pending", "handled"} \cup Results]
      /\ H \in [Party -> SUBSET (Roles \cup {"owner"})] /\ o \subseteq Party
      /\ M \subseteq TaskThreads
  BY <1>1, <1>2, <1>4, StatesStand DEF Holding, OrbitTypeOK
<1>6. /\ q \in Lookups
      /\ q.op = op /\ q.t = t /\ q.at = at /\ q.step = step /\ q.own = o /\ q.floor = F
      /\ q.held = H /\ q.was = M /\ q.rows = {}
      /\ \A a \in Party : q.role[a] = "none"
  BY ZenonT(60), <1>5, ClosedIsIdle DEF Closed, Lookups
<1> HIDE DEF q
<1>7. FloorStands(q)
  BY <1>1, <1>4, <1>6, StatesStand DEF FloorStands
<1>8. Witnessed(q)
  BY <1>1, <1>2, <1>6 DEF Witnessed, RoleRead, Holding
<1>9. StillThere(q)
  BY <1>1, <1>6 DEF StillThere, Answering, Marks
<1> QED BY <1>3, <1>4, <1>6, <1>7, <1>8, <1>9, TablesTyped, TabKeeps

LEMMA AsksKeep ==
  ASSUME OrbitInd, NEW w \in Tabs, AskView(w) \/ AskFile(w)
  PROVE  OrbitInd'
<1>1. CASE Ask(w, "list", NoThread, 0, "grants")
  BY <1>1, AskKeeps
<1>2. ASSUME NEW t \in Threads, Ask(w, "thread", t, 0, "grants") PROVE OrbitInd'
  BY <1>2, AskKeeps
<1>3. CASE AskFile(w)
  <2>1. PICK i \in committed :
          /\ log[i].task => log[i].t \in member
          /\ Ask(w, "file", log[i].t, i, IF log[i].task THEN "answer" ELSE "grants")
    BY <1>3 DEF AskFile
  <2>2. i \in Positions /\ log[i] \in Messages /\ log[i].t \in Threads
    BY <2>1, PositionsOf DEF OrbitInd, OrbitTypeOK, Messages
  <2>3. CASE log[i].task
    <3>1. Ask(w, "file", log[i].t, i, "answer")
      BY <2>1, <2>3
    <3> QED BY <2>1, <2>2, <2>3, <3>1, AskKeeps
  <2>4. CASE ~ log[i].task
    <3>1. Ask(w, "file", log[i].t, i, "grants")
      BY <2>1, <2>4
    <3> QED BY <2>1, <2>2, <3>1, AskKeeps
  <2> QED BY <2>3, <2>4
<1> QED BY <1>1, <1>2, <1>3 DEF AskView

\* A request that ends, whatever it wrote of the Human's own rows.
LEMMA CloseKeeps ==
  ASSUME OrbitInd, NEW w \in Tabs, tab' = [tab EXCEPT ![w] = Closed],
         UNCHANGED <<log, committed, own, role, member>>,
         viewed' \in [Threads -> Positions \cup {0}], archived' \subseteq Threads,
         turns' \in Nat
  PROVE  OrbitInd'
<1>1. PICK q \in Lookups : q = Closed
  BY ClosedIsIdle
<1>2. Witnessed(q) /\ StillThere(q) /\ FloorStands(q)
  BY <1>1, ClosedIsIdle
<1> QED BY <1>1, <1>2, TabKeeps

LEMMA WritesKeep ==
  ASSUME OrbitInd, NEW w \in Tabs,
         Answered(w) \/ MarkViewed(w) \/ Archive(w) \/ Restore(w)
  PROVE  OrbitInd'
<1>1. /\ tab' = [tab EXCEPT ![w] = Closed] /\ turns' \in Nat
      /\ UNCHANGED <<log, committed, own, role, member>>
  BY TablesTyped
     DEF Answered, MarkViewed, Archive, Restore, Finished, accessRows, OrbitInd
<1>2. /\ tab[w] \in Lookups /\ StillThere(tab[w]) /\ committed \subseteq Positions
  BY TablesTyped, PositionsOf DEF OrbitInd
<1>3. tab[w].step = "write" => tab[w].at \in Positions
  BY <1>2 DEF StillThere
<1>4. tab[w].op \in Marks => tab[w].t \in Threads
  BY <1>2 DEF StillThere
<1>5. viewed' \in [Threads -> Positions \cup {0}]
  BY <1>3, TablesTyped DEF Answered, MarkViewed, Archive, Restore, humanRows, OrbitInd
<1>6. archived' \subseteq Threads
  BY <1>4, TablesTyped DEF Answered, MarkViewed, Archive, Restore, humanRows, OrbitInd, Marks
<1> QED BY <1>1, <1>5, <1>6, CloseKeeps

\* What a request in flight has kept.
LEMMA InFlightFacts ==
  ASSUME OrbitInd, NEW w \in Tabs
  PROVE  /\ OrbitTypeOK /\ tab[w] \in Lookups
         /\ Witnessed(tab[w]) /\ StillThere(tab[w]) /\ FloorStands(tab[w])
BY DEF OrbitInd, OrbitTypeOK

LEMMA ReadGrantsKeeps ==
  ASSUME OrbitInd, NEW w \in Tabs, ReadGrants(w)
  PROVE  OrbitInd'
<1>1. PICK q \in Lookups : q = tab[w]
  BY InFlightFacts
<1>2. PICK r : r = role
  OBVIOUS
<1> DEFINE n == [q EXCEPT !.role = r, !.step = "rows"]
<1>3. /\ q.step = "grants" /\ tab' = [tab EXCEPT ![w] = n]
      /\ UNCHANGED <<log, committed, own, role, member, viewed, archived, turns>>
  BY <1>1, <1>2 DEF ReadGrants, Read, accessRows, humanRows
<1>4. role \in [Party -> Roles]
  BY DEF OrbitInd, OrbitTypeOK
<1>5. /\ n \in Lookups
      /\ n.op = q.op /\ n.t = q.t /\ n.at = q.at /\ n.step = "rows" /\ n.own = q.own
      /\ n.role = r /\ n.floor = q.floor /\ n.held = q.held /\ n.was = q.was
      /\ n.rows = q.rows
  BY <1>2, <1>4 DEF Lookups
<1> HIDE DEF n
<1>6. Witnessed(q) /\ StillThere(q) /\ FloorStands(q)
  BY <1>1, InFlightFacts
<1>7. q.op # "closed"
  BY <1>3, <1>6 DEF StillThere
<1>8. Witnessed(n)
  <2>1. \A a \in Party : Holding(own, role)[a] \subseteq q.held[a]
    BY <1>6, <1>7 DEF Witnessed
  <2>2. ASSUME NEW a \in Party PROVE RoleRead(n, a) \in q.held[a] \cup {"none"}
    <3>1. CASE a \in q.own
      BY <1>5, <1>6, <3>1 DEF Witnessed, RoleRead
    <3>2. CASE a \notin q.own
      <4>1. RoleRead(n, a) = role[a]
        BY <1>2, <1>5, <3>2 DEF RoleRead
      <4>2. a \in own => role[a] = "none"
        BY DEF OrbitInd
      <4>3. a \notin own => role[a] \in q.held[a]
        BY <2>1 DEF Holding
      <4> QED BY <4>1, <4>2, <4>3
    <3> QED BY <3>1, <3>2
  <2> QED BY <1>5, <2>1, <2>2 DEF Witnessed
<1>9. StillThere(n) /\ FloorStands(n)
  BY <1>3, <1>5, <1>6 DEF StillThere, FloorStands, Marks
<1> QED BY <1>3, <1>5, <1>8, <1>9, InFlightFacts, TablesTyped, TabKeeps

LEMMA ReadRowsKeeps ==
  ASSUME OrbitInd, NEW w \in Tabs, ReadRows(w)
  PROVE  OrbitInd'
<1>1. PICK q \in Lookups : q = tab[w]
  BY InFlightFacts
<1>2. PICK F : F = Found(q)
  OBVIOUS
<1> DEFINE n == [q EXCEPT !.rows = F, !.step = "answer"]
<1>3. /\ q.step = "rows"
      /\ UNCHANGED <<log, committed, own, role, member, viewed, archived, turns>>
  BY <1>1 DEF ReadRows, Read, Refuse, accessRows, humanRows
<1>4. \/ tab' = [tab EXCEPT ![w] = Closed]
      \/ /\ tab' = [tab EXCEPT ![w] = n]
         /\ q.t # NoThread => F # {}
         /\ q.op = "file" => ContentAllowed(q, q.at)
  BY <1>1, <1>2 DEF ReadRows, Read, Refuse
<1>5. Witnessed(q) /\ StillThere(q) /\ FloorStands(q)
  BY <1>1, InFlightFacts
<1>6. F \subseteq committed /\ committed \subseteq Positions
  BY <1>2, PositionsOf DEF Found, OrbitInd
<1>7. q.op \in {"list", "thread", "file"}
  BY <1>3, <1>5 DEF StillThere, Lookups
<1>8. /\ n \in Lookups
      /\ n.op = q.op /\ n.t = q.t /\ n.at = q.at /\ n.step = "answer" /\ n.own = q.own
      /\ n.role = q.role /\ n.floor = q.floor /\ n.held = q.held /\ n.was = q.was
      /\ n.rows = F
  BY <1>6 DEF Lookups
<1> HIDE DEF n
<1>9. CASE tab' = [tab EXCEPT ![w] = n] /\ (q.t # NoThread => F # {})
             /\ (q.op = "file" => ContentAllowed(q, q.at))
  <2>1. Witnessed(n) /\ FloorStands(n)
    BY <1>5, <1>8 DEF Witnessed, RoleRead, FloorStands
  <2>2. q.op = "thread" => q.t \in Threads /\ q.t # NoThread
    BY <1>5, OrbitAssumption DEF OrbitAssumption, StillThere
  <2>3. q.op = "thread" => InThread(n, n.t) # {}
    BY <1>2, <1>8, <1>9, <2>2 DEF Found, InThread
  <2>4. q.op = "file" => ContentAllowed(n, n.at)
    BY <1>8, <1>9 DEF ContentAllowed, RoleRead
  <2>5. Answering(n)
    BY <1>7, <1>8, <2>3, <2>4 DEF Answering
  <2>6. StillThere(n)
    BY <1>5, <1>6, <1>7, <1>8, <2>5 DEF StillThere, Marks
  <2> QED BY <1>3, <1>8, <1>9, <2>1, <2>6, InFlightFacts, TablesTyped, TabKeeps
<1>10. CASE tab' = [tab EXCEPT ![w] = Closed]
  BY <1>3, <1>10, InFlightFacts, TablesTyped, CloseKeeps
<1> QED BY <1>4, <1>9, <1>10

LEMMA ReadOwnRowKeeps ==
  ASSUME OrbitInd, NEW w \in Tabs, NEW mark \in Marks, ReadOwnRow(w, mark)
  PROVE  OrbitInd'
<1>1. PICK q \in Lookups : q = tab[w]
  BY InFlightFacts
<1> DEFINE found == IF mark = "view" THEN viewed[q.t] # 0 ELSE q.t \in archived
<1>2. PICK there \in BOOLEAN : there = found
  <2>1. CASE mark = "view"
    <3>1. found = (viewed[q.t] # 0)
      BY <2>1
    <3>2. (viewed[q.t] # 0) \in BOOLEAN
      OBVIOUS
    <3> HIDE DEF found
    <3> QED BY <3>1, <3>2
  <2>2. CASE mark # "view"
    <3>1. found = (q.t \in archived)
      BY <2>2
    <3>2. (q.t \in archived) \in BOOLEAN
      OBVIOUS
    <3> HIDE DEF found
    <3> QED BY <3>1, <3>2
  <2> QED BY <2>1, <2>2
<1>3. PICK at : at = Latest(q, q.t)
  OBVIOUS
<1> DEFINE n == [q EXCEPT !.op = mark, !.there = there, !.at = at, !.step = "write"]
<1>4. /\ q.op = "thread" /\ q.step = "answer" /\ tab' = [tab EXCEPT ![w] = n]
      /\ UNCHANGED <<log, committed, own, role, member, viewed, archived, turns>>
  BY <1>1, <1>2, <1>3 DEF ReadOwnRow, Read, accessRows, humanRows
<1>5. Witnessed(q) /\ StillThere(q) /\ FloorStands(q)
  BY <1>1, InFlightFacts
<1>6. at \in q.rows /\ q.rows \subseteq Positions
  <2>1. InThread(q, q.t) # {} /\ q.rows \subseteq committed /\ committed \subseteq Positions
    BY <1>4, <1>5, PositionsOf DEF StillThere, Answering, OrbitInd
  <2>2. InThread(q, q.t) \subseteq q.rows
    BY DEF InThread
  <2> QED BY <1>3, <2>1, <2>2, LatestIn DEF Latest
<1>7. /\ n \in Lookups
      /\ n.op = mark /\ n.t = q.t /\ n.at = at /\ n.step = "write" /\ n.own = q.own
      /\ n.role = q.role /\ n.floor = q.floor /\ n.held = q.held /\ n.was = q.was
      /\ n.rows = q.rows
  BY <1>6 DEF Lookups
<1> HIDE DEF n
<1>8. Witnessed(n) /\ FloorStands(n)
  BY <1>4, <1>5, <1>7 DEF Witnessed, RoleRead, FloorStands
<1>9. StillThere(n)
  BY <1>4, <1>5, <1>6, <1>7 DEF StillThere, Marks
<1> QED BY <1>4, <1>7, <1>8, <1>9, InFlightFacts, TablesTyped, TabKeeps

LEMMA OrbitStart == OrbitInit => OrbitInd
<1> SUFFICES ASSUME OrbitInit PROVE OrbitInd
  OBVIOUS
<1>1. MaxMessages \in Nat /\ 1 <= MaxMessages /\ TaskThreads \subseteq Threads
  BY OrbitAssumption DEF OrbitAssumption
<1>2. \A a, b \in Party, t \in Threads :
        Message(a, b, t, "task", 0, FALSE) \in Messages
        /\ Message(a, b, t, "task", 0, FALSE).reply = 0
  BY DEF Message, Messages, Kinds
<1>3. /\ log \in Seq(Messages) /\ Len(log) <= 1 /\ committed \subseteq DOMAIN log
      /\ \A i \in DOMAIN log : log[i].reply = 0
  <2>1. CASE log = << >>
    BY <2>1 DEF OrbitInit
  <2>2. ASSUME NEW m \in Messages, m.reply = 0, log = <<m>>
        PROVE  /\ log \in Seq(Messages) /\ Len(log) <= 1
               /\ \A i \in DOMAIN log : log[i].reply = 0
    BY <2>2
  <2>3. log = << >> \/ \E m \in Messages : m.reply = 0 /\ log = <<m>>
    <3> SUFFICES ASSUME log # << >> PROVE \E m \in Messages : m.reply = 0 /\ log = <<m>>
      OBVIOUS
    <3>1. \E a \in Party, b \in Party, t \in Threads :
            log = <<Message(a, b, t, "task", 0, FALSE)>>
      BY DEF OrbitInit
    <3> QED BY <1>2, <3>1
  <2> QED BY <2>1, <2>2, <2>3 DEF OrbitInit
<1>4. \A w \in Tabs : Witnessed(tab[w]) /\ StillThere(tab[w]) /\ FloorStands(tab[w])
  BY ClosedIsIdle DEF OrbitInit
<1>5. RepliesBetween
  BY <1>3 DEF RepliesBetween
<1>6. OrbitTypeOK
  <2>1. Len(log) <= MaxMessages
    <3>1. Len(log) \in Nat
      BY <1>3
    <3> QED BY <1>1, <1>3, <3>1
  <2>2. /\ own \subseteq Party /\ role \in [Party -> Roles] /\ member \subseteq TaskThreads
        /\ archived = {} /\ turns = 0
    BY DEF OrbitInit, Roles
  <2>3. viewed \in [Threads -> Positions \cup {0}] /\ tab \in [Tabs -> Lookups]
    BY ClosedIsIdle DEF OrbitInit
  <2> QED BY <1>3, <2>1, <2>2, <2>3 DEF OrbitTypeOK
<1> QED BY <1>4, <1>5, <1>6 DEF OrbitInd, OrbitInit

LEMMA OrbitNextKeeps == OrbitInd /\ [OrbitNext]_orbitVars => OrbitInd'
<1> SUFFICES ASSUME OrbitInd, [OrbitNext]_orbitVars PROVE OrbitInd'
  OBVIOUS
<1>1. CASE UNCHANGED orbitVars
  <2>1. /\ UNCHANGED <<log, committed, own, role, member, turns, viewed, archived, tab>>
        /\ UNCHANGED <<own, role, tab>>
    BY <1>1 DEF orbitVars, accessRows, humanRows
  <2>2. OrbitTypeOK' /\ RepliesBetween'
    BY <2>1 DEF OrbitInd, OrbitTypeOK, RepliesBetween, Ends
  <2> QED BY <2>1, <2>2, RowsKeep
<1>2. ASSUME NEW a \in Party, NEW b \in Party,
             \/ \E kind \in {"message", "task"} : OpenThread(a, b, kind)
             \/ \E t \in TaskThreads : Bridge(a, b, t)
      PROVE  OrbitInd'
  BY <1>2, MessagesKeep
<1>3. ASSUME NEW a \in Party, NEW i \in Positions, NEW kind \in {"message"} \cup Results,
             ReplyTo(a, i, kind)
      PROVE  OrbitInd'
  BY <1>3, MessagesKeep
<1>4. ASSUME NEW i \in Positions, Appear(i) PROVE OrbitInd'
  BY <1>4, AppearKeeps
<1>5. CASE \/ \E a \in Party, r \in ViewRoles \cup {"owner", "none"} : ChangeAccess(a, r)
           \/ \E t \in TaskThreads : ChangeMembership(t)
  BY <1>5, AccessKeeps
<1>6. ASSUME NEW w \in Tabs, AskView(w) \/ AskFile(w) PROVE OrbitInd'
  BY <1>6, AsksKeep
<1>7. ASSUME NEW w \in Tabs,
             ReadGrants(w) \/ ReadRows(w) \/ (\E mark \in Marks : ReadOwnRow(w, mark))
      PROVE  OrbitInd'
  BY <1>7, ReadGrantsKeeps, ReadRowsKeeps, ReadOwnRowKeeps
<1>8. ASSUME NEW w \in Tabs, Answered(w) \/ MarkViewed(w) \/ Archive(w) \/ Restore(w)
      PROVE  OrbitInd'
  BY <1>8, WritesKeep
<1> QED BY <1>1, <1>2, <1>3, <1>4, <1>5, <1>6, <1>7, <1>8 DEF OrbitNext

\* In every state of Orbit a request in flight took for access only what the
\* Human held while it ran, its messages are still there, a reply goes between
\* the Agents of what it answers, and a task that had an answer has one
\* (control/service.py, one transaction of several SELECTs per view).
THEOREM OrbitInvariant == OrbitSpec => []OrbitInd
<1>1. OrbitInit => OrbitInd
  BY OrbitStart
<1>2. OrbitInd /\ [OrbitNext]_orbitVars => OrbitInd'
  BY OrbitNextKeeps
<1> QED BY <1>1, <1>2, PTL DEF OrbitSpec

\* Who may read a message's content has a role of more than an auditor's.
LEMMA AllowedIsHeld ==
  ASSUME NEW q, Witnessed(q), NEW i, Ends(i) \subseteq Party, ContentAllowed(q, i)
  PROVE  \E a \in Ends(i) : q.held[a] \ {"none", "auditor"} # {}
<1>1. PICK a \in Ends(i) : RoleRead(q, a) \notin {"none", "auditor"}
  BY DEF ContentAllowed
<1>2. RoleRead(q, a) \in q.held[a]
  BY <1>1 DEF Witnessed
<1> QED BY <1>1, <1>2

\* What an answer holds: contents that are allowed, results of tasks that are,
\* and the one file.
LEMMA ContentsOf ==
  ASSUME NEW q, q.op \in {"list", "thread", "file"}, NEW view \in Views(q),
         NEW i \in Contents(q, view)
  PROVE  \/ i \in q.rows /\ ContentAllowed(q, i)
         \/ /\ i \in committed /\ log[i].kind \in Results
            /\ \E j \in q.rows : ContentAllowed(q, j) /\ i = Response(j)
         \/ q.op = "file" /\ i = q.at
<1>1. view \in {"messages", "thread", "threads", "archive", "tasks", "file"}
  BY DEF Views
<1>2. CASE view \in {"messages", "thread"}
  BY <1>2 DEF Contents
<1>3. CASE view = "threads"
  BY <1>3 DEF Contents, Searched, InThread
<1>4. CASE view = "archive"
  BY <1>4 DEF Contents, Searched, InThread
<1>5. CASE view = "tasks"
  BY <1>5 DEF Contents
<1>6. CASE view = "file"
  BY <1>6 DEF Contents, Views
<1> QED BY <1>1, <1>2, <1>3, <1>4, <1>5, <1>6

\* "auditors receive metadata with message bodies redacted": a content in an
\* answer is of a message over one of whose ends the Human held more than an
\* auditor's role while the request ran, or of a Task the Human was a member of
\* (_content_allowed, get_orbit_attachment).
THEOREM ContentsAreShownToHolders == OrbitSpec => []ShownToHolders
<1>1. OrbitInd => ShownToHolders
  <2> SUFFICES ASSUME OrbitInd, NEW w \in Tabs, tab[w].step = "answer",
                      NEW view \in Views(tab[w]), NEW i \in Contents(tab[w], view)
               PROVE  \/ \E a \in Ends(i) : tab[w].held[a] \ {"none", "auditor"} # {}
                      \/ tab[w].op = "file" /\ log[i].task /\ log[i].t \in tab[w].was
    BY DEF ShownToHolders
  <2>1. PICK q \in Lookups : q = tab[w]
    BY InFlightFacts
  <2>2. Witnessed(q) /\ StillThere(q) /\ Answering(q)
    BY <2>1, InFlightFacts DEF StillThere
  <2>3. q.op \in {"list", "thread", "file"}
    BY <2>2 DEF Answering
  <2>4. \A m \in committed : m \in DOMAIN log /\ Ends(m) \subseteq Party
    BY PositionsOf DEF OrbitInd, OrbitTypeOK, Ends, Messages
  <2>5. CASE i \in q.rows /\ ContentAllowed(q, i)
    BY <2>1, <2>2, <2>4, <2>5, AllowedIsHeld DEF StillThere
  <2>6. CASE /\ i \in committed
             /\ \E j \in q.rows : ContentAllowed(q, j) /\ i = Response(j)
    <3>1. PICK j \in q.rows : ContentAllowed(q, j) /\ i = Response(j)
      BY <2>6
    <3>2. i \in Replies(j)
      <4>1. i # 0
        BY <2>6, PositionsOf DEF OrbitInd, Positions
      <4> QED BY <3>1, <4>1, ResponseIs DEF OrbitInd
    <3>3. log[i].reply = j /\ j \in committed
      BY <2>2, <3>1, <3>2 DEF Replies, StillThere
    <3>4. j # 0
      BY <3>3, PositionsOf DEF OrbitInd, Positions
    <3>5. Ends(j) = Ends(i)
      BY <2>4, <2>6, <3>3, <3>4 DEF OrbitInd, RepliesBetween
    <3>6. \E a \in Ends(j) : q.held[a] \ {"none", "auditor"} # {}
      BY <2>2, <2>4, <3>1, <3>3, AllowedIsHeld
    <3> QED BY <2>1, <3>5, <3>6
  <2>7. CASE q.op = "file" /\ i = q.at
    <3>1. \/ log[i].task /\ log[i].t \in q.was
          \/ ContentAllowed(q, i)
      BY <2>2, <2>7 DEF Answering
    <3>2. Ends(i) \subseteq Party
      BY <2>2, <2>4, <2>7 DEF StillThere
    <3> QED BY <2>1, <2>2, <2>7, <3>1, <3>2, AllowedIsHeld
  <2>8. view \in Views(q) /\ i \in Contents(q, view)
    BY <2>1
  <2> QED BY <2>3, <2>5, <2>6, <2>7, <2>8, ContentsOf
<1> QED BY <1>1, OrbitInvariant, PTL

\* "A structured result remains authoritative": a view never says less of a task
\* than the database did when its request began (_responses_for_tasks,
\* _work_state_for).
THEOREM AuthoritativeResultsStand == OrbitSpec => []ResultsStand
<1>1. OrbitInd => ResultsStand
  <2> SUFFICES ASSUME OrbitInd, NEW w \in Tabs, NEW i \in Tasks(tab[w])
               PROVE  /\ tab[w].floor[i] \in Results => WorkStateFor(i) \in Results
                      /\ tab[w].floor[i] = "handled" => WorkStateFor(i) # "pending"
    BY DEF ResultsStand
  <2>1. i \in Positions /\ OrbitTypeOK /\ FloorStands(tab[w])
    BY InFlightFacts, PositionsOf DEF StillThere, Tasks
  <2>2. tab[w].floor[i] = "handled" => WorkStateFor(i) # "pending"
    BY <2>1, ResponseIs, StatusNames DEF FloorStands, WorkStateFor
  <2>3. ASSUME tab[w].floor[i] \in Results PROVE WorkStateFor(i) \in Results
    <3>1. Replies(i) # {} /\ \E j \in Replies(i) : log[j].kind \in Results
      BY <2>1, <2>3 DEF FloorStands
    <3>2. Response(i) # 0 /\ log[Response(i)].kind \in Results
      BY <2>1, <3>1, ResponseIs
    <3> QED BY <3>2 DEF WorkStateFor
  <2> QED BY <2>2, <2>3
<1> QED BY <1>1, OrbitInvariant, PTL
=============================================================================

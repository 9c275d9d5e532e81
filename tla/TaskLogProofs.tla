---------------------------- MODULE TaskLogProofs ----------------------------
(***************************************************************************)
(* Theorems of TaskLog: a host that follows the log skips nothing, a message *)
(* request that was answered is in the log once, and the log explains who    *)
(* takes part and who was sent what.                                       *)
(*                                                                         *)
(* All three rest on the row of the Task: its holder draws the number after  *)
(* the last one, so entries commit in the order of their numbers and without *)
(* a gap, and what the entry says of the Agents is still so when it commits. *)
(***************************************************************************)
EXTENDS TaskLog, FiniteSetTheorems, WellFoundedInduction, TLAPS

LEMMA MinIsLeast ==
  ASSUME NEW S \in SUBSET Nat, S # {}
  PROVE  Min(S) \in S /\ \A n \in S : Min(S) <= n
<1> DEFINE R == OpToRel(<, Nat)
<1>1. IsWellFoundedOn(R, Nat)
  BY NatLessThanWellFounded
<1>2. \A m, n \in Nat : m < n => <<m, n>> \in R
  BY DEF OpToRel
<1> HIDE DEF R
<1>3. PICK m \in S : \A n \in S : ~ (<<n, m>> \in R)
  BY <1>1, WFMin
<1>4. \A n \in S : m <= n
  <2> SUFFICES ASSUME NEW n \in S PROVE m <= n
    OBVIOUS
  <2>1. ~ (n < m)
    BY <1>2, <1>3
  <2> QED BY <2>1
<1> QED BY <1>4 DEF Min

\* The least bound of a set of numbers is in it.
LEMMA MaxIsGreatest ==
  ASSUME NEW S \in SUBSET Nat, S # {}, NEW b \in Nat, \A n \in S : n <= b
  PROVE  Max(S) \in S /\ \A n \in S : n <= Max(S)
<1> DEFINE bounds == {m \in Nat : \A n \in S : n <= m}
           m == Min(bounds)
<1>1. bounds # {} /\ bounds \in SUBSET Nat
  OBVIOUS
<1>2. m \in bounds /\ \A k \in bounds : m <= k
  <2> HIDE DEF bounds
  <2> QED BY <1>1, MinIsLeast
<1> HIDE DEF m
<1>3. m \in S
  <2> SUFFICES ASSUME m \notin S PROVE FALSE
    OBVIOUS
  <2>1. PICK n \in S : TRUE
    OBVIOUS
  <2>2. m \in Nat /\ n <= m /\ n # m /\ n \in Nat
    BY <1>2, <2>1
  <2>3. m - 1 \in bounds
    BY <1>2, <2>2
  <2> QED BY <1>2, <2>2, <2>3
<1> QED BY <1>2, <1>3 DEF Max

-----------------------------------------------------------------------------
(* The invariant.                                                          *)

Membership == {"member_added", "member_joined", "member_declined", "agents_selected",
               "member_left"}

\* The numbers of the log are 1..Last, one entry each.
Ordered ==
  /\ log # {}
  /\ \A e \in log : e.seq # 0 /\ \A f \in log : e.seq = f.seq => e = f
  /\ \A k \in 1..Last : \E e \in log : e.seq = k

\* The request that holds the row is alone, and its number is the next one.
RowHolder == \A s \in Sessions : tx[s].held => row = s /\ tx[s].seq = Last + 1

\* What a request carries: only a message has a key, and has an author then;
\* only a change of members decides about Agents, and about those of its Human.
Carries(t) ==
  /\ t.op # "task_message" => t.key = NoKey
  /\ t.op = "task_message" =>
       t.h = NoHuman /\ t.by \in Agents \cup Humans /\ (t.key \in Keys => t.body \in Bodies)
  /\ t.op \in Membership => t.h \in Humans /\ t.agents \subseteq AgentsOf(t.h)

\* A key is recorded once for its author, and told from a record.
KeysOnce ==
  \A e, f \in log : e.key \in Keys /\ e.by = f.by /\ e.key = f.key => e = f
ToldRecorded ==
  \A q \in told : \E e \in log : e.by = q.by /\ e.key = q.key /\ e.body = q.body

\* A cursor and a page end at entries of the log; what lies between the
\* position of the host and the end of its page is consumed or in hand.
Follows(r) ==
  /\ host[r].saved <= Last /\ host[r].next <= Last
  /\ \A e \in log : Position(r) < e.seq /\ e.seq <= host[r].next =>
       e.seq \in host[r].done \cup host[r].items
  /\ \A e \in log : host[r].from < e.seq /\ e.seq <= host[r].saved =>
       e.seq \in host[r].done

LogInd ==
  /\ TypeOK /\ Ordered /\ RowHolder
  /\ \A s \in Sessions : Carries(tx[s])
  /\ KeysOnce /\ ToldRecorded
  /\ \A r \in Readers : Follows(r)
  /\ LogExplains

\* The last number of a set of entries, and who takes part after those of them
\* before n.
LastOf(L) == Max({e.seq : e \in L})
PartIn(L, n) ==
  {a \in Agents : \E e \in L :
     /\ Decides(e, HumanOf[a]) /\ e.seq < n /\ a \in e.agents
     /\ \A f \in L : Decides(f, HumanOf[a]) /\ f.seq < n => f.seq <= e.seq}

LEMMA LastIsGreatest ==
  ASSUME NEW L \in SUBSET Entry, L # {}
  PROVE  /\ LastOf(L) \in Seqs /\ LastOf(L) \in Nat /\ MaxLog \in Nat
         /\ \E e \in L : e.seq = LastOf(L)
         /\ \A e \in L : e.seq \in Seqs /\ e.seq <= LastOf(L)
<1> DEFINE S == {e.seq : e \in L}
<1>1. MaxLog \in Nat /\ \A e \in L : e.seq \in Seqs
  BY LogAssumption DEF LogAssumption, Entry
<1>2. S \in SUBSET Nat /\ S # {} /\ \A n \in S : n <= MaxLog
  BY <1>1 DEF Seqs
<1>3. Max(S) \in S /\ \A n \in S : n <= Max(S)
  <2> HIDE DEF S
  <2> QED BY <1>1, <1>2, MaxIsGreatest
<1> QED BY <1>1, <1>3 DEF LastOf, Seqs

LEMMA LastGrows ==
  ASSUME NEW L \in SUBSET Entry, L # {}, NEW e \in Entry, e.seq = LastOf(L) + 1
  PROVE  LastOf(L \cup {e}) = LastOf(L) + 1
<1>1. LastOf(L) \in Nat /\ \A f \in L : f.seq <= LastOf(L)
  BY LastIsGreatest
<1> DEFINE M == L \cup {e}
<1>2. /\ \E f \in M : f.seq = LastOf(M)
      /\ \A f \in M : f.seq \in Seqs /\ f.seq <= LastOf(M)
      /\ LastOf(M) \in Nat
  <2>1. M \in SUBSET Entry /\ M # {}
    OBVIOUS
  <2> HIDE DEF M
  <2> QED BY <2>1, LastIsGreatest
<1>3. e \in M /\ \A f \in M : f \in L \/ f = e
  OBVIOUS
<1> HIDE DEF M
<1>4. LastOf(M) = LastOf(L) + 1
  BY <1>1, <1>2, <1>3
<1> QED BY <1>4 DEF M

LEMMA LogExplainsIn ==
  LogExplains <=>
    /\ part = PartIn(log, MaxLog + 1)
    /\ \A e \in log : e.kind = "task_message" /\ e.by \in Agents =>
         e.agents = Receives(PartIn(log, e.seq), e.by, e.sender)
<1>1. ASSUME NEW n PROVE PartAt(n) = PartIn(log, n)
  BY DEF PartAt, PartIn
<1> QED BY <1>1 DEF LogExplains

LEMMA LogExplainsInPrime ==
  LogExplains' <=>
    /\ part' = PartIn(log', MaxLog + 1)
    /\ \A e \in log' : e.kind = "task_message" /\ e.by \in Agents =>
         e.agents = Receives(PartIn(log', e.seq), e.by, e.sender)
<1>1. ASSUME NEW n PROVE PartAt(n)' = PartIn(log', n)
  BY DEF PartAt, PartIn
<1> QED BY <1>1 DEF LogExplains

\* A later entry changes nothing before it.
LEMMA PartBefore ==
  ASSUME NEW L \in SUBSET Entry, NEW e \in Entry, NEW n \in Nat, n <= e.seq
  PROVE  PartIn(L \cup {e}, n) = PartIn(L, n)
<1>1. e.seq \in Nat /\ ~ (e.seq < n)
  BY LogAssumption DEF LogAssumption, Entry, Seqs
<1> QED BY <1>1 DEF PartIn

\* An entry that decides about nobody changes nothing.
LEMMA PartAfterOther ==
  ASSUME NEW L \in SUBSET Entry, NEW e \in Entry, NEW n \in Nat,
         e.h \notin Humans \/ e.kind \in {"email_sent", "email_failed"}
  PROVE  PartIn(L \cup {e}, n) = PartIn(L, n)
<1>1. \A a \in Agents : ~ Decides(e, HumanOf[a])
  BY LogAssumption DEF LogAssumption, Decides
<1> QED BY <1>1 DEF PartIn

\* After an entry that decides about a Human, its Agents are those it names.
LEMMA PartAfterChange ==
  ASSUME NEW L \in SUBSET Entry, NEW e \in Entry, NEW n \in Nat, e.seq < n,
         \A f \in L : f.seq < e.seq,
         e.h \in Humans, e.kind \in Membership, e.agents \subseteq AgentsOf(e.h)
  PROVE  PartIn(L \cup {e}, n) = (PartIn(L, n) \ AgentsOf(e.h)) \cup e.agents
<1> DEFINE M == L \cup {e}
<1>1. \A f \in M : f.seq \in Nat /\ f.seq <= e.seq
  BY LogAssumption DEF LogAssumption, Entry, Seqs
<1>2. \A a \in Agents : Decides(e, HumanOf[a]) <=> HumanOf[a] = e.h
  BY DEF Decides, Membership
<1>3. ASSUME NEW a \in Agents, HumanOf[a] = e.h
      PROVE  a \in PartIn(M, n) <=> a \in e.agents
  <2>1. Decides(e, HumanOf[a]) /\ e.seq < n /\ e \in M
    BY <1>2, <1>3
  <2>2. \A f \in M : f.seq <= e.seq
    BY <1>1
  <2>3. ASSUME a \in e.agents PROVE a \in PartIn(M, n)
    BY <2>1, <2>2, <2>3 DEF PartIn
  <2>4. ASSUME a \in PartIn(M, n) PROVE a \in e.agents
    <3>1. PICK f \in M : e.seq <= f.seq /\ a \in f.agents
      BY <2>1, <2>4 DEF PartIn
    <3>2. f = e
      BY <1>1, <3>1
    <3> QED BY <3>1, <3>2
  <2> QED BY <2>3, <2>4
<1>4. ASSUME NEW a \in Agents, HumanOf[a] # e.h
      PROVE  a \in PartIn(M, n) <=> a \in PartIn(L, n)
  <2>1. ~ Decides(e, HumanOf[a])
    BY <1>2, <1>4
  <2> QED BY <2>1 DEF PartIn
<1>5. PartIn(M, n) \subseteq Agents /\ PartIn(L, n) \subseteq Agents /\ e.agents \subseteq Agents
  BY DEF PartIn, Entry
<1>6. \A a \in Agents : a \in AgentsOf(e.h) <=> HumanOf[a] = e.h
  BY DEF AgentsOf
<1> QED BY <1>3, <1>4, <1>5, <1>6

\* After the last entry it does not matter how far.
LEMMA PartNow ==
  ASSUME NEW L \in SUBSET Entry, NEW m, NEW n, \A f \in L : f.seq < m /\ f.seq < n
  PROVE  PartIn(L, m) = PartIn(L, n)
BY DEF PartIn

-----------------------------------------------------------------------------
(* Writers.                                                                *)

LEMMA LogTypes ==
  ASSUME LogInd
  PROVE  /\ TypeOK /\ log \in SUBSET Entry /\ log # {} /\ Last = LastOf(log)
         /\ MaxLog \in Nat /\ Last \in Nat /\ Last \in Seqs
         /\ \E e \in log : e.seq = Last
         /\ \A e \in log : e.seq \in Seqs /\ e.seq \in Nat /\ e.seq <= Last
<1>1. TypeOK /\ log \in SUBSET Entry /\ log # {} /\ Last = LastOf(log)
  BY DEF LogInd, TypeOK, Ordered, Last, LastOf
<1> QED BY <1>1, LastIsGreatest DEF Seqs

\* A step that leaves the log, the Agents and the hosts alone keeps the
\* invariant if it does so for what the requests rely on.
LEMMA RestStays ==
  ASSUME LogInd, TypeOK', log' = log, part' = part, host' = host, RowHolder',
         \A s \in Sessions : Carries(tx'[s]), ToldRecorded'
  PROVE  LogInd'
<1>1. Last' = Last
  BY DEF Last
<1>2. Ordered' /\ KeysOnce'
  BY <1>1 DEF LogInd, Ordered, KeysOnce
<1>3. \A r \in Readers : Follows(r)'
  BY <1>1 DEF LogInd, Follows, Position
<1>4. LogExplains'
  BY LogExplainsIn, LogExplainsInPrime DEF LogInd
<1>5. \A s \in Sessions : Carries(tx[s])'
  BY DEF Carries
<1> QED BY <1>2, <1>3, <1>4, <1>5 DEF LogInd

LEMMA FriendshipKeeps ==
  ASSUME LogInd, NEW h \in Others, NEW x \in {h, Founder},
         \/ RequestFriendship(h, x)
         \/ \E accept \in BOOLEAN : DecideFriendship(h, x, accept)
         \/ RemoveFriendship(h)
  PROVE  LogInd'
<1>1. unchangedTask
  BY DEF RequestFriendship, DecideFriendship, RemoveFriendship
<1>2. UNCHANGED <<member, mail, part, log, row, tx, told, host>>
  BY <1>1 DEF unchangedTask
<1>3. PICK f \in [status : FriendStatuses, by : Humans \cup {NoHuman}] :
        friend' = [friend EXCEPT ![h] = f]
  <2>1. x \in Humans
    BY LogAssumption DEF LogAssumption, Others
  <2>2. CASE RequestFriendship(h, x)
    BY <2>1, <2>2 DEF RequestFriendship, FriendStatuses
  <2>3. CASE \E accept \in BOOLEAN : DecideFriendship(h, x, accept)
    BY <2>3 DEF DecideFriendship, NotFriends, FriendStatuses
  <2>4. CASE RemoveFriendship(h)
    BY <2>4 DEF RemoveFriendship, NotFriends, FriendStatuses
  <2> QED BY <2>2, <2>3, <2>4
<1>4. TypeOK'
  BY <1>2, <1>3 DEF LogInd, TypeOK
<1>5. RowHolder' /\ ToldRecorded' /\ \A s \in Sessions : Carries(tx'[s])
  BY <1>2 DEF LogInd, RowHolder, ToldRecorded, Last
<1> QED BY <1>2, <1>4, <1>5, RestStays

\* The request that takes the row draws the next number.
LEMMA HoldKeeps ==
  ASSUME LogInd, NEW s \in Sessions, NEW req \in Requests, Carries(req), Hold(s, req)
  PROVE  LogInd'
<1> DEFINE t == [req EXCEPT !.held = TRUE, !.seq = NextSeq]
<1>1. /\ row = NoSession /\ NextSeq <= MaxLog /\ row' = s
      /\ tx' = [tx EXCEPT ![s] = t]
      /\ UNCHANGED <<friend, member, mail, part, log, told, host>>
  BY DEF Hold, RowFree
<1>2. NextSeq = Last + 1 /\ NextSeq \in Seqs
  BY <1>1, LogTypes DEF NextSeq, Seqs
<1>3. t \in Requests /\ t.held /\ t.seq = Last + 1
  BY <1>2 DEF Requests
<1>4. Carries(t)
  BY DEF Carries, Requests
<1> HIDE DEF t
<1>5. /\ tx' \in [Sessions -> Requests] /\ tx'[s] = t
      /\ \A x \in Sessions \ {s} : tx'[x] = tx[x]
  BY <1>1, <1>3, LogTypes DEF TypeOK
<1>6. TypeOK'
  BY <1>1, <1>5, LogTypes DEF TypeOK
<1>7. Last' = Last
  BY <1>1 DEF Last
<1>8. RowHolder'
  <2>1. \A x \in Sessions : ~ tx[x].held
    BY <1>1, LogAssumption DEF LogAssumption, LogInd, RowHolder
  <2> QED BY <1>1, <1>3, <1>5, <1>7, <2>1 DEF RowHolder
<1>9. ToldRecorded' /\ \A x \in Sessions : Carries(tx'[x])
  BY <1>1, <1>4, <1>5 DEF LogInd, ToldRecorded
<1> QED BY <1>1, <1>6, <1>8, <1>9, RestStays

\* A request that ends, or starts without the row, publishes nothing.
LEMMA UnheldKeeps ==
  ASSUME LogInd, NEW s \in Sessions, NEW t \in Requests, Carries(t), ~ t.held,
         tx' = [tx EXCEPT ![s] = t], row' \in Sessions \cup {NoSession},
         row' = row \/ tx[s].held,
         told' \in SUBSET [by : Agents \cup Humans, key : Keys, body : Bodies],
         ToldRecorded',
         UNCHANGED <<friend, member, mail, part, log, host>>
  PROVE  LogInd'
<1>1. /\ tx' \in [Sessions -> Requests] /\ tx'[s] = t
      /\ \A x \in Sessions \ {s} : tx'[x] = tx[x]
  BY LogTypes DEF TypeOK
<1>2. TypeOK'
  BY <1>1, LogTypes DEF TypeOK
<1>3. Last' = Last
  BY DEF Last
<1>4. RowHolder'
  BY <1>1, <1>3 DEF LogInd, RowHolder
<1>5. \A x \in Sessions : Carries(tx'[x])
  BY <1>1 DEF LogInd
<1> QED BY <1>2, <1>4, <1>5, RestStays

LEMMA IdleIsRequest == Idle \in Requests /\ Carries(Idle) /\ ~ Idle.held
<1>1. 0 \in Seqs
  BY LogAssumption DEF LogAssumption, Seqs
<1> QED BY <1>1 DEF Idle, Requests, Carries, Membership

\* The holder of the row publishes: the next entry of the log.
LEMMA PublishKeeps ==
  ASSUME LogInd, NEW s \in Sessions, tx[s].held, NEW e \in Entry, e.seq = tx[s].seq,
         e.key \in Keys => Recorded(e.by, e.key) = {},
         log' = log \cup {e}, row' = NoSession, UNCHANGED <<friend, host>>,
         NEW t \in Requests, Carries(t), ~ t.held, tx' = [tx EXCEPT ![s] = t],
         member' \in [Humans -> {"none", "invited", "active", "declined"}],
         mail' \in [Humans -> {"none", "pending", "sent", "failed"}],
         told' \in SUBSET [by : Agents \cup Humans, key : Keys, body : Bodies],
         \A q \in told' : q \in told \/ (e.by = q.by /\ e.key = q.key /\ e.body = q.body),
         part' \in SUBSET Agents, part' = PartIn(log', MaxLog + 1),
         e.kind = "task_message" /\ e.by \in Agents =>
           e.agents = Receives(PartIn(log, e.seq), e.by, e.sender)
  PROVE  LogInd'
<1>1. /\ row = s /\ e.seq = Last + 1 /\ \A f \in log : f.seq < e.seq
  BY LogTypes DEF LogInd, RowHolder
<1>2. Last' = Last + 1 /\ Last \in Nat
  <2>1. LastOf(log \cup {e}) = LastOf(log) + 1
    BY <1>1, LogTypes, LastGrows
  <2> QED BY <2>1, LogTypes DEF Last, LastOf
<1>3. /\ tx' \in [Sessions -> Requests] /\ tx'[s] = t
      /\ \A x \in Sessions \ {s} : tx'[x] = tx[x]
  BY LogTypes DEF TypeOK
<1>4. TypeOK'
  BY <1>3, LogTypes DEF TypeOK
<1>5. Ordered'
  <2>1. \A f \in log : f.seq # 0 /\ \A g \in log : f.seq = g.seq => f = g
    BY DEF LogInd, Ordered
  <2>2. \A f \in log' : f.seq # 0 /\ \A g \in log' : f.seq = g.seq => f = g
    BY <1>1, <1>2, <2>1, LogTypes
  <2>3. \A k \in 1..Last' : \E f \in log' : f.seq = k
    <3>1. \A k \in 1..Last : \E f \in log : f.seq = k
      BY DEF LogInd, Ordered
    <3>2. \A k \in 1..Last' : k \in 1..Last \/ k = e.seq
      BY <1>1, <1>2
    <3> QED BY <3>1, <3>2
  <2> QED BY <2>2, <2>3 DEF Ordered
<1>6. RowHolder'
  <2>1. \A x \in Sessions \ {s} : ~ tx[x].held
    BY <1>1 DEF LogInd, RowHolder
  <2> QED BY <1>3, <2>1 DEF RowHolder
<1>7. \A x \in Sessions : Carries(tx[x])'
  <2>1. \A x \in Sessions : Carries(tx'[x])
    BY <1>3 DEF LogInd
  <2> QED BY <2>1 DEF Carries
<1>8. KeysOnce'
  <2>1. \A f \in log : e.key \in Keys => ~ (f.by = e.by /\ f.key = e.key)
    BY DEF Recorded
  <2> QED BY <2>1 DEF LogInd, KeysOnce
<1>9. ToldRecorded'
  BY DEF LogInd, ToldRecorded
<1>10. \A r \in Readers : Follows(r)'
  <2> SUFFICES ASSUME NEW r \in Readers PROVE Follows(r)'
    OBVIOUS
  <2>1. /\ Follows(r) /\ Position(r)' = Position(r)
        /\ host[r].saved \in Nat /\ host[r].next \in Nat
    BY LogTypes DEF LogInd, Position, TypeOK, Seqs
  <2>2. ~ (e.seq <= host[r].next) /\ ~ (e.seq <= host[r].saved)
    BY <1>1, <1>2, <2>1 DEF Follows
  <2> QED BY <1>2, <2>1, <2>2 DEF Follows
<1>11. LogExplains'
  <2>1. ASSUME NEW f \in log', f.kind = "task_message", f.by \in Agents
        PROVE  f.agents = Receives(PartIn(log', f.seq), f.by, f.sender)
    <3>1. f \in Entry /\ f.seq \in Nat /\ f.seq <= e.seq
      BY <1>1, <1>2, LogTypes
    <3>2. PartIn(log', f.seq) = PartIn(log, f.seq)
      BY <3>1, LogTypes, PartBefore
    <3>3. CASE f = e
      BY <2>1, <3>2, <3>3
    <3>4. CASE f # e
      BY <2>1, <3>2, <3>4, LogExplainsIn DEF LogInd
    <3> QED BY <3>3, <3>4
  <2> QED BY <2>1, LogExplainsInPrime
<1> QED BY <1>4, <1>5, <1>6, <1>7, <1>8, <1>9, <1>10, <1>11 DEF LogInd

\* Requests that take the row at once.
LEMMA BeginKeeps ==
  ASSUME LogInd, NEW s \in Sessions, NEW h \in Humans,
         \/ \E a \in Agents : InviteBegin(s, h, a)
         \/ \E agents \in SUBSET Agents : SelectBegin(s, h, agents) \/ AnswerBegin(s, h, agents)
         \/ LeaveBegin(s, h)
         \/ \E k \in Keys, b \in Bodies : HumanSendBegin(s, h, k, b)
  PROVE  LogInd'
<1>1. \E req \in Requests : Carries(req) /\ Hold(s, req)
  <2>1. CASE \E a \in Agents : InviteBegin(s, h, a)
    <3>1. PICK a \in Agents : InviteBegin(s, h, a)
      BY <2>1
    <3> DEFINE req == [Idle EXCEPT !.op = "member_added", !.h = h, !.agents = {a}, !.by = Founder]
    <3>2. Hold(s, req) /\ HumanOf[a] = h
      BY <3>1 DEF InviteBegin
    <3>3. req \in Requests
      BY IdleIsRequest, LogAssumption DEF LogAssumption, Requests, Kinds, Idle
    <3>4. Carries(req)
      BY <3>2 DEF Carries, Idle, AgentsOf
    <3> QED BY <3>2, <3>3, <3>4
  <2>2. CASE \E agents \in SUBSET Agents : SelectBegin(s, h, agents)
    <3>1. PICK agents \in SUBSET Agents : SelectBegin(s, h, agents)
      BY <2>2
    <3> DEFINE req == [Idle EXCEPT !.op = "agents_selected", !.h = h, !.agents = agents, !.by = h]
    <3>2. Hold(s, req) /\ agents \subseteq AgentsOf(h)
      BY <3>1 DEF SelectBegin
    <3>3. req \in Requests
      BY IdleIsRequest DEF Requests, Kinds, Idle
    <3>4. Carries(req)
      BY <3>2 DEF Carries, Idle
    <3> QED BY <3>2, <3>3, <3>4
  <2>3. CASE \E agents \in SUBSET Agents : AnswerBegin(s, h, agents)
    <3>1. PICK agents \in SUBSET Agents : AnswerBegin(s, h, agents)
      BY <2>3
    <3> DEFINE kind == IF agents = {} THEN "member_declined" ELSE "member_joined"
               req == [Idle EXCEPT !.h = h, !.agents = agents, !.by = h, !.op = kind]
    <3>2. Hold(s, req) /\ agents \subseteq AgentsOf(h)
      BY <3>1 DEF AnswerBegin
    <3>3. kind \in {"member_declined", "member_joined"}
      OBVIOUS
    <3> HIDE DEF kind
    <3>4. req \in Requests
      BY <3>3, IdleIsRequest DEF Requests, Kinds, Idle
    <3>5. Carries(req)
      BY <3>2, <3>3 DEF Carries, Idle
    <3> QED BY <3>2, <3>4, <3>5
  <2>4. CASE LeaveBegin(s, h)
    <3> DEFINE req == [Idle EXCEPT !.op = "member_left", !.h = h, !.by = h]
    <3>1. Hold(s, req)
      BY <2>4 DEF LeaveBegin
    <3>2. req \in Requests /\ Carries(req)
      BY IdleIsRequest DEF Requests, Kinds, Idle, Carries
    <3> QED BY <3>1, <3>2
  <2>5. CASE \E k \in Keys, b \in Bodies : HumanSendBegin(s, h, k, b)
    <3>1. PICK k \in Keys, b \in Bodies : HumanSendBegin(s, h, k, b)
      BY <2>5
    <3> DEFINE req == [Idle EXCEPT !.op = "task_message", !.by = h, !.key = k, !.body = b]
    <3>2. Hold(s, req)
      BY <3>1 DEF HumanSendBegin
    <3>3. req \in Requests
      BY IdleIsRequest DEF Requests, Kinds, Idle
    <3>4. Carries(req)
      BY DEF Idle, Carries, Membership
    <3> QED BY <3>2, <3>3, <3>4
  <2> QED BY <2>1, <2>2, <2>3, <2>4, <2>5
<1> QED BY <1>1, HoldKeeps

LEMMA MailBeginKeeps ==
  ASSUME LogInd, NEW s \in Sessions, NEW outcome \in {"email_sent", "email_failed"},
         MailBegin(s, outcome)
  PROVE  LogInd'
<1> DEFINE h == tx[s].h
           req == [Idle EXCEPT !.op = outcome, !.h = h]
<1>1. Hold(s, req)
  BY DEF MailBegin
<1>2. h \in Humans \cup {NoHuman}
  BY LogTypes DEF TypeOK, Requests
<1> HIDE DEF h
<1>3. req \in Requests /\ Carries(req)
  BY <1>2, IdleIsRequest DEF Requests, Kinds, Idle, Carries, Membership
<1> QED BY <1>1, <1>3, HoldKeeps

LEMMA SendHoldKeeps ==
  ASSUME LogInd, NEW s \in Sessions, SendHold(s)
  PROVE  LogInd'
<1>1. Hold(s, tx[s]) /\ tx[s] \in Requests /\ Carries(tx[s])
  BY LogTypes DEF SendHold, LogInd, TypeOK
<1> QED BY <1>1, HoldKeeps

\* A replay tells what is recorded.
LEMMA ReplayTells ==
  ASSUME LogInd, NEW by \in Agents \cup Humans, NEW k \in Keys, NEW b \in Bodies,
         Replay(by, k, b), log' = log
  PROVE  /\ told' \in SUBSET [by : Agents \cup Humans, key : Keys, body : Bodies]
         /\ ToldRecorded'
<1>1. told \in SUBSET [by : Agents \cup Humans, key : Keys, body : Bodies] /\ ToldRecorded
  BY LogTypes DEF LogInd, TypeOK
<1>2. CASE told' = told
  BY <1>1, <1>2 DEF ToldRecorded
<1>3. CASE /\ told' = told \cup {Request(by, k, b)}
           /\ \E e \in log : e.by = by /\ e.key = k /\ e.body = b
  BY <1>1, <1>3 DEF ToldRecorded, Request
<1> QED BY <1>2, <1>3 DEF Replay, Recorded

LEMMA SendLookKeeps ==
  ASSUME LogInd, NEW s \in Sessions, NEW a \in Agents, NEW k \in Keys, NEW b \in Bodies,
         SendLook(s, a, k, b)
  PROVE  LogInd'
<1>1. tx[s].op = "idle" /\ UNCHANGED <<friend, member, mail, part, log, row, host>>
  BY DEF SendLook
<1>2. CASE Replay(a, k, b) /\ tx' = tx
  <2>1. /\ told' \in SUBSET [by : Agents \cup Humans, key : Keys, body : Bodies]
        /\ ToldRecorded'
    BY <1>1, <1>2, ReplayTells
  <2>2. TypeOK'
    BY <1>1, <1>2, <2>1, LogTypes DEF TypeOK
  <2>3. RowHolder' /\ \A x \in Sessions : Carries(tx'[x])
    BY <1>1, <1>2 DEF LogInd, RowHolder, Last
  <2> QED BY <1>1, <2>1, <2>2, <2>3, RestStays
<1>3. CASE /\ tx' = [tx EXCEPT ![s] = [Idle EXCEPT !.op = "task_message", !.by = a,
                                                   !.key = k, !.body = b]]
           /\ told' = told
  <2> DEFINE t == [Idle EXCEPT !.op = "task_message", !.by = a, !.key = k, !.body = b]
  <2>1. t \in Requests /\ ~ t.held
    BY IdleIsRequest DEF Requests, Kinds, Idle
  <2>2. Carries(t)
    BY DEF Idle, Carries, Membership
  <2>3. tx' = [tx EXCEPT ![s] = t]
    BY <1>3
  <2> HIDE DEF t
  <2>4. /\ told' \in SUBSET [by : Agents \cup Humans, key : Keys, body : Bodies]
        /\ ToldRecorded' /\ row' \in Sessions \cup {NoSession}
    BY <1>1, <1>3, LogTypes DEF LogInd, TypeOK, ToldRecorded
  <2> QED BY <1>1, <2>1, <2>2, <2>3, <2>4, UnheldKeeps
<1> QED BY <1>2, <1>3 DEF SendLook

LEMMA ReplyLookKeeps ==
  ASSUME LogInd, NEW s \in Sessions, NEW a \in Agents, NEW parent \in log,
         ReplyLook(s, a, parent)
  PROVE  LogInd'
<1> DEFINE sender == IF parent.by \in Agents THEN parent.by ELSE NoAgent
           t == [Idle EXCEPT !.op = "task_message", !.by = a, !.sender = sender]
<1>1. /\ tx' = [tx EXCEPT ![s] = t]
      /\ UNCHANGED <<friend, member, mail, part, log, row, told, host>>
  BY DEF ReplyLook
<1>2. sender \in Agents \cup {NoAgent}
  OBVIOUS
<1> HIDE DEF sender
<1>3. t \in Requests /\ ~ t.held
  BY <1>2, IdleIsRequest DEF Requests, Kinds, Idle
<1>4. Carries(t)
  BY LogAssumption DEF LogAssumption, Idle, Carries, Membership
<1> HIDE DEF t
<1>5. /\ told' \in SUBSET [by : Agents \cup Humans, key : Keys, body : Bodies]
      /\ ToldRecorded' /\ row' \in Sessions \cup {NoSession}
  BY <1>1, LogTypes DEF LogInd, TypeOK, ToldRecorded
<1> QED BY <1>1, <1>3, <1>4, <1>5, UnheldKeeps

LEMMA AbortKeeps ==
  ASSUME LogInd, NEW s \in Sessions, Abort(s)
  PROVE  LogInd'
<1>1. /\ row' = IF tx[s].held THEN NoSession ELSE row
      /\ tx' = [tx EXCEPT ![s] = Idle]
      /\ UNCHANGED <<friend, member, mail, part, log, told, host>>
  BY DEF Abort
<1>2. /\ told' \in SUBSET [by : Agents \cup Humans, key : Keys, body : Bodies]
      /\ ToldRecorded' /\ row' \in Sessions \cup {NoSession} /\ (row' = row \/ tx[s].held)
  BY <1>1, LogTypes DEF LogInd, TypeOK, ToldRecorded
<1> QED BY <1>1, <1>2, IdleIsRequest, UnheldKeeps

-----------------------------------------------------------------------------
(* Publications.                                                           *)

LEMMA EntryOfRequest ==
  ASSUME LogInd, NEW s \in Sessions, tx[s].op \in Kinds
  PROVE  /\ EntryOf(s) \in Entry
         /\ EntryOf(s).seq = tx[s].seq /\ EntryOf(s).kind = tx[s].op /\ EntryOf(s).h = tx[s].h
         /\ EntryOf(s).agents = tx[s].agents /\ EntryOf(s).by = tx[s].by
         /\ EntryOf(s).key = tx[s].key /\ EntryOf(s).body = tx[s].body
         /\ EntryOf(s).sender = tx[s].sender
<1>1. tx[s] \in Requests
  BY LogTypes DEF TypeOK
<1> QED BY <1>1 DEF EntryOf, Requests, Entry

\* Who takes part, before and at the number a request drew.
LEMMA PartOfHolder ==
  ASSUME LogInd, NEW s \in Sessions, tx[s].held
  PROVE  /\ part = PartIn(log, MaxLog + 1) /\ part = PartIn(log, tx[s].seq)
         /\ MaxLog + 1 \in Nat /\ tx[s].seq < MaxLog + 1
         /\ \A f \in log : f.seq < tx[s].seq
<1>1. tx[s].seq = Last + 1 /\ tx[s].seq \in Seqs
  BY LogTypes DEF LogInd, RowHolder, TypeOK, Requests
<1>2. \A f \in log : f.seq < tx[s].seq /\ f.seq < MaxLog + 1
  BY <1>1, LogTypes DEF Seqs
<1>3. part = PartIn(log, MaxLog + 1)
  BY LogExplainsIn DEF LogInd
<1>4. part = PartIn(log, tx[s].seq)
  BY <1>2, <1>3, LogTypes, PartNow
<1> QED BY <1>1, <1>2, <1>3, <1>4, LogTypes DEF Seqs

\* A change of members makes the Agents of its Human those it names.
LEMMA MembersKeep ==
  ASSUME LogInd, NEW s \in Sessions, tx[s].op \in Membership, Publish(s, EntryOf(s)),
         member' \in [Humans -> {"none", "invited", "active", "declined"}],
         mail' \in [Humans -> {"none", "pending", "sent", "failed"}],
         SetAgents(tx[s].h, tx[s].agents), told' = told,
         NEW t \in Requests, Carries(t), ~ t.held, tx' = [tx EXCEPT ![s] = t]
  PROVE  LogInd'
<1> DEFINE e == EntryOf(s)
<1>1. /\ tx[s].held /\ log' = log \cup {e} /\ row' = NoSession /\ UNCHANGED <<friend, host>>
  BY DEF Publish
<1>2. /\ e \in Entry /\ e.seq = tx[s].seq /\ e.kind = tx[s].op /\ e.h = tx[s].h
      /\ e.agents = tx[s].agents /\ e.key = tx[s].key
  BY EntryOfRequest DEF Membership, Kinds
<1> HIDE DEF e
<1>3. /\ e.h \in Humans /\ e.agents \subseteq AgentsOf(e.h) /\ e.key \notin Keys
      /\ e.kind # "task_message" /\ e.kind \in Membership
  BY <1>2, LogAssumption DEF LogAssumption, LogInd, Carries, Membership
<1>4. part' = (part \ AgentsOf(e.h)) \cup e.agents
  BY <1>2 DEF SetAgents
<1>5. part' = PartIn(log', MaxLog + 1)
  <2>1. /\ log \in SUBSET Entry /\ MaxLog + 1 \in Nat /\ e.seq < MaxLog + 1
        /\ \A f \in log : f.seq < e.seq
    BY <1>1, <1>2, PartOfHolder, LogTypes
  <2>2. PartIn(log \cup {e}, MaxLog + 1) = (PartIn(log, MaxLog + 1) \ AgentsOf(e.h)) \cup e.agents
    BY <1>2, <1>3, <2>1, PartAfterChange
  <2> QED BY <1>1, <1>4, <2>2, PartOfHolder
<1>6. part' \in SUBSET Agents
  BY <1>5 DEF PartIn
<1>7. told' \in SUBSET [by : Agents \cup Humans, key : Keys, body : Bodies]
  BY LogTypes DEF TypeOK
<1> QED BY <1>1, <1>2, <1>3, <1>5, <1>6, <1>7, PublishKeeps

LEMMA InviteKeeps ==
  ASSUME LogInd, NEW s \in Sessions, Invite(s)
  PROVE  LogInd'
<1> DEFINE h == tx[s].h
           t == [Idle EXCEPT !.op = "mail", !.h = h]
<1>1. /\ tx[s].op \in Membership /\ Publish(s, EntryOf(s))
      /\ member' = [member EXCEPT ![h] = "active"] /\ mail' = [mail EXCEPT ![h] = "pending"]
      /\ SetAgents(h, tx[s].agents) /\ tx' = [tx EXCEPT ![s] = t] /\ told' = told
  BY DEF Invite, Membership
<1>2. h \in Humans \cup {NoHuman}
  BY LogTypes DEF TypeOK, Requests
<1>3. /\ member' \in [Humans -> {"none", "invited", "active", "declined"}]
      /\ mail' \in [Humans -> {"none", "pending", "sent", "failed"}]
  BY <1>1, LogTypes DEF TypeOK
<1>4. t \in Requests /\ Carries(t) /\ ~ t.held
  BY <1>2, IdleIsRequest DEF Requests, Idle, Carries, Membership
<1> HIDE DEF t
<1> QED BY <1>1, <1>3, <1>4, MembersKeep

LEMMA ChangeMemberKeeps ==
  ASSUME LogInd, NEW s \in Sessions, ChangeMember(s)
  PROVE  LogInd'
<1> DEFINE h == tx[s].h
           state == IF tx[s].op \in {"member_declined", "member_left"} THEN "declined"
                    ELSE "active"
<1>1. /\ tx[s].op \in Membership /\ Publish(s, EntryOf(s))
      /\ member' = [member EXCEPT ![h] = state] /\ mail' = mail
      /\ SetAgents(h, tx[s].agents) /\ tx' = [tx EXCEPT ![s] = Idle] /\ told' = told
  BY DEF ChangeMember, Membership
<1>2. state \in {"active", "declined"}
  OBVIOUS
<1> HIDE DEF state
<1>3. /\ member' \in [Humans -> {"none", "invited", "active", "declined"}]
      /\ mail' \in [Humans -> {"none", "pending", "sent", "failed"}]
  BY <1>1, <1>2, LogTypes DEF TypeOK
<1> QED BY <1>1, <1>3, IdleIsRequest, MembersKeep

\* The outcome of an e-mail decides about nobody.
LEMMA NotifyMemberKeeps ==
  ASSUME LogInd, NEW s \in Sessions, NotifyMember(s)
  PROVE  LogInd'
<1> DEFINE e == EntryOf(s)
           outcome == IF tx[s].op = "email_sent" THEN "sent" ELSE "failed"
<1>1. /\ tx[s].op \in {"email_sent", "email_failed"}
      /\ tx[s].held /\ log' = log \cup {e} /\ row' = NoSession /\ UNCHANGED <<friend, host>>
      /\ mail' = [mail EXCEPT ![tx[s].h] = outcome]
      /\ tx' = [tx EXCEPT ![s] = Idle] /\ UNCHANGED <<member, part, told>>
  BY DEF NotifyMember, Publish
<1>2. /\ e \in Entry /\ e.seq = tx[s].seq /\ e.kind = tx[s].op /\ e.key = tx[s].key
  BY <1>1, EntryOfRequest DEF Kinds
<1>3. outcome \in {"sent", "failed"}
  OBVIOUS
<1> HIDE DEF e, outcome
<1>4. /\ e.kind \in {"email_sent", "email_failed"} /\ e.kind # "task_message"
      /\ e.key \notin Keys
  BY <1>1, <1>2, LogAssumption DEF LogAssumption, LogInd, Carries
<1>5. part' = PartIn(log', MaxLog + 1)
  <2>1. PartIn(log \cup {e}, MaxLog + 1) = PartIn(log, MaxLog + 1)
    BY <1>1, <1>2, <1>4, PartOfHolder, PartAfterOther, LogTypes
  <2> QED BY <1>1, <2>1, PartOfHolder
<1>6. /\ part' \in SUBSET Agents
      /\ member' \in [Humans -> {"none", "invited", "active", "declined"}]
      /\ mail' \in [Humans -> {"none", "pending", "sent", "failed"}]
      /\ told' \in SUBSET [by : Agents \cup Humans, key : Keys, body : Bodies]
  BY <1>1, <1>3, LogTypes DEF TypeOK
<1> QED BY <1>1, <1>2, <1>4, <1>5, <1>6, IdleIsRequest, PublishKeeps

\* A message goes to those who take part at the number it drew.
LEMMA SendKeeps ==
  ASSUME LogInd, NEW s \in Sessions, Send(s)
  PROVE  LogInd'
<1> DEFINE q == tx[s]
<1>1. /\ q.op = "task_message" /\ q.held /\ tx' = [tx EXCEPT ![s] = Idle]
      /\ UNCHANGED <<member, mail, part>>
  BY DEF Send
<1>2. /\ q \in Requests /\ q.h = NoHuman /\ q.by \in Agents \cup Humans
      /\ (q.key \in Keys => q.body \in Bodies)
  BY <1>1, LogTypes DEF LogInd, TypeOK, Carries
<1>3. CASE q.key \in Keys /\ Recorded(q.by, q.key) # {}
  <2>1. /\ Replay(q.by, q.key, q.body) /\ row' = NoSession /\ UNCHANGED <<friend, log, host>>
    BY <1>3 DEF Send
  <2>2. /\ told' \in SUBSET [by : Agents \cup Humans, key : Keys, body : Bodies]
        /\ ToldRecorded'
    BY <1>2, <1>3, <2>1, ReplayTells
  <2> QED BY <1>1, <2>1, <2>2, IdleIsRequest, UnheldKeeps
<1>4. CASE ~ (q.key \in Keys /\ Recorded(q.by, q.key) # {})
  <2> DEFINE agents == IF q.by \in Agents THEN Fanout(s) ELSE {}
             e == [EntryOf(s) EXCEPT !.agents = agents]
  <2>1. /\ log' = log \cup {e} /\ row' = NoSession /\ UNCHANGED <<friend, host>>
        /\ told' = IF q.key \in Keys THEN told \cup {Request(q.by, q.key, q.body)} ELSE told
    BY <1>4 DEF Send, Publish
  <2>2. agents \subseteq Agents
    BY LogTypes DEF Fanout, Receives, TypeOK
  <2>3. q.by \in Agents => agents = Receives(part, q.by, q.sender)
    BY DEF Fanout
  <2> HIDE DEF agents
  <2>4. /\ e \in Entry /\ e.seq = q.seq /\ e.kind = "task_message" /\ e.h = NoHuman
        /\ e.agents = agents /\ e.by = q.by /\ e.key = q.key /\ e.body = q.body
        /\ e.sender = q.sender
    <3> DEFINE x == EntryOf(s)
    <3>1. /\ x \in Entry /\ x.seq = q.seq /\ x.kind = q.op /\ x.h = q.h /\ x.by = q.by
          /\ x.key = q.key /\ x.body = q.body /\ x.sender = q.sender
      BY <1>1, EntryOfRequest DEF Kinds
    <3> HIDE DEF x
    <3>2. [x EXCEPT !.agents = agents] \in Entry
      BY <2>2, <3>1 DEF Entry
    <3> QED BY <1>1, <1>2, <3>1, <3>2 DEF Entry, x
  <2> HIDE DEF e
  <2>5. e.key \in Keys => Recorded(e.by, e.key) = {}
    BY <1>4, <2>4
  <2>6. /\ told' \in SUBSET [by : Agents \cup Humans, key : Keys, body : Bodies]
        /\ \A r \in told' : r \in told \/ (e.by = r.by /\ e.key = r.key /\ e.body = r.body)
    BY <1>2, <2>1, <2>4, LogTypes DEF TypeOK, Request
  <2>7. part' = PartIn(log', MaxLog + 1)
    <3>1. PartIn(log \cup {e}, MaxLog + 1) = PartIn(log, MaxLog + 1)
      BY <1>1, <2>4, PartOfHolder, PartAfterOther, LogTypes, LogAssumption DEF LogAssumption
    <3> QED BY <1>1, <2>1, <3>1, PartOfHolder
  <2>8. e.kind = "task_message" /\ e.by \in Agents =>
          e.agents = Receives(PartIn(log, e.seq), e.by, e.sender)
    BY <1>1, <2>3, <2>4, PartOfHolder
  <2>9. /\ part' \in SUBSET Agents
        /\ member' \in [Humans -> {"none", "invited", "active", "declined"}]
        /\ mail' \in [Humans -> {"none", "pending", "sent", "failed"}]
    BY <1>1, LogTypes DEF TypeOK
  <2> QED BY <1>1, <2>1, <2>4, <2>5, <2>6, <2>7, <2>8, <2>9, IdleIsRequest, PublishKeeps
<1> QED BY <1>3, <1>4

-----------------------------------------------------------------------------
(* The hosts.                                                              *)

Hosts == [saved : Seqs, from : Seqs, done : SUBSET Seqs, items : SUBSET Seqs, next : Seqs]

\* What a host holds at a log, for one record of it.
HostOK(x) ==
  /\ x.saved <= Last /\ x.next <= Last
  /\ \A e \in log :
       (IF x.saved > 0 THEN x.saved ELSE x.from) < e.seq /\ e.seq <= x.next =>
         e.seq \in x.done \cup x.items
  /\ \A e \in log : x.from < e.seq /\ e.seq <= x.saved => e.seq \in x.done

LEMMA HostKeeps ==
  ASSUME LogInd, NEW r \in Readers, NEW x \in Hosts, host' = [host EXCEPT ![r] = x],
         HostOK(x), unchangedServer
  PROVE  LogInd'
<1>1. UNCHANGED <<friend, member, mail, part, log, row, tx, told>>
  BY DEF unchangedServer
<1>2. host \in [Readers -> Hosts]
  BY LogTypes DEF TypeOK, Hosts
<1>3. host' \in [Readers -> Hosts] /\ host'[r] = x /\ \A y \in Readers \ {r} : host'[y] = host[y]
  BY <1>2
<1>4. TypeOK'
  BY <1>1, <1>3, LogTypes DEF TypeOK, Hosts
<1>5. Last' = Last
  BY <1>1 DEF Last
<1>6. Ordered' /\ RowHolder' /\ KeysOnce' /\ ToldRecorded'
  BY <1>1, <1>5 DEF LogInd, Ordered, RowHolder, KeysOnce, ToldRecorded
<1>7. \A s \in Sessions : Carries(tx[s])'
  BY <1>1 DEF LogInd, Carries
<1>8. \A y \in Readers : Follows(y)'
  <2> SUFFICES ASSUME NEW y \in Readers PROVE Follows(y)'
    OBVIOUS
  <2>1. CASE y = r
    BY <1>1, <1>3, <1>5, <2>1 DEF Follows, Position, HostOK
  <2>2. CASE y # r
    BY <1>1, <1>3, <1>5, <2>2 DEF LogInd, Follows, Position
  <2> QED BY <2>1, <2>2
<1>9. LogExplains'
  BY <1>1, LogExplainsIn, LogExplainsInPrime DEF LogInd
<1> QED BY <1>4, <1>6, <1>7, <1>8, <1>9 DEF LogInd

LEMMA HostHolds ==
  ASSUME LogInd, NEW r \in Readers
  PROVE  /\ host[r] \in Hosts /\ HostOK(host[r])
         /\ host[r].saved \in Nat /\ host[r].from \in Nat /\ host[r].next \in Nat
<1>1. host[r] \in Hosts
  BY LogTypes DEF TypeOK, Hosts
<1>2. HostOK(host[r])
  BY DEF LogInd, Follows, Position, HostOK
<1> QED BY <1>1, <1>2 DEF Hosts, Seqs

\* The numbers after n are those from n + 1 to the last one.
LEMMA AfterIsInterval ==
  ASSUME LogInd, NEW n \in Nat
  PROVE  After(n) = (n + 1)..Last
<1>1. \A k \in After(n) : k \in (n + 1)..Last
  BY LogTypes DEF After
<1>2. ASSUME NEW k \in (n + 1)..Last PROVE k \in After(n)
  <2>1. k \in 1..Last /\ k > n
    BY LogTypes
  <2>2. PICK e \in log : e.seq = k
    BY <2>1 DEF LogInd, Ordered
  <2> QED BY <2>1, <2>2 DEF After
<1> QED BY <1>1, <1>2

\* A page has no gap: what lies after the position and before an entry of the
\* page is in the page.
LEMMA PageHasNoGap ==
  ASSUME LogInd, NEW n \in Nat
  PROVE  /\ PageAfter(n) \subseteq (n + 1)..Last
         /\ \A m \in PageAfter(n) : \A k \in (n + 1)..m : k \in PageAfter(n)
<1>1. After(n) = (n + 1)..Last /\ Last \in Nat
  BY AfterIsInterval, LogTypes
<1>2. \A m \in After(n) : {k \in After(n) : k < m} = (n + 1)..(m - 1)
  BY <1>1
<1>3. \A m \in After(n) : Cardinality((n + 1)..(m - 1)) = m - n - 1
  <2> SUFFICES ASSUME NEW m \in After(n) PROVE Cardinality((n + 1)..(m - 1)) = m - n - 1
    OBVIOUS
  <2>1. n + 1 \in Int /\ m - 1 \in Int /\ m \in Int /\ m >= n + 1
    BY <1>1
  <2>2. Cardinality((n + 1)..(m - 1)) =
          IF n + 1 > m - 1 THEN 0 ELSE (m - 1) - (n + 1) + 1
    BY <2>1, FS_Interval
  <2> QED BY <2>1, <2>2
<1>4. \A m : m \in PageAfter(n) <=> m \in After(n) /\ m - n - 1 < PageSize
  BY <1>2, <1>3 DEF PageAfter
<1>5. PageSize \in Nat
  BY LogAssumption DEF LogAssumption
<1> QED BY <1>1, <1>4, <1>5

\* More than a page of history is left aside up to where a page remains.
LEMMA BriefKeeps ==
  ASSUME LogInd, NEW r \in Readers, Brief(r)
  PROVE  LogInd'
<1> DEFINE S == {n \in Seqs : Cardinality(After(n)) = PageSize}
           x == [host[r] EXCEPT !.from = Max(S)]
<1>1. /\ host[r].saved = 0 /\ host[r].next = 0 /\ Last > PageSize
      /\ host' = [host EXCEPT ![r] = x] /\ unchangedServer
  BY DEF Brief
<1>2. Max(S) \in Seqs
  <2>1. PageSize \in Nat /\ PageSize # 0 /\ Last \in Nat /\ Last <= MaxLog /\ MaxLog \in Nat
    BY LogAssumption, LogTypes DEF LogAssumption, Seqs
  <2>2. Last - PageSize \in Nat /\ Last - PageSize \in Seqs
    BY <1>1, <2>1 DEF Seqs
  <2>3. After(Last - PageSize) = (Last - PageSize + 1)..Last
    BY <2>2, AfterIsInterval
  <2>4. /\ Last - PageSize + 1 \in Int /\ Last \in Int /\ ~ (Last - PageSize + 1 > Last)
        /\ Last - (Last - PageSize + 1) + 1 = PageSize
    BY <2>1
  <2>5. Cardinality((Last - PageSize + 1)..Last) = PageSize
    BY <2>4, FS_Interval
  <2>6. S # {} /\ S \in SUBSET Nat /\ S \subseteq Seqs /\ \A n \in S : n <= MaxLog
    BY <2>2, <2>3, <2>5 DEF Seqs
  <2> HIDE DEF S
  <2> QED BY <2>1, <2>6, MaxIsGreatest
<1> HIDE DEF S
<1>3. host[r] \in Hosts /\ host[r].saved \in Nat
  BY HostHolds
<1>4. x \in Hosts
  BY <1>2, <1>3 DEF Hosts
<1>5. HostOK(x)
  <2>1. x.saved = 0 /\ x.next = 0
    BY <1>1, <1>3 DEF Hosts
  <2>2. \A e \in log : ~ (e.seq <= 0)
    BY LogTypes DEF LogInd, Ordered
  <2> QED BY <2>1, <2>2, LogTypes DEF HostOK
<1> HIDE DEF x
<1> QED BY <1>1, <1>4, <1>5, HostKeeps

LEMMA FetchKeeps ==
  ASSUME LogInd, NEW r \in Readers, Fetch(r)
  PROVE  LogInd'
<1> DEFINE n == Position(r)
           page == PageAfter(n)
           x == [host[r] EXCEPT !.items = page, !.next = Max(page)]
<1>1. page # {} /\ host' = [host EXCEPT ![r] = x] /\ unchangedServer
  BY DEF Fetch
<1>2. /\ host[r] \in Hosts /\ HostOK(host[r]) /\ n \in Nat
      /\ n = IF host[r].saved > 0 THEN host[r].saved ELSE host[r].from
  BY HostHolds DEF Position
<1> HIDE DEF n
<1>3. /\ page \subseteq (n + 1)..Last
      /\ \A m \in page : \A k \in (n + 1)..m : k \in page
  BY <1>2, PageHasNoGap
<1> HIDE DEF page
<1>4. page \in SUBSET Nat /\ page \subseteq Seqs /\ \A m \in page : m <= Last
  BY <1>2, <1>3, LogTypes DEF Seqs
<1>5. Max(page) \in page /\ Max(page) \in Seqs
  BY <1>1, <1>4, MaxIsGreatest, LogTypes
<1>6. x \in Hosts
  BY <1>2, <1>4, <1>5 DEF Hosts
<1>7. /\ x.saved = host[r].saved /\ x.from = host[r].from /\ x.done = host[r].done
      /\ x.items = page /\ x.next = Max(page)
  BY <1>2 DEF Hosts
<1>8. \A e \in log : n < e.seq /\ e.seq <= Max(page) => e.seq \in page
  <2> SUFFICES ASSUME NEW e \in log, n < e.seq, e.seq <= Max(page) PROVE e.seq \in page
    OBVIOUS
  <2>1. Max(page) \in Nat /\ e.seq \in Nat
    BY <1>4, <1>5, LogTypes
  <2>2. e.seq \in (n + 1)..Max(page)
    BY <1>2, <2>1
  <2> QED BY <1>3, <1>5, <2>2
<1> HIDE DEF x
<1>9. HostOK(x)
  <2>1. x.saved <= Last /\ x.next <= Last
    BY <1>2, <1>4, <1>5, <1>7 DEF HostOK
  <2>2. \A e \in log :
          (IF x.saved > 0 THEN x.saved ELSE x.from) < e.seq /\ e.seq <= x.next =>
            e.seq \in x.done \cup x.items
    BY <1>2, <1>7, <1>8
  <2>3. \A e \in log : x.from < e.seq /\ e.seq <= x.saved => e.seq \in x.done
    BY <1>2, <1>7 DEF HostOK
  <2> QED BY <2>1, <2>2, <2>3 DEF HostOK
<1> QED BY <1>1, <1>6, <1>9, HostKeeps

LEMMA ConsumeKeeps ==
  ASSUME LogInd, NEW r \in Readers, Consume(r)
  PROVE  LogInd'
<1> DEFINE n == Min(host[r].items)
           x == [host[r] EXCEPT !.items = @ \ {n}, !.done = @ \cup {n}]
<1>1. host[r].items # {} /\ host' = [host EXCEPT ![r] = x] /\ unchangedServer
  BY DEF Consume
<1>2. host[r] \in Hosts /\ HostOK(host[r])
  BY HostHolds
<1>3. n \in Seqs
  <2>1. host[r].items \subseteq Seqs /\ host[r].items \in SUBSET Nat
    BY <1>2 DEF Hosts, Seqs
  <2> QED BY <1>1, <2>1, MinIsLeast
<1> HIDE DEF n
<1>4. x \in Hosts
  BY <1>2, <1>3 DEF Hosts
<1>5. /\ x.saved = host[r].saved /\ x.from = host[r].from /\ x.next = host[r].next
      /\ x.items = host[r].items \ {n} /\ x.done = host[r].done \cup {n}
  BY <1>2 DEF Hosts
<1> HIDE DEF x
<1>6. HostOK(x)
  BY <1>2, <1>5 DEF HostOK
<1> QED BY <1>1, <1>4, <1>6, HostKeeps

\* The saved cursor covers what the old one did and the page, all consumed.
LEMMA SaveCursorKeeps ==
  ASSUME LogInd, NEW r \in Readers, SaveCursor(r)
  PROVE  LogInd'
<1> DEFINE x == [host[r] EXCEPT !.saved = host[r].next, !.next = 0]
<1>1. /\ host[r].next # 0 /\ host[r].items = {}
      /\ host' = [host EXCEPT ![r] = x] /\ unchangedServer
  BY DEF SaveCursor, PageConsumed
<1>2. /\ host[r] \in Hosts /\ HostOK(host[r])
      /\ host[r].saved \in Nat /\ host[r].from \in Nat /\ host[r].next \in Nat
  BY HostHolds
<1>3. 0 \in Seqs /\ \A e \in log : e.seq \in Nat /\ e.seq # 0
  BY LogTypes DEF LogInd, Ordered, Seqs
<1>4. x \in Hosts
  BY <1>2, <1>3 DEF Hosts
<1>5. /\ x.saved = host[r].next /\ x.from = host[r].from /\ x.next = 0
      /\ x.done = host[r].done
  BY <1>2 DEF Hosts
<1> HIDE DEF x
<1>6. HostOK(x)
  <2>1. x.saved <= Last /\ x.next <= Last
    BY <1>2, <1>5, LogTypes DEF HostOK
  <2>2. \A e \in log : ~ (e.seq <= x.next)
    BY <1>3, <1>5
  <2>3. ASSUME NEW e \in log, x.from < e.seq, e.seq <= x.saved
        PROVE  e.seq \in x.done
    <3>1. CASE e.seq <= host[r].saved
      BY <1>2, <1>5, <2>3, <3>1 DEF HostOK
    <3>2. CASE host[r].saved < e.seq
      BY <1>1, <1>2, <1>5, <2>3, <3>2 DEF HostOK
    <3> QED BY <1>2, <1>3, <3>1, <3>2
  <2> QED BY <2>1, <2>2, <2>3 DEF HostOK
<1> QED BY <1>1, <1>4, <1>6, HostKeeps

LEMMA CrashKeeps ==
  ASSUME LogInd, NEW r \in Readers, Crash(r)
  PROVE  LogInd'
<1> DEFINE from == IF host[r].saved = 0 THEN 0 ELSE host[r].from
           x == [host[r] EXCEPT !.items = {}, !.next = 0, !.from = from]
<1>1. host' = [host EXCEPT ![r] = x] /\ unchangedServer
  BY DEF Crash
<1>2. host[r] \in Hosts /\ HostOK(host[r]) /\ host[r].saved \in Nat
  BY HostHolds
<1>3. 0 \in Seqs /\ \A e \in log : e.seq \in Nat /\ e.seq # 0
  BY LogTypes DEF LogInd, Ordered, Seqs
<1>4. from \in Seqs /\ (host[r].saved # 0 => from = host[r].from)
  BY <1>2, <1>3 DEF Hosts
<1> HIDE DEF from
<1>5. x \in Hosts
  BY <1>2, <1>3, <1>4 DEF Hosts
<1>6. /\ x.saved = host[r].saved /\ x.from = from /\ x.next = 0 /\ x.done = host[r].done
  BY <1>2 DEF Hosts
<1> HIDE DEF x
<1>7. HostOK(x)
  BY <1>2, <1>3, <1>4, <1>6, LogTypes DEF HostOK
<1> QED BY <1>1, <1>5, <1>7, HostKeeps

-----------------------------------------------------------------------------
LEMMA InitInd == Init => LogInd
<1> SUFFICES ASSUME Init PROVE LogInd
  OBVIOUS
<1> DEFINE e == [seq |-> 1, kind |-> "created", h |-> Founder, agents |-> part,
                 by |-> Founder, key |-> NoKey, body |-> NoBody, sender |-> NoAgent]
<1>1. log = {e} /\ part \subseteq AgentsOf(Founder) /\ row = NoSession /\ told = {}
  BY DEF Init
<1>2. /\ 0 \in Seqs /\ 1 \in Seqs /\ MaxLog \in Nat /\ 1 < MaxLog + 1
      /\ Founder \in Humans /\ NoKey \notin Keys /\ part \subseteq Agents
  BY <1>1, LogAssumption DEF LogAssumption, Seqs, AgentsOf
<1>3. /\ e \in Entry /\ e.seq = 1 /\ e.key = NoKey /\ e.kind = "created" /\ e.h = Founder
      /\ e.agents = part
  BY <1>2 DEF Entry, Kinds
<1> HIDE DEF e
<1>4. Last = 1
  <2>1. Last = LastOf(log) /\ log \in SUBSET Entry /\ log # {}
    BY <1>1, <1>3 DEF Last, LastOf
  <2>2. \E f \in log : f.seq = LastOf(log)
    BY <2>1, LastIsGreatest
  <2> QED BY <1>1, <1>3, <2>1, <2>2
<1>5. TypeOK
  BY <1>1, <1>2, <1>3, IdleIsRequest DEF Init, TypeOK, NotFriends, FriendStatuses
<1>6. Ordered
  BY <1>1, <1>3, <1>4 DEF Ordered
<1>7. tx = [s \in Sessions |-> Idle]
  BY DEF Init
<1>8. RowHolder /\ \A s \in Sessions : Carries(tx[s])
  BY <1>7, IdleIsRequest DEF RowHolder
<1>9. KeysOnce /\ ToldRecorded
  BY <1>1 DEF KeysOnce, ToldRecorded
<1>10. \A r \in Readers : Follows(r)
  BY <1>1, <1>3, <1>4 DEF Init, Follows, Position
<1>11. LogExplains
  <2>1. part = PartIn(log, MaxLog + 1)
    <3>1. \A a \in Agents : Decides(e, HumanOf[a]) <=> HumanOf[a] = Founder
      BY <1>3 DEF Decides
    <3>2. \A a \in part : a \in Agents /\ HumanOf[a] = Founder
      BY <1>1 DEF AgentsOf
    <3>3. \A a \in Agents : a \in PartIn(log, MaxLog + 1) <=> a \in part
      BY <1>1, <1>2, <1>3, <3>1, <3>2 DEF PartIn
    <3> QED BY <1>2, <3>3 DEF PartIn
  <2>2. \A f \in log : f.kind # "task_message"
    BY <1>1, <1>3
  <2> QED BY <2>1, <2>2, LogExplainsIn
<1> QED BY <1>5, <1>6, <1>8, <1>9, <1>10, <1>11 DEF LogInd

LEMMA NextKeeps ==
  ASSUME LogInd, [Next]_vars
  PROVE  LogInd'
<1>1. CASE \E h \in Others :
             \/ \E x \in {h, Founder} :
                  \/ RequestFriendship(h, x)
                  \/ \E accept \in BOOLEAN : DecideFriendship(h, x, accept)
             \/ RemoveFriendship(h)
  BY <1>1, FriendshipKeeps
<1>2. CASE \E s \in Sessions : \E h \in Humans :
             \/ \E a \in Agents : InviteBegin(s, h, a)
             \/ \E agents \in SUBSET Agents :
                  SelectBegin(s, h, agents) \/ AnswerBegin(s, h, agents)
             \/ LeaveBegin(s, h)
             \/ \E k \in Keys, b \in Bodies : HumanSendBegin(s, h, k, b)
  BY <1>2, BeginKeeps
<1>3. CASE \E s \in Sessions :
             \/ \E outcome \in {"email_sent", "email_failed"} : MailBegin(s, outcome)
             \/ \E a \in Agents :
                  \/ \E k \in Keys, b \in Bodies : SendLook(s, a, k, b)
                  \/ \E parent \in log : ReplyLook(s, a, parent)
  BY <1>3, MailBeginKeeps, SendLookKeeps, ReplyLookKeeps
<1>4. CASE \E s \in Sessions :
             \/ Invite(s) \/ NotifyMember(s) \/ ChangeMember(s)
             \/ SendHold(s) \/ Send(s) \/ Abort(s)
  BY <1>4, InviteKeeps, NotifyMemberKeeps, ChangeMemberKeeps, SendHoldKeeps, SendKeeps,
     AbortKeeps
<1>5. CASE \E r \in Readers :
             Brief(r) \/ Fetch(r) \/ Consume(r) \/ SaveCursor(r) \/ Crash(r)
  BY <1>5, BriefKeeps, FetchKeeps, ConsumeKeeps, SaveCursorKeeps, CrashKeeps
<1>6. CASE UNCHANGED vars
  <2>1. UNCHANGED <<friend, member, mail, part, log, row, tx, told, host>>
    BY <1>6 DEF vars
  <2>2. TypeOK'
    BY <2>1, LogTypes DEF TypeOK
  <2>3. RowHolder' /\ ToldRecorded' /\ \A s \in Sessions : Carries(tx'[s])
    BY <2>1 DEF LogInd, RowHolder, ToldRecorded, Last
  <2> QED BY <2>1, <2>2, <2>3, RestStays
<1> QED BY <1>1, <1>2, <1>3, <1>4, <1>5, <1>6 DEF Next

\* The log of a Task is ordered without gaps and its writers follow one
\* another, for any number of Humans, Agents, requests, keys and hosts.
THEOREM LogInvariant == Spec => []LogInd
<1>1. Init => LogInd
  BY InitInd
<1>2. LogInd /\ [Next]_vars => LogInd'
  BY NextKeeps
<1> QED BY <1>1, <1>2, PTL DEF Spec

\* A host of TaskPoller that resumes from its saved cursor has consumed every
\* entry up to it: no publication commits behind a cursor, and no crash between
\* consuming and saving loses one.
THEOREM HostsSkipNothing == Spec => []NothingSkipped
<1>1. LogInd => NothingSkipped
  BY DEF LogInd, Follows, NothingSkipped
<1> QED BY <1>1, LogInvariant, PTL

\* Replaying the membership entries gives the active participants, and a
\* message went to exactly those who took part when it was published.
THEOREM LogExplainsTheTask == Spec => []LogExplains
<1>1. LogInd => LogExplains
  BY DEF LogInd
<1> QED BY <1>1, LogInvariant, PTL

\* A message request that was answered is in the log once, with its content,
\* however often and concurrently it was retried with its key.
THEOREM AnswersAreRecordedOnce == Spec => []AnsweredOnce
<1>1. LogInd => AnsweredOnce
  <2> SUFFICES ASSUME LogInd, NEW q \in told
               PROVE  /\ Cardinality(Recorded(q.by, q.key)) = 1
                      /\ \A e \in Recorded(q.by, q.key) : e.body = q.body
    BY DEF AnsweredOnce
  <2>1. q.key \in Keys
    BY LogTypes DEF TypeOK
  <2>2. PICK e \in log : e.by = q.by /\ e.key = q.key /\ e.body = q.body
    BY DEF LogInd, ToldRecorded
  <2>3. Recorded(q.by, q.key) = {e}
    BY <2>1, <2>2 DEF LogInd, KeysOnce, Recorded
  <2> QED BY <2>2, <2>3, FS_Singleton
<1> QED BY <1>1, LogInvariant, PTL
=============================================================================

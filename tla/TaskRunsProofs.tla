--------------------------- MODULE TaskRunsProofs ---------------------------
(***************************************************************************)
(* Proofs about TaskRuns for every value of its constants: the types; that  *)
(* an assignment never has two attempts that can run; and, where commits    *)
(* are prompt, that assignments and attempts go together, settled work      *)
(* stays as it is, and what is shown can be done.                          *)
(***************************************************************************)
EXTENDS TaskViews, WellFoundedInduction, TLAPS

LEMMA RunsAreAttempts ==
    /\ \A r \in Runs : r[1] \in Assignments /\ r[2] \in Attempts /\ r = <<r[1], r[2]>>
    /\ \A a \in Assignments, n \in Attempts : <<a, n>> \in Runs
    /\ \A n \in Attempts : n \in Nat
BY ConstantsAssumption DEF Runs, Attempts

\* What the program counter of a transaction says about its fields.
LEMMA TxFields ==
    ASSUME NEW t \in TxStates
    PROVE  /\ t.pc \in {"poll_read", "poll_checked"} <=> t \in PollTx
           /\ t.pc = "result_loaded" <=> t \in LoadTx
           /\ t.pc = "run_locked" <=> t \in ReportTx
           /\ t.pc = "task_locked" <=> t \in SelectTx
           /\ t.pc = "idle" <=> t = Idle
<1>1. Idle.pc = "idle"
  BY DEF Idle
<1>2. \A u \in PollTx : u.pc \in {"poll_read", "poll_checked"}
  BY DEF PollTx
<1>3. \A u \in LoadTx : u.pc = "result_loaded"
  BY DEF LoadTx
<1>4. \A u \in ReportTx : u.pc = "run_locked"
  BY DEF ReportTx
<1>5. \A u \in SelectTx : u.pc = "task_locked"
  BY DEF SelectTx
<1>6. t = Idle \/ t \in PollTx \/ t \in LoadTx \/ t \in ReportTx \/ t \in SelectTx
  BY DEF TxStates
<1> QED BY <1>1, <1>2, <1>3, <1>4, <1>5, <1>6

LEMMA PollFields ==
    ASSUME NEW t \in PollTx
    PROVE  /\ t.agent \in Agents
           /\ t.expired \in SUBSET Runs
           /\ t.requeue \in SUBSET Runs
BY DEF PollTx

LEMMA LoadFields ==
    ASSUME NEW t \in LoadTx
    PROVE  t.run \in Runs /\ t.to \in Outcomes /\ t.status \in RunStatuses /\ t.lease \in LeaseStates
BY DEF LoadTx

LEMMA ReportFields ==
    ASSUME NEW t \in ReportTx
    PROVE  /\ t.run \in Runs
           /\ t.result \in BOOLEAN
           /\ t.result => t.to \in Outcomes
           /\ ~t.result => t.to \in Progress
           /\ t.seen \in WorkStatuses
BY DEF ReportTx

LEMMA SelectFields ==
    ASSUME NEW t \in SelectTx
    PROVE  t.chosen \in SUBSET Agents /\ t.works \in SUBSET Assignments /\ t.runs \in SUBSET Runs
BY DEF SelectTx

LEMMA InitTypeOK == Init => TypeOK
<1> SUFFICES ASSUME Init PROVE TypeOK
  OBVIOUS
<1>1. PICK f \in NewWork(InitialAgents, NoWork) :
        /\ work = QueuedWork(f, NoWork)
        /\ assignee = NewAssignees(f, NoAssignee)
        /\ run = QueuedRuns(f, NoRuns)
  BY DEF Init
<1>2. work \in [Assignments -> WorkStatuses]
  BY <1>1 DEF QueuedWork, NoWork, WorkStatuses
<1>3. run \in [Runs -> RunStatuses]
  BY <1>1 DEF QueuedRuns, NoRuns, RunStatuses, Open
<1>4. f \in [InitialAgents -> Assignments]
  BY DEF NewWork
<1>5. assignee \in [Assignments -> Agents]
  <2>1. (CHOOSE g \in InitialAgents : TRUE) \in Agents
    BY ConstantsAssumption
  <2>2. \A a \in AddedTo(f) : (CHOOSE g \in DOMAIN f : f[g] = a) \in Agents
    BY <1>4, ConstantsAssumption DEF AddedTo
  <2> QED BY <1>1, <2>1, <2>2 DEF NewAssignees, NoAssignee
<1>6. results \in [Runs -> 0..MaxResults]
  BY ConstantsAssumption DEF Init
<1>7. tx \in [Sessions -> TxStates]
  BY DEF Init, TxStates
<1> QED BY <1>2, <1>3, <1>5, <1>6, <1>7, ConstantsAssumption
         DEF Init, TypeOK, TaskStatuses, LeaseStates

-----------------------------------------------------------------------------
(* The types are preserved, by each kind of step. *)

LEMMA QueueTypes ==
    ASSUME NEW gs \in SUBSET Agents,
           NEW w \in [Assignments -> WorkStatuses],
           NEW rs \in [Runs -> RunStatuses],
           NEW as \in [Assignments -> Agents],
           NEW wk \in [Assignments -> WorkStatuses],
           NEW f \in NewWork(gs, wk)
    PROVE  /\ QueuedWork(f, w) \in [Assignments -> WorkStatuses]
           /\ QueuedRuns(f, rs) \in [Runs -> RunStatuses]
           /\ NewAssignees(f, as) \in [Assignments -> Agents]
<1>1. QueuedWork(f, w) \in [Assignments -> WorkStatuses]
  BY DEF QueuedWork, WorkStatuses
<1>2. QueuedRuns(f, rs) \in [Runs -> RunStatuses]
  BY DEF QueuedRuns, RunStatuses, Open
<1>3. f \in [gs -> Assignments]
  BY DEF NewWork
<1>4. \A a \in AddedTo(f) : (CHOOSE g \in DOMAIN f : f[g] = a) \in Agents
  BY <1>3 DEF AddedTo
<1>5. NewAssignees(f, as) \in [Assignments -> Agents]
  BY <1>4 DEF NewAssignees
<1> QED BY <1>1, <1>2, <1>5

LEMMA ReportStatuses ==
    /\ Progress \union Outcomes \subseteq RunStatuses
    /\ Outcomes \subseteq WorkStatuses
    /\ Outcomes \subseteq Closed
    /\ Progress \subseteq Leased \union {"waiting_human"}
BY ConstantsAssumption DEF RunStatuses, Open, Leased, Closed, WorkStatuses

LEMMA PollTypeOK ==
    ASSUME TypeOK, NEW s \in Sessions, Poll(s)
    PROVE  TypeOK'
<1>1. CASE \E g \in Agents : PollRead(s, g)
  <2>1. PICK g \in Agents : PollRead(s, g)
    BY <1>1
  <2> DEFINE t == [pc |-> "poll_read", agent |-> g, expired |-> ExpiredRuns(g), requeue |-> {}]
  <2>2. t \in TxStates
    BY DEF TxStates, PollTx, ExpiredRuns
  <2>3. tx' \in [Sessions -> TxStates]
    BY <2>1, <2>2 DEF PollRead, TypeOK
  <2> QED BY <2>1, <2>3 DEF PollRead, TypeOK
<1>2. CASE PollCheck(s)
  <2> DEFINE t == [tx[s] EXCEPT !.pc = "poll_checked",
                                !.requeue = {r \in tx[s].expired : NeedsSuccessor(r)}]
  <2>1. tx[s] \in TxStates
    BY DEF TypeOK
  <2>2. tx[s] \in PollTx
    BY <1>2, <2>1, TxFields DEF PollCheck
  <2>3. t \in PollTx
    BY <2>2 DEF PollTx
  <2>4. tx' = [tx EXCEPT ![s] = t]
    BY <1>2 DEF PollCheck
  <2>5. tx' \in [Sessions -> TxStates]
    BY <2>3, <2>4 DEF TypeOK, TxStates
  <2> QED BY <1>2, <2>5 DEF PollCheck, TypeOK
<1>3. Requeued(tx[s]) \in [Runs -> RunStatuses]
  BY DEF Requeued, TypeOK, RunStatuses, Open, Closed
<1>4. [tx EXCEPT ![s] = Idle] \in [Sessions -> TxStates]
  BY DEF TypeOK, TxStates
<1>5. CASE Claim(s)
  <2>1. PICK q \in Runs :
          /\ run' = [Requeued(tx[s]) EXCEPT ![q] = "leased"]
          /\ lease' = [lease EXCEPT ![q] = "live"]
          /\ work' = [work EXCEPT ![q[1]] = "running"]
    BY <1>5 DEF Claim
  <2>2. run' \in [Runs -> RunStatuses]
    BY <1>3, <2>1 DEF RunStatuses, Open, Leased
  <2>3. lease' \in [Runs -> LeaseStates] /\ work' \in [Assignments -> WorkStatuses]
    BY <2>1 DEF TypeOK, LeaseStates, WorkStatuses
  <2> QED BY <1>4, <1>5, <2>2, <2>3 DEF Claim, TypeOK
<1>6. CASE PollOnly(s)
  BY <1>3, <1>4, <1>6 DEF PollOnly, TypeOK
<1> QED BY <1>1, <1>2, <1>5, <1>6 DEF Poll

LEMMA ReportTypeOK ==
    ASSUME TypeOK, NEW s \in Sessions, Report(s)
    PROVE  TypeOK'
<1>1. tx[s] \in TxStates
  BY DEF TypeOK
<1>2. ASSUME NEW r \in Runs, NEW to, NEW b \in BOOLEAN,
             b => to \in Outcomes, ~b => to \in Progress
      PROVE  [tx EXCEPT ![s] = [pc |-> "run_locked", run |-> r, to |-> to,
                                result |-> b, seen |-> work[r[1]]]]
             \in [Sessions -> TxStates]
  <2>1. work[r[1]] \in WorkStatuses
    BY RunsAreAttempts DEF TypeOK
  <2>2. [pc |-> "run_locked", run |-> r, to |-> to, result |-> b, seen |-> work[r[1]]]
           \in ReportTx
    BY <1>2, <2>1 DEF ReportTx
  <2> QED BY <2>2 DEF TypeOK, TxStates
<1>3. CASE \E r \in Runs, to \in Progress : UpdateLock(s, r, to)
  <2>1. PICK r \in Runs, to \in Progress : UpdateLock(s, r, to)
    BY <1>3
  <2>2. tx' \in [Sessions -> TxStates]
    BY <1>2, <2>1 DEF UpdateLock
  <2> QED BY <2>1, <2>2 DEF UpdateLock, TypeOK
<1>4. CASE \E r \in Runs, to \in Outcomes : ResultLock(s, r, to)
  <2>1. PICK r \in Runs, to \in Outcomes : ResultLock(s, r, to)
    BY <1>4
  <2>2. tx' \in [Sessions -> TxStates]
    BY <1>2, <2>1 DEF ResultLock
  <2> QED BY <2>1, <2>2 DEF ResultLock, TypeOK
<1>5. CASE ResultLockLoaded(s)
  <2>1. tx[s].run \in Runs /\ tx[s].to \in Outcomes
    BY <1>1, <1>5, TxFields, LoadFields DEF ResultLockLoaded
  <2>2. tx' \in [Sessions -> TxStates]
    BY <1>2, <1>5, <2>1 DEF ResultLockLoaded
  <2> QED BY <1>5, <2>2 DEF ResultLockLoaded, TypeOK
<1>6. CASE \E r \in Runs, to \in Outcomes : ResultLoad(s, r, to)
  <2>1. PICK r \in Runs, to \in Outcomes : ResultLoad(s, r, to)
    BY <1>6
  <2>2. [pc |-> "result_loaded", run |-> r, to |-> to, status |-> run[r], lease |-> lease[r]]
           \in LoadTx
    BY DEF LoadTx, TypeOK
  <2>3. tx' \in [Sessions -> TxStates]
    BY <2>1, <2>2 DEF ResultLoad, TypeOK, TxStates
  <2> QED BY <2>1, <2>3 DEF ResultLoad, TypeOK
<1>7. [tx EXCEPT ![s] = Idle] \in [Sessions -> TxStates]
  BY DEF TypeOK, TxStates
<1>8. ASSUME tx[s].pc = "run_locked"
      PROVE  /\ tx[s].run \in Runs /\ tx[s].run[1] \in Assignments
             /\ tx[s].to \in RunStatuses
  BY <1>1, <1>8, TxFields, ReportFields, ReportStatuses, RunsAreAttempts
<1>9. CASE UpdateCommit(s)
  <2>1. WorkStatus(tx[s].to) \in WorkStatuses
    BY DEF WorkStatus, WorkStatuses
  <2>2. run' \in [Runs -> RunStatuses] /\ lease' \in [Runs -> LeaseStates]
    BY <1>8, <1>9 DEF UpdateCommit, TypeOK, LeaseStates
  <2>3. work' \in [Assignments -> WorkStatuses]
    BY <1>8, <1>9, <2>1 DEF UpdateCommit, TypeOK
  <2> QED BY <1>7, <1>9, <2>2, <2>3 DEF UpdateCommit, TypeOK
<1>10. CASE ResultCommit(s)
  <2>1. run' \in [Runs -> RunStatuses] /\ lease' \in [Runs -> LeaseStates]
    BY <1>8, <1>10 DEF ResultCommit, TypeOK, LeaseStates
  <2>2. results' \in [Runs -> 0..MaxResults]
    BY <1>8, <1>10, ConstantsAssumption DEF ResultCommit, TypeOK
  <2>3. tx[s].to \in WorkStatuses
    BY <1>1, <1>10, TxFields, ReportFields, ReportStatuses DEF ResultCommit
  <2> QED BY <1>7, <1>10, <2>1, <2>2, <2>3 DEF ResultCommit, TypeOK
<1> QED BY <1>3, <1>4, <1>5, <1>6, <1>9, <1>10 DEF Report

LEMMA SelectTypeOK ==
    ASSUME TypeOK, NEW s \in Sessions, Select(s)
    PROVE  TypeOK'
<1>1. ASSUME NEW after \in SUBSET Agents, NEW gs, LockAndRead(s, after, gs)
      PROVE  TypeOK'
  <2> DEFINE t == [pc |-> "task_locked", chosen |-> after, works |-> OpenWorkOf(gs),
                   runs |-> {r \in Runs : r[1] \in OpenWorkOf(gs) /\ run[r] \in Open}]
  <2>1. t \in SelectTx
    BY DEF SelectTx, OpenWorkOf
  <2>2. tx' \in [Sessions -> TxStates]
    BY <1>1, <2>1 DEF LockAndRead, TypeOK, TxStates
  <2> QED BY <1>1, <2>2 DEF LockAndRead, TypeOK
<1>2. ASSUME NEW h, NEW chosen \in SUBSET AgentsOf(h), SelectRead(s, h, chosen)
      PROVE  TypeOK'
  <2>1. (participants \ AgentsOf(h)) \union chosen \in SUBSET Agents
    BY DEF TypeOK, AgentsOf
  <2> QED BY <1>1, <1>2, <2>1 DEF SelectRead
<1>3. ASSUME NEW h, LeaveRead(s, h)
      PROVE  TypeOK'
  <2>1. participants \ AgentsOf(h) \in SUBSET Agents
    BY DEF TypeOK
  <2> QED BY <1>1, <1>3, <2>1 DEF LeaveRead
<1>4. CASE SelectCommit(s)
  <2> DEFINE t == tx[s]
             w == [a \in Assignments |-> IF a \in t.works THEN "cancelled" ELSE work[a]]
             rs == [r \in Runs |-> IF r \in t.runs THEN "cancelled" ELSE run[r]]
  <2>1. t.chosen \in SUBSET Agents
    BY <1>4, TxFields, SelectFields DEF SelectCommit, TypeOK
  <2>2. w \in [Assignments -> WorkStatuses] /\ rs \in [Runs -> RunStatuses]
    BY DEF TypeOK, WorkStatuses, RunStatuses, Closed
  <2>3. PICK f \in NewWork(t.chosen \ participants, work) :
          /\ work' = QueuedWork(f, w)
          /\ run' = QueuedRuns(f, rs)
          /\ assignee' = NewAssignees(f, assignee)
    BY <1>4 DEF SelectCommit
  <2>4. /\ work' \in [Assignments -> WorkStatuses]
        /\ run' \in [Runs -> RunStatuses]
        /\ assignee' \in [Assignments -> Agents]
    BY <2>1, <2>2, <2>3, QueueTypes DEF TypeOK
  <2>5. lease' \in [Runs -> LeaseStates]
    BY <1>4 DEF SelectCommit, TypeOK, LeaseStates
  <2>6. tx' \in [Sessions -> TxStates]
    BY <1>4 DEF SelectCommit, TypeOK, TxStates
  <2> QED BY <1>4, <2>1, <2>4, <2>5, <2>6 DEF SelectCommit, TypeOK
<1> QED BY <1>2, <1>3, <1>4 DEF Select

LEMMA CommandTypeOK ==
    ASSUME TypeOK, Command
    PROVE  TypeOK'
<1>1. ASSUME NEW gs \in SUBSET Agents, Queue(gs)
      PROVE  /\ work' \in [Assignments -> WorkStatuses]
             /\ run' \in [Runs -> RunStatuses]
             /\ assignee' \in [Assignments -> Agents]
  <2>1. PICK f \in NewWork(gs, work) :
          /\ work' = QueuedWork(f, work)
          /\ run' = QueuedRuns(f, run)
          /\ assignee' = NewAssignees(f, assignee)
    BY <1>1 DEF Queue
  <2>2. /\ work \in [Assignments -> WorkStatuses]
        /\ run \in [Runs -> RunStatuses]
        /\ assignee \in [Assignments -> Agents]
    BY DEF TypeOK
  <2> QED BY <1>1, <2>1, <2>2, QueueTypes
<1>2. CASE \E gs \in (SUBSET Agents) \ {{}} : CreateAssignments(gs)
  <2>1. PICK gs \in SUBSET Agents : CreateAssignments(gs)
    BY <1>2
  <2> QED BY <1>1, <2>1 DEF CreateAssignments, TypeOK
<1>3. CASE \E a \in Assignments : CancelQueued(a)
  <2>1. PICK a \in Assignments : CancelQueued(a)
    BY <1>3
  <2>2. work' \in [Assignments -> WorkStatuses]
    BY <2>1 DEF CancelQueued, TypeOK, WorkStatuses
  <2>3. run' \in [Runs -> RunStatuses] /\ lease' \in [Runs -> LeaseStates]
    BY <2>1 DEF CancelQueued, TypeOK, RunStatuses, Closed, LeaseStates
  <2> QED BY <2>1, <2>2, <2>3 DEF CancelQueued, TypeOK
<1>4. CASE \E r \in Runs : Respond(r)
  <2>1. PICK r \in Runs : Respond(r)
    BY <1>4
  <2>2. work' \in [Assignments -> WorkStatuses]
    BY <2>1 DEF Respond, TypeOK, WorkStatuses
  <2>3. run' \in [Runs -> RunStatuses] /\ lease' \in [Runs -> LeaseStates]
    BY <2>1 DEF Respond, TypeOK, RunStatuses, Open, Closed, LeaseStates
  <2> QED BY <2>1, <2>2, <2>3 DEF Respond, TypeOK
<1>5. CASE \E g \in Agents : Invite(g)
  <2>1. PICK g \in Agents : Invite(g)
    BY <1>5
  <2>2. participants' \in SUBSET Agents
    BY <2>1 DEF Invite, TypeOK
  <2> QED BY <1>1, <2>1, <2>2 DEF Invite, TypeOK
<1>6. CASE \E action \in {"pause", "resume", "cancel", "archive", "restore"} :
             UpdateStatus(action)
  <2>1. PICK action \in {"pause", "resume", "cancel", "archive", "restore"} :
          UpdateStatus(action)
    BY <1>6
  <2>2. Transition(action).to \in TaskStatuses
    BY <2>1 DEF Transition, TaskStatuses
  <2> QED BY <2>1, <2>2 DEF UpdateStatus, TypeOK
<1>7. CASE Submit
  BY <1>7 DEF Submit, TypeOK, TaskStatuses
<1>8. CASE Accept
  BY <1>8 DEF Accept, TypeOK, TaskStatuses
<1>9. CASE RequestChanges
  <2>1. participants \in SUBSET Agents
    BY DEF TypeOK
  <2> QED BY <1>1, <1>9, <2>1 DEF RequestChanges, TypeOK, TaskStatuses
<1> QED BY <1>2, <1>3, <1>4, <1>5, <1>6, <1>7, <1>8, <1>9 DEF Command

LEMMA LeaseTimeoutTypeOK ==
    ASSUME TypeOK, NEW r \in Runs, LeaseTimeout(r)
    PROVE  TypeOK'
<1>1. lease' \in [Runs -> LeaseStates]
  BY DEF LeaseTimeout, TypeOK, LeaseStates
<1>2. ASSUME NEW s \in Sessions, tx[s].pc = "result_loaded"
      PROVE  [tx[s] EXCEPT !.lease = "expired"] \in LoadTx
  <2>1. tx[s] \in LoadTx
    BY <1>2, TxFields DEF TypeOK
  <2> QED BY <2>1 DEF LoadTx, LeaseStates
<1>3. tx' \in [Sessions -> TxStates]
  BY <1>2 DEF LeaseTimeout, TypeOK, TxStates
<1> QED BY <1>1, <1>3 DEF LeaseTimeout, TypeOK

LEMMA NextTypeOK == TypeOK /\ [Next]_vars => TypeOK'
<1> SUFFICES ASSUME TypeOK, [Next]_vars PROVE TypeOK'
  OBVIOUS
<1>1. ASSUME NEW s \in Sessions, Abort(s) PROVE TypeOK'
  BY <1>1 DEF Abort, TypeOK, TxStates
<1>2. CASE UNCHANGED vars
  BY <1>2 DEF vars, TypeOK
<1> QED BY <1>1, <1>2, PollTypeOK, ReportTypeOK, SelectTypeOK, CommandTypeOK,
           LeaseTimeoutTypeOK DEF Next

\* Every reachable state has the types the tables' columns and the handlers'
\* local variables have, for every number of agents, sessions and attempts.
THEOREM TypesCorrect == Spec => []TypeOK
BY InitTypeOK, NextTypeOK, PTL DEF Spec

-----------------------------------------------------------------------------
(***************************************************************************)
(* How a step moves the attempts.  AttemptStep: none disappears, a closed  *)
(* one stays closed, and a new one follows attempts that are all closed    *)
(* now.  LockStep: a locked run is left alone while its transaction waits. *)
(***************************************************************************)
AttemptStep ==
    \A r \in Runs :
        /\ run[r] # "none" => run'[r] # "none"
        /\ run[r] \in Closed => run'[r] \in Closed
        /\ run[r] = "none" /\ run'[r] # "none" =>
             /\ run'[r] \in Open
             /\ \A q \in RunsOf(r[1]) : q[2] < r[2] => run[q] # "none" /\ run'[q] \in Closed

LockStep ==
    \A s \in Sessions :
        tx[s].pc = "run_locked" /\ tx'[s] = tx[s] => run'[tx[s].run] = run[tx[s].run]

\* The acting session's own transaction, and the others left as they are.
OwnTx(s) ==
    /\ \A z \in Sessions : z # s => tx'[z] = tx[z]
    /\ TxActsOnRuns(s)'
    /\ tx'[s].pc = "run_locked" => \A z \in Sessions :
         z # s /\ tx[z].pc = "run_locked" => tx[z].run # tx'[s].run

LEMMA OpenAndClosed ==
    /\ Open \intersect Closed = {}
    /\ "none" \notin Open \union Closed
    /\ RunStatuses = Open \union Closed \union {"none"}
    /\ Leased \union {"waiting_human"} \subseteq Open
    /\ "queued" \in Open
    /\ "leased" \in Open
    /\ "cancelled" \in Closed
    /\ "interrupted" \in Closed
BY DEF Open, Closed, Leased, RunStatuses

LEMMA SameRuns ==
    ASSUME run' = run
    PROVE  AttemptStep /\ LockStep
BY OpenAndClosed DEF AttemptStep, LockStep

LEMMA AttemptStepKeepsOrder ==
    ASSUME AttemptInv, TypeOK', AttemptStep
    PROVE  AttemptsInOrder' /\ OneOpenRun'
<1>1. AttemptsInOrder'
  <2> SUFFICES ASSUME NEW r \in Runs, run'[r] = "none",
                      NEW q \in RunsOf(r[1]), q[2] > r[2], run'[q] # "none"
               PROVE  FALSE
    BY DEF AttemptsInOrder, RunsOf
  <2>1. run[r] = "none" /\ run[q] = "none"
    BY DEF AttemptInv, AttemptsInOrder, AttemptStep
  <2>2. q \in Runs /\ r \in RunsOf(q[1]) /\ r[2] < q[2]
    BY RunsAreAttempts DEF RunsOf
  <2> QED BY <2>1, <2>2 DEF AttemptStep
<1>2. OneOpenRun'
  <2> SUFFICES ASSUME NEW r \in Runs, run'[r] \in Open,
                      NEW q \in RunsOf(r[1]), q[2] > r[2], run'[q] # "none"
               PROVE  FALSE
    BY DEF OneOpenRun, RunsOf
  <2>1. q \in Runs /\ r \in RunsOf(q[1]) /\ r[2] < q[2]
    BY RunsAreAttempts DEF RunsOf
  <2>2. run[r] \in Open \/ run[r] = "none"
    BY OpenAndClosed DEF AttemptInv, TypeOK, AttemptStep
  <2>3. run[q] = "none"
    BY <2>2 DEF AttemptInv, OneOpenRun, AttemptsInOrder
  <2>4. run'[r] \in Closed
    BY <2>1, <2>3 DEF AttemptStep
  <2> QED BY <2>4, OpenAndClosed
<1> QED BY <1>1, <1>2

\* A transaction that nobody touched still acts on runs that exist.
LEMMA OthersTxKept ==
    ASSUME AttemptInv, AttemptStep, LockStep, NEW s \in Sessions, tx'[s] = tx[s]
    PROVE  TxActsOnRuns(s)'
<1>1. tx[s] \in TxStates /\ TxActsOnRuns(s)
  BY DEF AttemptInv, TypeOK
<1>2. ASSUME tx[s].pc \in {"poll_read", "poll_checked"}
      PROVE  (\A r \in tx[s].expired : run'[r] # "none") /\ tx[s].requeue \subseteq tx[s].expired
  BY <1>1, <1>2, TxFields, PollFields DEF TxActsOnRuns, AttemptStep
<1>3. ASSUME tx[s].pc = "result_loaded"
      PROVE  run'[tx[s].run] # "none"
  BY <1>1, <1>3, TxFields, LoadFields DEF TxActsOnRuns, AttemptStep
<1>4. ASSUME tx[s].pc = "run_locked"
      PROVE  run'[tx[s].run] # "none" /\ (~tx[s].result => run'[tx[s].run] \in Open)
  BY <1>1, <1>4 DEF TxActsOnRuns, LockStep
<1>5. ASSUME tx[s].pc = "task_locked"
      PROVE  \A r \in tx[s].runs : run'[r] # "none"
  BY <1>1, <1>5, TxFields, SelectFields DEF TxActsOnRuns, AttemptStep
<1> QED BY <1>2, <1>3, <1>4, <1>5 DEF TxActsOnRuns

LEMMA OwnTxKeepsTxs ==
    ASSUME AttemptInv, AttemptStep, LockStep, NEW s \in Sessions, OwnTx(s)
    PROVE  (\A z \in Sessions : TxActsOnRuns(z)') /\ RunLocksExclusive'
<1>1. \A z \in Sessions : TxActsOnRuns(z)'
  BY OthersTxKept DEF OwnTx
<1>2. RunLocksExclusive'
  BY DEF OwnTx, AttemptInv, RunLocksExclusive
<1> QED BY <1>1, <1>2

LEMMA IdleIsOwnTx ==
    ASSUME TypeOK, NEW s \in Sessions, tx' = [tx EXCEPT ![s] = Idle]
    PROVE  OwnTx(s)
<1>1. tx'[s].pc = "idle" /\ (\A z \in Sessions : z # s => tx'[z] = tx[z])
  BY DEF TypeOK, Idle
<1> QED BY <1>1 DEF OwnTx, TxActsOnRuns

-----------------------------------------------------------------------------
(* Each action is an AttemptStep and a LockStep. *)

\* What a transaction that read without locks still knows when it writes.
LEMMA PollKnows ==
    ASSUME AttemptInv, NEW s \in Sessions, tx[s].pc \in {"poll_read", "poll_checked"}
    PROVE  /\ tx[s].agent \in Agents
           /\ tx[s].expired \in SUBSET Runs
           /\ tx[s].requeue \subseteq tx[s].expired
           /\ \A r \in tx[s].expired : run[r] # "none"
BY TxFields, PollFields DEF AttemptInv, TypeOK, TxActsOnRuns

\* The flush closes the expired attempts before it opens their successors.
LEMMA FlushIsAttemptStep ==
    ASSUME AttemptInv, NEW s \in Sessions, tx[s].pc = "poll_checked", FlushPasses(tx[s]),
           run' \in [Runs -> RunStatuses],
           \A r \in Runs : \/ run'[r] = Requeued(tx[s])[r]
                           \/ Requeued(tx[s])[r] = "queued" /\ run'[r] = "leased"
    PROVE  AttemptStep /\ (\A r \in Runs : run[r] = "none" /\ run'[r] # "none" =>
                             \E x \in tx[s].requeue : r = Next1(x))
<1> DEFINE t == tx[s]
           rs == Requeued(t)
<1>1. \A r \in Runs : rs[r] = IF r \in t.expired THEN "interrupted"
                              ELSE IF \E x \in t.requeue : r = Next1(x) THEN "queued"
                              ELSE run[r]
  BY DEF Requeued
<1>2. /\ t.expired \in SUBSET Runs
      /\ t.requeue \subseteq t.expired
      /\ \A r \in t.expired : run[r] # "none"
  BY PollKnows
<1>3. \A x \in t.requeue : Next1(x) \in Runs /\ run[Next1(x)] = "none"
  BY DEF FlushPasses
<1>4. \A r \in Runs : run[r] = "none" /\ run'[r] # "none" => \E x \in t.requeue : r = Next1(x)
  BY <1>1, <1>2
<1>5. \A r \in Runs : /\ run[r] # "none" => run'[r] # "none"
                      /\ run[r] \in Closed => run'[r] \in Closed
  BY <1>1, <1>3, OpenAndClosed
<1>6. ASSUME NEW r \in Runs, run[r] = "none", run'[r] # "none",
             NEW q \in RunsOf(r[1]), q[2] < r[2]
      PROVE  run[q] # "none" /\ run'[q] \in Closed
  <2>1. PICK x \in t.requeue : r = Next1(x)
    BY <1>4, <1>6
  <2>2. x \in Runs /\ x \in t.expired /\ run[x] # "none"
    BY <1>2
  <2>3. q \in Runs /\ q[1] = x[1] /\ q[2] \in Nat /\ x[2] \in Nat /\ q[2] < x[2] + 1
    BY <1>6, <2>1, <2>2, RunsAreAttempts DEF Next1, RunsOf
  <2>4. CASE q[2] = x[2]
    <3>1. q = x
      BY <2>2, <2>3, <2>4, RunsAreAttempts
    <3>2. rs[q] = "interrupted"
      BY <1>1, <2>2, <3>1
    <3> QED BY <2>2, <3>1, <3>2, OpenAndClosed
  <2>5. CASE q[2] < x[2]
    <3>1. x \in RunsOf(q[1]) /\ x[2] > q[2]
      BY <2>2, <2>3, <2>5 DEF RunsOf
    <3>2. run[q] # "none" /\ run[q] \notin Open
      BY <2>2, <2>3, <3>1 DEF AttemptInv, AttemptsInOrder, OneOpenRun
    <3>3. run[q] \in Closed
      BY <2>3, <3>2, OpenAndClosed DEF AttemptInv, TypeOK
    <3> QED BY <1>5, <2>3, <3>2, <3>3
  <2> QED BY <2>3, <2>4, <2>5
<1>7. \A r \in Runs : run[r] = "none" /\ run'[r] # "none" => run'[r] \in Open
  BY <1>1, <1>2, <1>4, OpenAndClosed
<1> QED BY <1>4, <1>5, <1>6, <1>7 DEF AttemptStep

LEMMA FlushKeepsUnused ==
    ASSUME AttemptInv, NEW s \in Sessions, tx[s].pc = "poll_checked",
           \A a \in Assignments : work'[a] = "none" => work[a] = "none",
           \A r \in Runs : run[r] = "none" /\ run'[r] # "none" =>
                             \E x \in tx[s].requeue : r = Next1(x)
    PROVE  UnusedHasNoRuns'
<1> SUFFICES ASSUME NEW r \in Runs, work'[r[1]] = "none", run'[r] # "none"
             PROVE  FALSE
  BY DEF UnusedHasNoRuns
<1>1. work[r[1]] = "none" /\ run[r] = "none"
  BY RunsAreAttempts DEF AttemptInv, UnusedHasNoRuns
<1>2. PICK x \in tx[s].requeue : r = Next1(x)
  BY <1>1
<1>3. x \in Runs /\ run[x] # "none" /\ x[1] = r[1]
  BY <1>2, PollKnows, RunsAreAttempts DEF Next1
<1> QED BY <1>1, <1>3 DEF AttemptInv, UnusedHasNoRuns

LEMMA PollSteps ==
    ASSUME AttemptInv, TypeOK', NEW s \in Sessions, Poll(s)
    PROVE  AttemptStep /\ LockStep /\ UnusedHasNoRuns' /\ OwnTx(s)
<1> USE DEF AttemptInv
<1>1. CASE \E g \in Agents : PollRead(s, g)
  <2>1. PICK g \in Agents : PollRead(s, g)
    BY <1>1
  <2>2. tx'[s].pc = "poll_read" /\ tx'[s].expired = ExpiredRuns(g) /\ tx'[s].requeue = {}
    BY <2>1 DEF PollRead, TypeOK
  <2>3. run' = run /\ work' = work /\ (\A z \in Sessions : z # s => tx'[z] = tx[z])
    BY <2>1 DEF PollRead, TypeOK
  <2>4. \A r \in ExpiredRuns(g) : run'[r] # "none"
    BY <2>3, OpenAndClosed DEF ExpiredRuns
  <2>5. OwnTx(s)
    BY <2>2, <2>3, <2>4 DEF OwnTx, TxActsOnRuns
  <2> QED BY <2>3, <2>5, SameRuns DEF UnusedHasNoRuns
<1>2. CASE PollCheck(s)
  <2>1. tx[s] \in PollTx
    BY <1>2, TxFields DEF PollCheck, TypeOK
  <2>2. /\ tx'[s].pc = "poll_checked"
        /\ tx'[s].expired = tx[s].expired
        /\ tx'[s].requeue = {r \in tx[s].expired : NeedsSuccessor(r)}
    BY <1>2, <2>1 DEF PollCheck, PollTx, TypeOK
  <2>3. run' = run /\ work' = work /\ (\A z \in Sessions : z # s => tx'[z] = tx[z])
    BY <1>2 DEF PollCheck, TypeOK
  <2>4. OwnTx(s)
    BY <1>2, <2>2, <2>3, PollKnows DEF OwnTx, TxActsOnRuns, PollCheck
  <2> QED BY <2>3, <2>4, SameRuns DEF UnusedHasNoRuns
<1>3. ASSUME tx[s].pc = "poll_checked", FlushPasses(tx[s])
      PROVE  \A z \in Sessions : tx[z].pc = "run_locked" =>
               /\ tx[z].run \in Runs
               /\ Requeued(tx[s])[tx[z].run] = run[tx[z].run]
  <2> SUFFICES ASSUME NEW z \in Sessions, tx[z].pc = "run_locked"
               PROVE  /\ tx[z].run \in Runs
                      /\ Requeued(tx[s])[tx[z].run] = run[tx[z].run]
    OBVIOUS
  <2>1. tx[z].run \in Runs /\ run[tx[z].run] # "none"
    BY TxFields, ReportFields DEF TypeOK, TxActsOnRuns
  <2>2. tx[z].run \notin tx[s].expired
    BY <1>3 DEF FlushPasses, RunFree
  <2>3. ~\E x \in tx[s].requeue : tx[z].run = Next1(x)
    BY <1>3, <2>1 DEF FlushPasses
  <2> QED BY <2>1, <2>2, <2>3 DEF Requeued
<1>4. CASE Claim(s)
  <2>1. tx[s].pc = "poll_checked" /\ FlushPasses(tx[s])
    BY <1>4 DEF Claim
  <2>2. PICK q \in Runs :
          /\ Claimable(tx[s], q)
          /\ run' = [Requeued(tx[s]) EXCEPT ![q] = "leased"]
          /\ work' = [work EXCEPT ![q[1]] = "running"]
    BY <1>4 DEF Claim
  <2>3. \A r \in Runs : \/ run'[r] = Requeued(tx[s])[r]
                        \/ r = q /\ Requeued(tx[s])[r] = "queued" /\ run'[r] = "leased"
    BY <2>2 DEF Claimable, Requeued
  <2>4. AttemptStep /\ (\A r \in Runs : run[r] = "none" /\ run'[r] # "none" =>
                          \E x \in tx[s].requeue : r = Next1(x))
    BY <2>1, <2>3, FlushIsAttemptStep DEF TypeOK
  <2>5. UnusedHasNoRuns'
    <3>1. \A a \in Assignments : work'[a] = "none" => work[a] = "none"
      BY <2>2 DEF TypeOK
    <3> QED BY <2>1, <2>4, <3>1, FlushKeepsUnused
  <2>6. LockStep
    <3>1. \A z \in Sessions : tx[z].pc = "run_locked" => tx[z].run # q
      BY <2>2 DEF Claimable, RunFree
    <3> QED BY <1>3, <2>1, <2>3, <3>1 DEF LockStep
  <2> QED BY <1>4, <2>4, <2>5, <2>6, IdleIsOwnTx DEF Claim
<1>5. CASE PollOnly(s)
  <2>1. tx[s].pc = "poll_checked" /\ FlushPasses(tx[s]) /\ run' = Requeued(tx[s]) /\ work' = work
    BY <1>5 DEF PollOnly
  <2>2. AttemptStep /\ (\A r \in Runs : run[r] = "none" /\ run'[r] # "none" =>
                          \E x \in tx[s].requeue : r = Next1(x))
    BY <2>1, FlushIsAttemptStep DEF TypeOK
  <2>3. UnusedHasNoRuns'
    BY <2>1, <2>2, FlushKeepsUnused
  <2>4. LockStep
    BY <1>3, <2>1 DEF LockStep
  <2> QED BY <1>5, <2>2, <2>3, <2>4, IdleIsOwnTx DEF PollOnly
<1> QED BY <1>1, <1>2, <1>4, <1>5 DEF Poll

LEMMA ReportSteps ==
    ASSUME AttemptInv, NEW s \in Sessions, Report(s)
    PROVE  AttemptStep /\ LockStep /\ UnusedHasNoRuns' /\ OwnTx(s)
<1> USE DEF AttemptInv
<1>1. ASSUME NEW r \in Runs, NEW to, NEW b \in BOOLEAN,
             RunFree(r), run[r] # "none", ~b => run[r] \in Open, run' = run,
             tx' = [tx EXCEPT ![s] = [pc |-> "run_locked", run |-> r, to |-> to,
                                      result |-> b, seen |-> work[r[1]]]]
      PROVE  OwnTx(s)
  <2>1. /\ tx'[s].pc = "run_locked"
        /\ tx'[s].run = r
        /\ tx'[s].result = b
        /\ \A z \in Sessions : z # s => tx'[z] = tx[z]
    BY <1>1 DEF TypeOK
  <2> QED BY <1>1, <2>1 DEF OwnTx, TxActsOnRuns, RunFree
<1>2. ASSUME NEW r \in Runs, LeaseValid(run[r], lease[r])
      PROVE  run[r] # "none" /\ run[r] \in Open
  BY <1>2, OpenAndClosed DEF LeaseValid
<1>3. CASE \E r \in Runs, to \in Progress : UpdateLock(s, r, to)
  <2>1. PICK r \in Runs, to \in Progress : UpdateLock(s, r, to)
    BY <1>3
  <2>2. OwnTx(s)
    BY <1>1, <1>2, <2>1 DEF UpdateLock
  <2> QED BY <2>1, <2>2, SameRuns DEF UpdateLock, UnusedHasNoRuns
<1>4. CASE \E r \in Runs, to \in Outcomes : ResultLock(s, r, to)
  <2>1. PICK r \in Runs, to \in Outcomes : ResultLock(s, r, to)
    BY <1>4
  <2>2. OwnTx(s)
    BY <1>1, <1>2, <2>1 DEF ResultLock
  <2> QED BY <2>1, <2>2, SameRuns DEF ResultLock, UnusedHasNoRuns
<1>5. CASE \E r \in Runs, to \in Outcomes : ResultLoad(s, r, to)
  <2>1. PICK r \in Runs, to \in Outcomes : ResultLoad(s, r, to)
    BY <1>5
  <2>2. /\ tx'[s].pc = "result_loaded"
        /\ tx'[s].run = r
        /\ \A z \in Sessions : z # s => tx'[z] = tx[z]
    BY <2>1 DEF ResultLoad, TypeOK
  <2>3. OwnTx(s)
    BY <1>2, <2>1, <2>2 DEF OwnTx, TxActsOnRuns, ResultLoad
  <2> QED BY <2>1, <2>3, SameRuns DEF ResultLoad, UnusedHasNoRuns
<1>6. CASE ResultLockLoaded(s)
  <2>1. tx[s].run \in Runs /\ run[tx[s].run] # "none"
    BY <1>6, TxFields, LoadFields DEF ResultLockLoaded, TypeOK, TxActsOnRuns
  <2>2. OwnTx(s)
    BY <1>1, <1>6, <2>1 DEF ResultLockLoaded
  <2> QED BY <1>6, <2>2, SameRuns DEF ResultLockLoaded, UnusedHasNoRuns
<1>7. ASSUME tx[s].pc = "run_locked", NEW new \in RunStatuses,
             run' = [run EXCEPT ![tx[s].run] = new], new # "none",
             run[tx[s].run] \in Open \/ new \in Closed,
             tx' = [tx EXCEPT ![s] = Idle]
      PROVE  AttemptStep /\ LockStep
  <2>1. tx[s].run \in Runs /\ run[tx[s].run] # "none"
    BY <1>7, TxFields, ReportFields DEF TypeOK, TxActsOnRuns
  <2>2. run'[tx[s].run] = new /\ (\A r \in Runs : r # tx[s].run => run'[r] = run[r])
    BY <1>7, <2>1 DEF TypeOK
  <2>3. AttemptStep
    BY <1>7, <2>1, <2>2, OpenAndClosed DEF AttemptStep
  <2>4. ASSUME NEW z \in Sessions, tx[z].pc = "run_locked", tx'[z] = tx[z]
        PROVE  run'[tx[z].run] = run[tx[z].run]
    <3>1. z # s
      BY <1>7, <2>4 DEF TypeOK, Idle
    <3>2. tx[z].run # tx[s].run /\ tx[z].run \in Runs
      BY <1>7, <2>4, <3>1, TxFields, ReportFields DEF TypeOK, RunLocksExclusive
    <3> QED BY <2>2, <3>2
  <2> QED BY <2>3, <2>4 DEF LockStep
<1>8. ASSUME tx[s].pc = "run_locked"
      PROVE  /\ tx[s].run \in Runs
             /\ tx[s].result => tx[s].to \in Outcomes
             /\ ~tx[s].result => tx[s].to \in Progress /\ run[tx[s].run] \in Open
             /\ run[tx[s].run] # "none"
  BY <1>8, TxFields, ReportFields DEF TypeOK, TxActsOnRuns
<1>9. ASSUME tx[s].pc = "run_locked", NEW new \in WorkStatuses, new # "none",
             work' = [work EXCEPT ![tx[s].run[1]] = new] \/ work' = work,
             \A r \in Runs : r # tx[s].run => run'[r] = run[r]
      PROVE  UnusedHasNoRuns'
  BY <1>8, <1>9, RunsAreAttempts DEF UnusedHasNoRuns, TypeOK
<1>10. CASE UpdateCommit(s)
  <2>1. tx[s].to \in RunStatuses /\ tx[s].to # "none" /\ run[tx[s].run] \in Open
    BY <1>8, <1>10, ReportStatuses, OpenAndClosed DEF UpdateCommit
  <2>2. AttemptStep /\ LockStep
    BY <1>7, <1>10, <2>1 DEF UpdateCommit
  <2>3. \A r \in Runs : r # tx[s].run => run'[r] = run[r]
    BY <1>10 DEF UpdateCommit, TypeOK
  <2>4. WorkStatus(tx[s].to) \in WorkStatuses /\ WorkStatus(tx[s].to) # "none"
    BY DEF WorkStatus, WorkStatuses
  <2>5. UnusedHasNoRuns'
    BY <1>9, <1>10, <2>3, <2>4 DEF UpdateCommit
  <2> QED BY <1>10, <2>2, <2>5, IdleIsOwnTx DEF UpdateCommit
<1>11. CASE ResultCommit(s)
  <2>1. /\ tx[s].to \in RunStatuses /\ tx[s].to # "none" /\ tx[s].to \in Closed
        /\ tx[s].to \in WorkStatuses
    BY <1>8, <1>11, ReportStatuses, OpenAndClosed DEF ResultCommit
  <2>2. AttemptStep /\ LockStep
    BY <1>7, <1>11, <2>1 DEF ResultCommit
  <2>3. \A r \in Runs : r # tx[s].run => run'[r] = run[r]
    BY <1>11 DEF ResultCommit, TypeOK
  <2>4. UnusedHasNoRuns'
    BY <1>9, <1>11, <2>1, <2>3 DEF ResultCommit
  <2> QED BY <1>11, <2>2, <2>4, IdleIsOwnTx DEF ResultCommit
<1> QED BY <1>3, <1>4, <1>5, <1>6, <1>10, <1>11 DEF Report

\* New assignments open their first attempt in rows that had none; rs is the
\* runs table with the same transaction's cancellations applied.
LEMMA QueueSteps ==
    ASSUME AttemptInv, NEW gs, NEW f \in NewWork(gs, work),
           NEW w \in [Assignments -> WorkStatuses], NEW rs \in [Runs -> RunStatuses],
           \A a \in Assignments : w[a] = "none" => work[a] = "none",
           \A r \in Runs : rs[r] = run[r] \/ (run[r] # "none" /\ rs[r] \in Closed),
           work' = QueuedWork(f, w), run' = QueuedRuns(f, rs)
    PROVE  /\ AttemptStep
           /\ UnusedHasNoRuns'
           /\ \A r \in Runs : run[r] # "none" => run'[r] = rs[r]
<1>1. \A a \in AddedTo(f) : a \in Assignments /\ work[a] = "none"
  BY DEF NewWork, AddedTo
<1>2. \A r \in Runs : r[1] \in AddedTo(f) => run[r] = "none"
  BY <1>1 DEF AttemptInv, UnusedHasNoRuns
<1>3. \A r \in Runs : run'[r] = IF r[1] \in AddedTo(f) /\ r[2] = 1 THEN "queued" ELSE rs[r]
  BY DEF QueuedRuns
<1>4. \A r \in Runs : run[r] # "none" => run'[r] = rs[r]
  BY <1>2, <1>3
<1>5. ASSUME NEW r \in Runs, run[r] = "none", run'[r] # "none"
      PROVE  run'[r] \in Open /\ \A q \in RunsOf(r[1]) : ~(q[2] < r[2])
  <2>1. r[2] = 1 /\ run'[r] = "queued"
    BY <1>3, <1>5
  <2>2. \A q \in Runs : q[2] \in Nat /\ q[2] >= 1
    BY RunsAreAttempts, ConstantsAssumption DEF Attempts
  <2> QED BY <2>1, <2>2, OpenAndClosed DEF RunsOf
<1>6. AttemptStep
  BY <1>4, <1>5, OpenAndClosed DEF AttemptStep
<1>7. UnusedHasNoRuns'
  <2> SUFFICES ASSUME NEW r \in Runs, work'[r[1]] = "none"
               PROVE  run'[r] = "none"
    BY DEF UnusedHasNoRuns
  <2>1. r[1] \notin AddedTo(f) /\ work[r[1]] = "none"
    BY RunsAreAttempts DEF QueuedWork
  <2> QED BY <1>3, <2>1 DEF AttemptInv, UnusedHasNoRuns
<1> QED BY <1>4, <1>6, <1>7

LEMMA SelectSteps ==
    ASSUME AttemptInv, NEW s \in Sessions, Select(s)
    PROVE  AttemptStep /\ LockStep /\ UnusedHasNoRuns' /\ OwnTx(s)
<1> USE DEF AttemptInv
<1>1. ASSUME NEW after, NEW gs, LockAndRead(s, after, gs)
      PROVE  AttemptStep /\ LockStep /\ UnusedHasNoRuns' /\ OwnTx(s)
  <2>1. /\ tx'[s].pc = "task_locked"
        /\ tx'[s].runs = {r \in Runs : r[1] \in OpenWorkOf(gs) /\ run[r] \in Open}
        /\ \A z \in Sessions : z # s => tx'[z] = tx[z]
        /\ run' = run /\ work' = work
    BY <1>1 DEF LockAndRead, TypeOK
  <2>2. OwnTx(s)
    BY <2>1, OpenAndClosed DEF OwnTx, TxActsOnRuns
  <2> QED BY <2>1, <2>2, SameRuns DEF UnusedHasNoRuns
<1>2. CASE \E h \in {OwnerOf[g] : g \in Agents} :
             \/ \E chosen \in (SUBSET AgentsOf(h)) \ {{}} : SelectRead(s, h, chosen)
             \/ LeaveRead(s, h)
  BY <1>1, <1>2 DEF SelectRead, LeaveRead
<1>3. CASE SelectCommit(s)
  <2> DEFINE t == tx[s]
             w == [a \in Assignments |-> IF a \in t.works THEN "cancelled" ELSE work[a]]
             rs == [r \in Runs |-> IF r \in t.runs THEN "cancelled" ELSE run[r]]
  <2>1. PICK f \in NewWork(t.chosen \ participants, work) :
          work' = QueuedWork(f, w) /\ run' = QueuedRuns(f, rs)
    BY <1>3 DEF SelectCommit
  <2>2. t.runs \in SUBSET Runs /\ \A r \in t.runs : run[r] # "none"
    BY <1>3, TxFields, SelectFields DEF SelectCommit, TypeOK, TxActsOnRuns
  <2>3. w \in [Assignments -> WorkStatuses] /\ rs \in [Runs -> RunStatuses]
    BY DEF TypeOK, WorkStatuses, RunStatuses, Closed
  <2>4. \A a \in Assignments : w[a] = "none" => work[a] = "none"
    OBVIOUS
  <2>5. \A r \in Runs : rs[r] = run[r] \/ (run[r] # "none" /\ rs[r] \in Closed)
    BY <2>2, OpenAndClosed
  <2> HIDE DEF w, rs
  <2>6. /\ AttemptStep
        /\ UnusedHasNoRuns'
        /\ \A r \in Runs : run[r] # "none" => run'[r] = rs[r]
    BY <2>1, <2>3, <2>4, <2>5, QueueSteps
  <2>7. LockStep
    <3> SUFFICES ASSUME NEW z \in Sessions, tx[z].pc = "run_locked"
                 PROVE  run'[tx[z].run] = run[tx[z].run]
      BY DEF LockStep
    <3>1. tx[z].run \in Runs /\ run[tx[z].run] # "none"
      BY TxFields, ReportFields DEF TypeOK, TxActsOnRuns
    <3>2. tx[z].run \notin t.runs
      BY <1>3 DEF SelectCommit, RunFree
    <3> QED BY <2>6, <3>1, <3>2 DEF rs
  <2> QED BY <1>3, <2>6, <2>7, IdleIsOwnTx DEF SelectCommit
<1> QED BY <1>2, <1>3 DEF Select

LEMMA CommandSteps ==
    ASSUME AttemptInv, Command
    PROVE  AttemptStep /\ LockStep /\ UnusedHasNoRuns' /\ tx' = tx
<1> USE DEF AttemptInv
<1>1. \A z \in Sessions : tx[z].pc = "run_locked" =>
        tx[z].run \in Runs /\ run[tx[z].run] # "none"
  BY TxFields, ReportFields DEF TypeOK, TxActsOnRuns
<1>2. ASSUME NEW gs, Queue(gs), tx' = tx
      PROVE  AttemptStep /\ LockStep /\ UnusedHasNoRuns' /\ tx' = tx
  <2>1. PICK f \in NewWork(gs, work) : work' = QueuedWork(f, work) /\ run' = QueuedRuns(f, run)
    BY <1>2 DEF Queue
  <2>2. /\ AttemptStep
        /\ UnusedHasNoRuns'
        /\ \A r \in Runs : run[r] # "none" => run'[r] = run[r]
    BY <2>1, QueueSteps DEF TypeOK
  <2> QED BY <1>1, <1>2, <2>2 DEF LockStep
<1>3. CASE \E gs \in (SUBSET Agents) \ {{}} : CreateAssignments(gs)
  BY <1>2, <1>3 DEF CreateAssignments
<1>4. CASE \E a \in Assignments : CancelQueued(a)
  <2>1. PICK a \in Assignments : CancelQueued(a)
    BY <1>4
  <2>2. \A r \in Runs : run'[r] = IF r \in RunsOf(a) /\ run[r] = "queued"
                                  THEN "cancelled" ELSE run[r]
    BY <2>1 DEF CancelQueued
  <2>3. AttemptStep
    BY <2>2, OpenAndClosed DEF AttemptStep
  <2>4. LockStep
    <3>1. \A z \in Sessions : tx[z].pc = "run_locked" => tx[z].run \notin RunsOf(a)
      BY <2>1 DEF CancelQueued, RunFree
    <3> QED BY <1>1, <2>2, <3>1 DEF LockStep
  <2>5. UnusedHasNoRuns'
    BY <2>1, <2>2, RunsAreAttempts DEF CancelQueued, UnusedHasNoRuns, TypeOK
  <2> QED BY <2>1, <2>3, <2>4, <2>5 DEF CancelQueued
<1>5. CASE \E r \in Runs : Respond(r)
  <2>1. PICK r \in Runs : Respond(r)
    BY <1>5
  <2>2. /\ Next1(r) \in Runs /\ run[Next1(r)] = "none" /\ run[r] = "waiting_human"
        /\ work[r[1]] = "waiting_human"
    BY <2>1 DEF Respond, IsLatest
  <2>3. /\ run'[r] = "interrupted" /\ run'[Next1(r)] = "queued"
        /\ \A q \in Runs : q # r /\ q # Next1(r) => run'[q] = run[q]
    BY <2>1, <2>2 DEF Respond, TypeOK
  <2>4. ASSUME NEW q \in RunsOf(Next1(r)[1]), q[2] < Next1(r)[2]
        PROVE  run[q] # "none" /\ run'[q] \in Closed
    <3>1. q \in Runs /\ q[1] = r[1] /\ q[2] \in Nat /\ r[2] \in Nat /\ q[2] < r[2] + 1
      BY <2>4, RunsAreAttempts DEF Next1, RunsOf
    <3>2. CASE q[2] = r[2]
      <4>1. q = r
        BY <3>1, <3>2, RunsAreAttempts
      <4> QED BY <2>2, <2>3, <4>1, OpenAndClosed
    <3>3. CASE q[2] < r[2]
      <4>1. r \in RunsOf(q[1]) /\ r[2] > q[2] /\ q # r /\ q # Next1(r)
        BY <3>1, <3>3 DEF RunsOf, Next1
      <4>2. run[q] # "none" /\ run[q] \notin Open
        BY <2>2, <3>1, <4>1 DEF AttemptsInOrder, OneOpenRun
      <4>3. run[q] \in Closed
        BY <3>1, <4>2, OpenAndClosed DEF TypeOK
      <4> QED BY <2>3, <3>1, <4>1, <4>2, <4>3
    <3> QED BY <3>1, <3>2, <3>3
  <2>5. AttemptStep
    BY <2>2, <2>3, <2>4, OpenAndClosed DEF AttemptStep
  <2>6. LockStep
    <3>1. \A z \in Sessions : tx[z].pc = "run_locked" => tx[z].run # r /\ tx[z].run # Next1(r)
      BY <1>1, <2>1, <2>2 DEF Respond, RunFree
    <3> QED BY <1>1, <2>3, <3>1 DEF LockStep
  <2>7. UnusedHasNoRuns'
    <3>1. \A a \in Assignments : work'[a] = "none" => work[a] = "none" /\ a # r[1]
      BY <2>1 DEF Respond, TypeOK
    <3>2. Next1(r)[1] = r[1]
      BY DEF Next1
    <3> QED BY <2>3, <3>1, <3>2, RunsAreAttempts DEF UnusedHasNoRuns
  <2> QED BY <2>1, <2>5, <2>6, <2>7 DEF Respond
<1>6. CASE \E g \in Agents : Invite(g)
  BY <1>2, <1>6 DEF Invite
<1>7. CASE RequestChanges
  BY <1>2, <1>7 DEF RequestChanges
<1>8. CASE \/ \E action \in {"pause", "resume", "cancel", "archive", "restore"} :
                UpdateStatus(action)
           \/ Submit
           \/ Accept
  <2>1. run' = run /\ work' = work /\ tx' = tx
    BY <1>8 DEF UpdateStatus, Submit, Accept
  <2> QED BY <2>1, SameRuns DEF UnusedHasNoRuns
<1> QED BY <1>3, <1>4, <1>5, <1>6, <1>7, <1>8 DEF Command

LEMMA LeaseTimeoutSteps ==
    ASSUME AttemptInv, NEW r \in Runs, LeaseTimeout(r)
    PROVE  /\ AttemptStep /\ UnusedHasNoRuns'
           /\ \A s \in Sessions : TxActsOnRuns(s)'
           /\ RunLocksExclusive'
<1> USE DEF AttemptInv
<1>1. run' = run /\ work' = work
  BY DEF LeaseTimeout
<1>2. ASSUME NEW s \in Sessions, tx[s].pc = "result_loaded"
      PROVE  /\ [tx[s] EXCEPT !.lease = "expired"].pc = "result_loaded"
             /\ [tx[s] EXCEPT !.lease = "expired"].run = tx[s].run
  <2>1. tx[s] \in LoadTx
    BY <1>2, TxFields DEF TypeOK
  <2> QED BY <2>1 DEF LoadTx
<1>3. \A s \in Sessions :
        \/ tx'[s] = tx[s]
        \/ /\ tx[s].pc = "result_loaded"
           /\ tx'[s].pc = "result_loaded"
           /\ tx'[s].run = tx[s].run
  BY <1>2 DEF LeaseTimeout
<1>4. \A s \in Sessions : TxActsOnRuns(s)'
  BY <1>1, <1>3 DEF TxActsOnRuns
<1>5. RunLocksExclusive'
  BY <1>3 DEF RunLocksExclusive
<1> QED BY <1>1, <1>4, <1>5, SameRuns DEF UnusedHasNoRuns

-----------------------------------------------------------------------------
LEMMA InitAttemptInv == Init => AttemptInv
<1> SUFFICES ASSUME Init PROVE AttemptInv
  OBVIOUS
<1>1. PICK f \in NewWork(InitialAgents, NoWork) :
        work = QueuedWork(f, NoWork) /\ run = QueuedRuns(f, NoRuns)
  BY DEF Init
<1>2. \A r \in Runs : run[r] = IF r[1] \in AddedTo(f) /\ r[2] = 1 THEN "queued" ELSE "none"
  BY <1>1 DEF QueuedRuns, NoRuns
<1>3. \A r \in Runs : work[r[1]] = IF r[1] \in AddedTo(f) THEN "queued" ELSE "none"
  BY <1>1, RunsAreAttempts DEF QueuedWork, NoWork
<1>4. \A r \in Runs : r[2] \in Nat /\ r[2] >= 1
  BY RunsAreAttempts, ConstantsAssumption DEF Attempts
<1>5. AttemptsInOrder /\ OneOpenRun
  BY <1>2, <1>4, OpenAndClosed DEF AttemptsInOrder, OneOpenRun, RunsOf
<1>6. UnusedHasNoRuns
  BY <1>2, <1>3 DEF UnusedHasNoRuns
<1>7. \A s \in Sessions : tx[s].pc = "idle"
  BY DEF Init, Idle
<1>8. (\A s \in Sessions : TxActsOnRuns(s)) /\ RunLocksExclusive
  BY <1>7 DEF TxActsOnRuns, RunLocksExclusive
<1> QED BY <1>5, <1>6, <1>8, InitTypeOK DEF AttemptInv

LEMMA NextAttemptInv ==
    ASSUME AttemptInv, [Next]_vars
    PROVE  AttemptInv' /\ AttemptStep
<1>1. TypeOK'
  BY NextTypeOK DEF AttemptInv
<1>2. ASSUME NEW s \in Sessions, AttemptStep, LockStep, UnusedHasNoRuns', OwnTx(s)
      PROVE  AttemptInv' /\ AttemptStep
  BY <1>1, <1>2, AttemptStepKeepsOrder, OwnTxKeepsTxs DEF AttemptInv
<1>3. CASE UNCHANGED vars
  <2>1. run' = run /\ work' = work /\ tx' = tx
    BY <1>3 DEF vars
  <2>2. AttemptStep /\ LockStep
    BY <2>1, SameRuns
  <2>3. UnusedHasNoRuns' /\ RunLocksExclusive' /\ \A s \in Sessions : TxActsOnRuns(s)'
    BY <2>1, <2>2, OthersTxKept DEF AttemptInv, UnusedHasNoRuns, RunLocksExclusive
  <2> QED BY <1>1, <2>2, <2>3, AttemptStepKeepsOrder DEF AttemptInv
<1>4. ASSUME NEW s \in Sessions, Poll(s) \/ Report(s) \/ Select(s)
      PROVE  AttemptInv' /\ AttemptStep
  BY <1>1, <1>2, <1>4, PollSteps, ReportSteps, SelectSteps
<1>5. ASSUME NEW s \in Sessions, Abort(s)
      PROVE  AttemptInv' /\ AttemptStep
  <2>1. OwnTx(s)
    BY <1>5, IdleIsOwnTx DEF Abort, AttemptInv
  <2>2. AttemptStep /\ LockStep /\ UnusedHasNoRuns'
    BY <1>5, SameRuns DEF Abort, AttemptInv, UnusedHasNoRuns
  <2> QED BY <1>2, <2>1, <2>2
<1>6. CASE Command
  <2>1. AttemptStep /\ LockStep /\ UnusedHasNoRuns' /\ tx' = tx
    BY <1>6, CommandSteps
  <2>2. RunLocksExclusive' /\ \A s \in Sessions : TxActsOnRuns(s)'
    BY <2>1, OthersTxKept DEF AttemptInv, RunLocksExclusive
  <2> QED BY <1>1, <2>1, <2>2, AttemptStepKeepsOrder DEF AttemptInv
<1>7. ASSUME NEW r \in Runs, LeaseTimeout(r)
      PROVE  AttemptInv' /\ AttemptStep
  BY <1>1, <1>7, LeaseTimeoutSteps, AttemptStepKeepsOrder DEF AttemptInv
<1> QED BY <1>3, <1>4, <1>5, <1>6, <1>7 DEF Next

\* Attempts are consecutive, at most the latest is open, and what a handler
\* read without a lock still exists when it writes: for any number of
\* sessions, late commits and stale result reports included.
THEOREM AttemptsConsistent == Spec => []AttemptInv
<1>1. AttemptInv /\ [Next]_vars => AttemptInv'
  BY NextAttemptInv
<1> QED BY <1>1, InitAttemptInv, PTL DEF Spec

\* An assignment never has two attempts that can be claimed, reported on or
\* answered.
THEOREM AtMostOneOpenRun == Spec => []OneOpenRun
<1>1. AttemptInv => OneOpenRun
  BY DEF AttemptInv
<1> QED BY <1>1, AttemptsConsistent, PTL

\* Whatever races, an attempt that was closed is never open again.
THEOREM ClosedRunsStayClosed == Spec => ClosedStaysClosed
<1>1. AttemptInv /\ [Next]_vars => [\A r \in Runs : run[r] \in Closed => run'[r] \in Closed]_vars
  BY NextAttemptInv DEF AttemptStep
<1> QED BY <1>1, AttemptsConsistent, PTL DEF Spec, ClosedStaysClosed

-----------------------------------------------------------------------------
(* The attempts implement Attempts.                                        *)

LEMMA PhaseOf ==
    /\ TypeOK => \A r \in Runs :
        /\ Phase[r] \in {"none", "open", "closed"}
        /\ Phase[r] = "none" <=> run[r] = "none"
        /\ Phase[r] = "open" <=> run[r] \in Open
        /\ Phase[r] = "closed" <=> run[r] \in Closed
    /\ TypeOK' => \A r \in Runs :
        /\ Phase'[r] \in {"none", "open", "closed"}
        /\ Phase'[r] = "none" <=> run'[r] = "none"
        /\ Phase'[r] = "open" <=> run'[r] \in Open
        /\ Phase'[r] = "closed" <=> run'[r] \in Closed
BY OpenAndClosed DEF Phase, TypeOK

LEMMA RowsOfAssignment ==
    ASSUME NEW a \in Assignments, NEW n \in AbstractAttempts!Numbers
    PROVE  /\ <<a, n>> \in Runs
           /\ n \in Nat
           /\ \A m \in AbstractAttempts!Numbers : <<a, m>> \in RunsOf(<<a, n>>[1])
BY ConstantsAssumption DEF AbstractAttempts!Numbers, Runs, Attempts, RunsOf

LEMMA AttemptStepSimulates ==
    ASSUME AttemptInv, AttemptInv', AttemptStep
    PROVE  AbstractAttempts!Next
<1> USE DEF AttemptInv
<1>1. Phase' \in [Assignments \X AbstractAttempts!Numbers -> {"none", "open", "closed"}]
  BY OpenAndClosed DEF Phase, TypeOK, Runs, Attempts, AbstractAttempts!Numbers
<1>2. ASSUME NEW a \in Assignments
      PROVE  \/ AbstractAttempts!Stays(a)
             \/ AbstractAttempts!Finish(a)
             \/ \E n \in AbstractAttempts!Numbers : AbstractAttempts!Try(a, n)
  <2> DEFINE Numbers == AbstractAttempts!Numbers
  <2> HIDE DEF Numbers
  <2>1. \A n \in Numbers : /\ <<a, n>> \in Runs /\ n \in Nat
                            /\ \A m \in Numbers : <<a, m>> \in RunsOf(<<a, n>>[1])
    BY RowsOfAssignment DEF Numbers
  <2>2. CASE \E n \in Numbers : run[<<a, n>>] = "none" /\ run'[<<a, n>>] # "none"
    <3>1. PICK n \in Numbers : run[<<a, n>>] = "none" /\ run'[<<a, n>>] # "none"
      BY <2>2
    <3>2. run'[<<a, n>>] \in Open
      BY <2>1, <3>1 DEF AttemptStep
    <3>3. ASSUME NEW m \in Numbers, m < n
          PROVE  run[<<a, m>>] # "none" /\ run'[<<a, m>>] \in Closed
      BY <2>1, <3>1, <3>3 DEF AttemptStep
    <3>4. ASSUME NEW m \in Numbers, m > n
          PROVE  run[<<a, m>>] = "none" /\ run'[<<a, m>>] = "none"
      BY <2>1, <3>1, <3>2, <3>4 DEF AttemptsInOrder, OneOpenRun, RunsOf
    <3>5. AbstractAttempts!Try(a, n)
      BY <2>1, <3>1, <3>2, <3>3, <3>4, PhaseOf DEF AbstractAttempts!Try, Numbers
    <3> QED BY <3>5 DEF Numbers
  <2>3. CASE /\ \A n \in Numbers : run[<<a, n>>] = "none" => run'[<<a, n>>] = "none"
             /\ \E n \in Numbers : run[<<a, n>>] \in Open /\ run'[<<a, n>>] \notin Open
    <3>1. PICK n \in Numbers : run[<<a, n>>] \in Open /\ run'[<<a, n>>] \notin Open
      BY <2>3
    <3>2. run'[<<a, n>>] \in Closed
      BY <2>1, <3>1, OpenAndClosed DEF AttemptStep, TypeOK
    <3>3. ASSUME NEW m \in Numbers, run[<<a, m>>] \in Open
          PROVE  m = n
      BY <2>1, <3>1, <3>3, OpenAndClosed DEF OneOpenRun
    <3>4. \A m \in Numbers : Phase'[<<a, m>>] = IF Phase[<<a, m>>] = "open" THEN "closed"
                                                                           ELSE Phase[<<a, m>>]
      BY <2>1, <2>3, <3>2, <3>3, PhaseOf DEF AttemptStep
    <3> QED BY <3>4 DEF AbstractAttempts!Finish, Numbers
  <2>4. CASE /\ \A n \in Numbers : run[<<a, n>>] = "none" => run'[<<a, n>>] = "none"
             /\ \A n \in Numbers : run[<<a, n>>] \in Open => run'[<<a, n>>] \in Open
    <3>1. \A m \in Numbers : Phase'[<<a, m>>] = Phase[<<a, m>>]
      BY <2>1, <2>4, PhaseOf DEF AttemptStep
    <3> QED BY <3>1 DEF AbstractAttempts!Stays, Numbers
  <2> QED BY <2>2, <2>3, <2>4 DEF Numbers
<1> QED BY <1>1, <1>2 DEF AbstractAttempts!Next

LEMMA InitSimulates == Init => AbstractAttempts!Init
<1> SUFFICES ASSUME Init PROVE AbstractAttempts!Init
  OBVIOUS
<1>1. PICK f \in NewWork(InitialAgents, NoWork) : run = QueuedRuns(f, NoRuns)
  BY DEF Init
<1>2. \A r \in Runs : run[r] = "none" \/ (run[r] = "queued" /\ r[2] = 1)
  BY <1>1 DEF QueuedRuns, NoRuns
<1>3. \A r \in Runs : Phase[r] \in {"none", "open"} /\ (Phase[r] = "none" \/ r[2] = 1)
  BY <1>2, InitTypeOK, PhaseOf, OpenAndClosed
<1>4. Phase \in [Assignments \X AbstractAttempts!Numbers -> {"none", "open"}]
  BY <1>3 DEF Phase, Runs, Attempts, AbstractAttempts!Numbers
<1>5. \A a \in Assignments, n \in AbstractAttempts!Numbers : n > 1 => Phase[<<a, n>>] = "none"
  BY <1>3, RowsOfAssignment
<1> QED BY <1>4, <1>5 DEF AbstractAttempts!Init

\* The handlers, with every race between them, only ever make the attempts of
\* an assignment one after another: the execution core implements Attempts.
THEOREM AttemptsImplemented == Spec => ImplementsAttempts
<1>1. AttemptInv /\ AttemptInv' /\ [Next]_vars => [AbstractAttempts!Next]_Phase
  BY NextAttemptInv, AttemptStepSimulates
<1> QED BY <1>1, InitSimulates, AttemptsConsistent, PTL
        DEF Spec, ImplementsAttempts, AbstractAttempts!Spec

-----------------------------------------------------------------------------
(***************************************************************************)
(* Assignments and their attempts.  A commit that overtakes its lease, and  *)
(* a result judged by the run it loaded before the lock, break what follows *)
(* (MCTaskRunsLateCommit and MCTaskRunsStaleLease show how); Prompt         *)
(* excludes the two.                                                       *)
(***************************************************************************)
Prompt == TimelyCommits /\ "omitted" \notin Checkpoints

Settled == {"none", "completed", "cancelled"}
Working == Leased \union {"waiting_human"}

\* The status of an assignment goes with the states of its attempts.
Fits(a) ==
    /\ \A r \in RunsOf(a) :
         /\ run[r] \in Leased => work[a] = "running"
         /\ run[r] = "waiting_human" => work[a] = "waiting_human"
         /\ run[r] = "queued" => work[a] \in {"queued", "running", "cancelled"}
    /\ work[a] = "queued" => \E r \in RunsOf(a) : run[r] = "queued"
    /\ work[a] = "running" => \E r \in RunsOf(a) : run[r] \in Leased \union {"queued"}
    /\ work[a] = "waiting_human" => \E r \in RunsOf(a) : run[r] = "waiting_human"
    /\ work[a] # "none" => run[<<a, 1>>] # "none"

\* What a report, a poll and a selection of agents still know of the rows they
\* read, whoever committed since.
Held(t) ==
    t.pc = "run_locked" =>
        run[t.run] \in Working /\ lease[t.run] = "live" /\ t.seen = work[t.run[1]]

Polled(t) ==
    /\ t.pc \in {"poll_read", "poll_checked"} => \A r \in t.expired :
         \/ run[r] \in Leased /\ lease[r] = "expired"
         \/ /\ run[r] \in Closed
            /\ Next1(r) \in Runs /\ run[Next1(r)] = "none" => work[r[1]] = "cancelled"
    /\ t.pc = "poll_checked" => \A r \in t.expired : run[r] \in Leased => r \in t.requeue

Selecting(t) ==
    t.pc = "task_locked" =>
        /\ task \in {"active", "paused"} \/ t.chosen \subseteq participants
        /\ \A a \in t.works : work[a] \in {"queued", "running", "waiting_human"}
        /\ \A r \in t.runs : r[1] \in t.works
        /\ \A r \in Runs : r[1] \in t.works /\ run[r] \in Working => r \in t.runs

OneTaskLock ==
    \A s, z \in Sessions : tx[s].pc = "task_locked" /\ tx[z].pc = "task_locked" => s = z

\* Accepted work is settled for good.
Frozen ==
    /\ accepted => task \in {"completed", "archived"}
    /\ task \in {"awaiting_acceptance", "completed"} \/ accepted =>
         \A a \in Assignments : work[a] \in Settled

\* A transaction still knows what it read.
Informed(s) ==
    tx[s].pc # "result_loaded" /\ Held(tx[s]) /\ Polled(tx[s]) /\ Selecting(tx[s])

WorkInv ==
    /\ AttemptInv /\ Frozen /\ OneTaskLock
    /\ \A a \in Assignments : Fits(a)
    /\ \A s \in Sessions : Informed(s)

LEMMA WorkingIsOpen ==
    /\ Working \subseteq Open /\ Leased \subseteq Working /\ "waiting_human" \in Working
    /\ "queued" \notin Working /\ "queued" \in Open /\ "waiting_human" \notin Leased
    /\ Open \intersect Closed = {} /\ "none" \notin Open \union Closed
    /\ Closed \intersect Working = {} /\ "queued" \notin Closed
    /\ "interrupted" \in Closed /\ "cancelled" \in Closed
    /\ Progress \subseteq Working /\ Outcomes \subseteq Closed
BY ConstantsAssumption DEF Working, Open, Closed, Leased

\* An assignment has one open attempt.
LEMMA OpenAlone ==
    ASSUME AttemptInv, NEW r \in Runs, NEW q \in Runs, r[1] = q[1],
           run[r] \in Open, run[q] \in Open
    PROVE  r = q
<1>1. /\ r[2] \in Nat /\ q[2] \in Nat /\ r = <<r[1], r[2]>> /\ q = <<q[1], q[2]>>
      /\ q \in RunsOf(r[1]) /\ r \in RunsOf(q[1])
  BY RunsAreAttempts DEF RunsOf
<1>2. ~ (q[2] > r[2]) /\ ~ (r[2] > q[2])
  BY <1>1, WorkingIsOpen DEF AttemptInv, OneOpenRun
<1> QED BY <1>1, <1>2

\* The last attempt, when its successor was not made, has the latest number.
LEMMA LastIsOpen ==
    ASSUME AttemptInv, NEW r \in Runs, NEW q \in Runs, r[1] = q[1],
           Next1(r) \in Runs, run[Next1(r)] = "none", run[r] # "none", run[q] \in Open
    PROVE  r = q
<1>1. /\ r[2] \in Nat /\ q[2] \in Nat /\ r = <<r[1], r[2]>> /\ q = <<q[1], q[2]>>
      /\ q \in RunsOf(Next1(r)[1]) /\ r \in RunsOf(q[1]) /\ Next1(r)[2] = r[2] + 1
  BY RunsAreAttempts DEF RunsOf, Next1
<1>2. ~ (r[2] > q[2])
  BY <1>1 DEF AttemptInv, OneOpenRun
<1>3. ~ (q[2] > r[2] + 1) /\ q # Next1(r)
  BY <1>1, WorkingIsOpen DEF AttemptInv, AttemptsInOrder
<1>4. q[2] # r[2] + 1
  BY <1>1, <1>3 DEF Next1
<1> QED BY <1>1, <1>2, <1>3, <1>4

\* The run a report holds.
LEMMA HeldRun ==
    ASSUME WorkInv, NEW s \in Sessions, tx[s].pc = "run_locked"
    PROVE  /\ tx[s].run \in Runs /\ tx[s].run[1] \in Assignments
           /\ run[tx[s].run] \in Working /\ lease[tx[s].run] = "live"
           /\ tx[s].seen = work[tx[s].run[1]]
           /\ work[tx[s].run[1]] \in {"running", "waiting_human"}
           /\ \A q \in Runs : q[1] = tx[s].run[1] /\ run[q] \in Open => q = tx[s].run
<1>1. tx[s].run \in Runs /\ tx[s].run[1] \in Assignments
  BY TxFields, ReportFields, RunsAreAttempts DEF WorkInv, AttemptInv, TypeOK
<1>2. Held(tx[s]) /\ Fits(tx[s].run[1])
  BY <1>1 DEF WorkInv, Informed
<1>3. work[tx[s].run[1]] \in {"running", "waiting_human"}
  BY <1>1, <1>2 DEF Held, Fits, Working, RunsOf
<1> QED BY <1>1, <1>2, <1>3, OpenAlone, WorkingIsOpen DEF Held, WorkInv

-----------------------------------------------------------------------------
(***************************************************************************)
(* What a step may do to the rows another transaction has read.  RowStep:  *)
(* an expired lease stays so until its run is closed, and what closes the   *)
(* last attempt, or follows it, does not revive a cancelled assignment.     *)
(***************************************************************************)
RowStep ==
    \A r \in Runs :
        /\ run[r] \in Leased /\ lease[r] = "expired" =>
             \/ run'[r] \in Leased /\ lease'[r] = "expired"
             \/ /\ run'[r] \in Closed
                /\ Next1(r) \in Runs /\ run'[Next1(r)] = "none" => work'[r[1]] = "cancelled"
        /\ run[r] \in Closed /\ Next1(r) \in Runs /\ run'[Next1(r)] = "none"
             /\ work[r[1]] = "cancelled" => work'[r[1]] = "cancelled"

\* A step spares what transaction z has locked.
Spared(z) ==
    /\ tx[z].pc = "run_locked" =>
         /\ lease'[tx[z].run] = lease[tx[z].run]
         /\ work'[tx[z].run[1]] = work[tx[z].run[1]]
    /\ tx[z].pc = "task_locked" =>
         /\ task' = task /\ participants' = participants
         /\ \A a \in Assignments : work[a] \in {"queued", "running", "waiting_human"} =>
                                   work'[a] \in {"queued", "running", "waiting_human"}
         /\ \A r \in Runs : run'[r] \in Working => run[r] \in Working

LEMMA InformedKept ==
    ASSUME WorkInv, AttemptStep, LockStep, RowStep, NEW z \in Sessions, Spared(z),
           tx'[z] = tx[z]
    PROVE  Informed(z)'
<1>1. TypeOK /\ AttemptInv /\ Informed(z) /\ tx[z] \in TxStates
  BY DEF WorkInv, AttemptInv, TypeOK
<1>2. Held(tx[z])'
  BY <1>1 DEF Held, Informed, LockStep, Spared
<1>3. ASSUME tx[z].pc \in {"poll_read", "poll_checked"}, NEW r \in tx[z].expired
      PROVE  /\ \/ run'[r] \in Leased /\ lease'[r] = "expired"
                \/ /\ run'[r] \in Closed
                   /\ Next1(r) \in Runs /\ run'[Next1(r)] = "none" => work'[r[1]] = "cancelled"
             /\ run'[r] \in Leased => run[r] \in Leased
  <2>1. r \in Runs
    BY <1>1, <1>3, PollKnows
  <2>2. CASE run[r] \in Leased /\ lease[r] = "expired"
    BY <2>1, <2>2 DEF RowStep
  <2>3. CASE /\ run[r] \in Closed
             /\ Next1(r) \in Runs /\ run[Next1(r)] = "none" => work[r[1]] = "cancelled"
    <3>1. run'[r] \in Closed
      BY <2>1, <2>3 DEF AttemptStep
    <3>2. Next1(r) \in Runs /\ run'[Next1(r)] = "none" => run[Next1(r)] = "none"
      BY DEF AttemptStep
    <3>3. Next1(r) \in Runs /\ run'[Next1(r)] = "none" => work'[r[1]] = "cancelled"
      BY <2>1, <2>3, <3>2 DEF RowStep
    <3> QED BY <3>1, <3>3, WorkingIsOpen
  <2> QED BY <1>1, <1>3, <2>2, <2>3 DEF Informed, Polled
<1>4. Polled(tx[z])'
  BY <1>1, <1>3 DEF Polled, Informed
<1>5. Selecting(tx[z])'
  <2> SUFFICES ASSUME tx[z].pc = "task_locked"
               PROVE  /\ task' \in {"active", "paused"} \/ tx[z].chosen \subseteq participants'
                      /\ \A a \in tx[z].works :
                           work'[a] \in {"queued", "running", "waiting_human"}
                      /\ \A r \in tx[z].runs : r[1] \in tx[z].works
                      /\ \A r \in Runs : r[1] \in tx[z].works /\ run'[r] \in Working =>
                                           r \in tx[z].runs
    BY DEF Selecting
  <2>1. tx[z].works \in SUBSET Assignments
    BY <1>1, TxFields, SelectFields
  <2> QED BY <1>1, <2>1 DEF Informed, Selecting, Spared
<1> QED BY <1>1, <1>2, <1>4, <1>5 DEF Informed

LEMMA IdleInformed ==
    ASSUME TypeOK, NEW s \in Sessions, tx' = [tx EXCEPT ![s] = Idle]
    PROVE  /\ Informed(s)'
           /\ \A z \in Sessions : z # s => tx'[z] = tx[z]
           /\ OneTaskLock => OneTaskLock'
<1>1. tx'[s].pc = "idle" /\ (\A z \in Sessions : z # s => tx'[z] = tx[z])
  BY DEF TypeOK, Idle
<1> QED BY <1>1 DEF Informed, Held, Polled, Selecting, OneTaskLock

\* An assignment whose open attempts, and status, a step leaves alone.
LEMMA FitsKept ==
    ASSUME NEW a \in Assignments, Fits(a), AttemptStep, work'[a] = work[a],
           \A r \in RunsOf(a) : run'[r] = run[r] \/ (run[r] \in Closed /\ run'[r] \in Closed)
    PROVE  Fits(a)'
<1>1. <<a, 1>> \in Runs
  BY ConstantsAssumption, RunsAreAttempts DEF Attempts
<1>2. run[<<a, 1>>] # "none" => run'[<<a, 1>>] # "none"
  BY <1>1 DEF AttemptStep
<1>3. \A r \in RunsOf(a) : \A st \in Open : run'[r] = st <=> run[r] = st
  BY WorkingIsOpen
<1>4. \A r \in RunsOf(a) : run'[r] \in Leased <=> run[r] \in Leased
  BY WorkingIsOpen
<1>5. \A r \in RunsOf(a) : run'[r] \in Leased \union {"queued"} <=>
                           run[r] \in Leased \union {"queued"}
  BY <1>3, <1>4, WorkingIsOpen
<1>6. "queued" \in Open /\ "waiting_human" \in Open
  BY DEF Open
<1> QED BY <1>2, <1>3, <1>4, <1>5, <1>6 DEF Fits, RunsOf

-----------------------------------------------------------------------------
(* The steps of a poll and of a report.                                    *)

\* What the other transactions, the assignments and the Task make of a step
\* of session s that ends its transaction.
LEMMA EndOfTx ==
    ASSUME WorkInv, AttemptInv', AttemptStep, LockStep, RowStep, NEW s \in Sessions,
           tx' = [tx EXCEPT ![s] = Idle], \A z \in Sessions : z # s => Spared(z),
           \A a \in Assignments : Fits(a)', Frozen'
    PROVE  WorkInv'
<1>1. /\ Informed(s)'
      /\ \A z \in Sessions : z # s => tx'[z] = tx[z]
      /\ OneTaskLock'
  BY IdleInformed DEF WorkInv, AttemptInv
<1>2. \A z \in Sessions : z # s => Informed(z)'
  BY <1>1, InformedKept
<1> QED BY <1>1, <1>2 DEF WorkInv

\* A step that only reads, or gives up.
LEMMA ReadingStep ==
    ASSUME WorkInv, AttemptInv', NEW s \in Sessions,
           \A z \in Sessions : z # s => tx'[z] = tx[z], Informed(s)', OneTaskLock',
           UNCHANGED <<task, accepted, participants, work, assignee, run, lease, results>>
    PROVE  WorkInv'
<1>1. AttemptStep /\ LockStep
  BY SameRuns
<1>2. RowStep
  BY DEF RowStep
<1>3. \A z \in Sessions : Spared(z)
  BY DEF Spared
<1>4. \A z \in Sessions : z # s => Informed(z)'
  BY <1>1, <1>2, <1>3, InformedKept
<1>5. Frozen' /\ \A a \in Assignments : Fits(a)'
  BY DEF WorkInv, Frozen, Fits
<1> QED BY <1>4, <1>5 DEF WorkInv

LEMMA PollReads ==
    ASSUME WorkInv, AttemptInv', NEW s \in Sessions,
           PollCheck(s) \/ \E g \in Agents : PollRead(s, g)
    PROVE  WorkInv'
<1>1. TypeOK /\ Informed(s)
  BY DEF WorkInv, AttemptInv
<1>2. CASE \E g \in Agents : PollRead(s, g)
  <2>1. PICK g \in Agents : PollRead(s, g)
    BY <1>2
  <2>2. /\ tx'[s].pc = "poll_read" /\ tx'[s].expired = ExpiredRuns(g)
        /\ \A z \in Sessions : z # s => tx'[z] = tx[z]
    BY <1>1, <2>1 DEF PollRead, TypeOK
  <2>3. Informed(s)'
    BY <2>1, <2>2 DEF PollRead, Informed, Held, Polled, Selecting, ExpiredRuns
  <2>4. OneTaskLock'
    BY <2>2 DEF WorkInv, OneTaskLock
  <2> QED BY <2>1, <2>2, <2>3, <2>4, ReadingStep DEF PollRead
<1>3. CASE PollCheck(s)
  <2>1. tx[s].pc = "poll_read" /\ tx[s] \in PollTx /\ tx[s].expired \in SUBSET Runs
    BY <1>1, <1>3, TxFields, PollFields DEF PollCheck, TypeOK
  <2>2. /\ tx'[s].pc = "poll_checked"
        /\ tx'[s].expired = tx[s].expired
        /\ tx'[s].requeue = {r \in tx[s].expired : NeedsSuccessor(r)}
        /\ \A z \in Sessions : z # s => tx'[z] = tx[z]
    BY <1>1, <1>3, <2>1 DEF PollCheck, PollTx, TypeOK
  <2>3. ASSUME NEW r \in tx[s].expired, run[r] \in Leased
        PROVE  NeedsSuccessor(r)
    <3>1. r \in Runs /\ r[1] \in Assignments /\ r \in RunsOf(r[1])
      BY <2>1, RunsAreAttempts DEF RunsOf
    <3>2. work[r[1]] = "running"
      BY <2>3, <3>1 DEF WorkInv, Fits
    <3>3. ASSUME NEW q \in RunsOf(r[1]), run[q] = "queued" PROVE FALSE
      <4>1. q = r
        BY <2>3, <3>1, <3>3, OpenAlone, WorkingIsOpen DEF WorkInv, RunsOf
      <4> QED BY <2>3, <3>3, <4>1, WorkingIsOpen
    <3> QED BY <3>2, <3>3 DEF NeedsSuccessor
  <2>4. Informed(s)'
    <3>1. run' = run /\ lease' = lease /\ work' = work
      BY <1>3 DEF PollCheck
    <3>2. Polled(tx[s])' /\ tx[s].pc = "poll_read"
      BY <1>1, <2>1, <2>2, <2>3, <3>1 DEF Informed, Polled
    <3> QED BY <2>2, <3>2 DEF Informed, Held, Selecting
  <2>5. OneTaskLock'
    BY <2>2 DEF WorkInv, OneTaskLock
  <2> QED BY <1>3, <2>2, <2>4, <2>5, ReadingStep DEF PollCheck
<1> QED BY <1>2, <1>3

LEMMA ReportReads ==
    ASSUME WorkInv, AttemptInv', Prompt, NEW s \in Sessions,
           NEW r \in Runs, NEW to, UpdateLock(s, r, to) \/ ResultLock(s, r, to)
    PROVE  WorkInv'
<1>1. PICK b \in BOOLEAN :
        tx' = [tx EXCEPT ![s] = [pc |-> "run_locked", run |-> r, to |-> to,
                                 result |-> b, seen |-> work[r[1]]]]
  BY DEF UpdateLock, ResultLock
<1>2. /\ tx'[s].pc = "run_locked" /\ tx'[s].run = r /\ tx'[s].seen = work[r[1]]
      /\ \A z \in Sessions : z # s => tx'[z] = tx[z]
  BY <1>1 DEF WorkInv, AttemptInv, TypeOK
<1>3. run[r] \in Working /\ lease[r] = "live"
  BY DEF UpdateLock, ResultLock, LeaseValid, Working
<1>4. UNCHANGED <<task, accepted, participants, work, assignee, run, lease, results>>
  BY DEF UpdateLock, ResultLock
<1>5. Informed(s)'
  BY <1>2, <1>3, <1>4 DEF Informed, Held, Polled, Selecting
<1>6. OneTaskLock'
  BY <1>2 DEF WorkInv, OneTaskLock
<1> QED BY <1>2, <1>4, <1>5, <1>6, ReadingStep

\* The flush keeps the assignments it requeues, and closes an expired run only
\* as it makes the successor.
LEMMA FlushFits ==
    ASSUME WorkInv, NEW s \in Sessions, tx[s].pc = "poll_checked", FlushPasses(tx[s]),
           NEW r \in tx[s].expired
    PROVE  /\ r \in Runs
           /\ Requeued(tx[s])[r] = "interrupted"
           /\ run[r] \in Leased => /\ r \in tx[s].requeue /\ work[r[1]] = "running"
                                   /\ Next1(r) \in Runs /\ run[Next1(r)] = "none"
           /\ run[r] \in Leased \/ run[r] \in Closed
           /\ r \in tx[s].requeue /\ run[r] \in Closed => work[r[1]] = "cancelled"
<1>1. Informed(s) /\ r \in Runs
  BY PollKnows DEF WorkInv
<1>2. r[1] \in Assignments /\ r \in RunsOf(r[1])
  BY <1>1, RunsAreAttempts DEF RunsOf
<1>3. Requeued(tx[s])[r] = "interrupted"
  BY <1>1 DEF Requeued
<1>4. run[r] \in Leased => work[r[1]] = "running"
  BY <1>2 DEF WorkInv, Fits
<1>5. \A q \in tx[s].requeue : Next1(q) \in Runs /\ run[Next1(q)] = "none"
  BY DEF FlushPasses
<1> QED BY <1>1, <1>3, <1>4, <1>5, WorkingIsOpen DEF Informed, Polled

\* A flush leaves alone what is open and not one of its expired runs.
LEMMA FlushKeeps ==
    ASSUME WorkInv, NEW s \in Sessions, tx[s].pc = "poll_checked", FlushPasses(tx[s]),
           NEW r \in Runs
    PROVE  /\ \/ Requeued(tx[s])[r] = run[r]
              \/ r \in tx[s].expired
              \/ /\ run[r] = "none" /\ Requeued(tx[s])[r] = "queued"
                 /\ \E q \in tx[s].requeue : r = Next1(q)
           /\ run[r] # "none" /\ r \notin tx[s].expired => Requeued(tx[s])[r] = run[r]
BY DEF Requeued, FlushPasses

LEMMA FlushKeepsFits ==
    ASSUME WorkInv, AttemptStep, NEW s \in Sessions, tx[s].pc = "poll_checked",
           FlushPasses(tx[s]), NEW a \in Assignments, work'[a] = work[a],
           \A r \in RunsOf(a) : run'[r] = Requeued(tx[s])[r]
    PROVE  Fits(a)'
<1> DEFINE t == tx[s]
<1>1. Fits(a) /\ AttemptInv
  BY DEF WorkInv
<1>2. \A r \in RunsOf(a) : r \in Runs /\ r[1] = a
  BY DEF RunsOf
<1>3. t.expired \in SUBSET Runs /\ t.requeue \subseteq t.expired
  BY <1>1, PollKnows
<1>4. CASE \E r \in RunsOf(a) : r \in t.expired /\ run[r] \in Leased
  <2>1. PICK r \in RunsOf(a) : r \in t.expired /\ run[r] \in Leased
    BY <1>4
  <2>2. /\ r \in Runs /\ r[1] = a /\ run'[r] = "interrupted"
        /\ r \in t.requeue /\ work[a] = "running"
        /\ Next1(r) \in Runs /\ run[Next1(r)] = "none"
    BY <1>2, <2>1, FlushFits
  <2>3. Next1(r) \in RunsOf(a) /\ Next1(r) \notin t.expired
    BY <1>1, <2>2, PollKnows DEF Next1, RunsOf
  <2>4. run'[Next1(r)] = "queued"
    BY <2>2, <2>3 DEF Requeued
  <2>5. ASSUME NEW q \in RunsOf(a), q # r, q # Next1(r)
        PROVE  run'[q] \notin Open
    <3>1. q \in Runs /\ q[1] = r[1] /\ run[q] \notin Open
      BY <1>1, <1>2, <2>1, <2>2, <2>5, OpenAlone, WorkingIsOpen
    <3>2. CASE q \in t.expired
      BY <3>1, <3>2, FlushFits, WorkingIsOpen
    <3>3. CASE q \notin t.expired /\ run[q] # "none"
      BY <3>1, <3>3, FlushKeeps
    <3>4. CASE q \notin t.expired /\ run[q] = "none"
      <4>1. ASSUME NEW x \in t.requeue, q = Next1(x) PROVE FALSE
        <5>1. x \in t.expired /\ x \in Runs /\ x[1] = r[1] /\ x # r /\ run[x] # "none"
          BY <1>3, <1>2, <2>2, <2>5, <3>1, <4>1, PollKnows, RunsAreAttempts, <1>1 DEF Next1
        <5>2. Next1(x) \in Runs /\ run[Next1(x)] = "none"
          BY <3>1, <3>4, <4>1
        <5> QED BY <1>1, <2>1, <2>2, <5>1, <5>2, LastIsOpen, WorkingIsOpen
      <4> QED BY <3>4, <4>1, FlushKeeps, <3>1, WorkingIsOpen
    <3> QED BY <3>2, <3>3, <3>4
  <2>6. \A q \in RunsOf(a) : run'[q] \in Open => q = Next1(r)
    BY <2>2, <2>5, WorkingIsOpen
  <2>7. \A q \in RunsOf(a) : run'[q] \notin Leased /\ run'[q] # "waiting_human"
    BY <2>4, <2>6, WorkingIsOpen
  <2>8. run'[<<a, 1>>] # "none"
    <3>1. <<a, 1>> \in Runs
      BY ConstantsAssumption, RunsAreAttempts DEF Attempts
    <3> QED BY <1>1, <2>2, <3>1 DEF AttemptStep, Fits
  <2>9. work'[a] = "running"
    BY <2>2
  <2> QED BY <2>3, <2>4, <2>7, <2>8, <2>9 DEF Fits, RunsOf
<1>5. CASE work[a] = "cancelled"
  <2>1. \A r \in RunsOf(a) : run[r] \notin Leased /\ run[r] # "waiting_human"
    BY <1>1, <1>5 DEF Fits
  <2>2. ASSUME NEW r \in RunsOf(a)
        PROVE  run'[r] \notin Leased /\ run'[r] # "waiting_human"
    <3>1. r \in Runs /\ run'[r] = Requeued(t)[r]
      BY <1>2
    <3>2. CASE Requeued(t)[r] = run[r]
      BY <2>1, <3>1, <3>2
    <3>3. CASE r \in t.expired
      BY <3>1, <3>3, FlushFits, WorkingIsOpen
    <3>4. CASE Requeued(t)[r] = "queued"
      BY <3>1, <3>4, WorkingIsOpen
    <3> QED BY <3>1, <3>2, <3>3, <3>4, FlushKeeps
  <2>3. run'[<<a, 1>>] # "none"
    <3>1. <<a, 1>> \in Runs
      BY ConstantsAssumption, RunsAreAttempts DEF Attempts
    <3> QED BY <1>1, <1>5, <3>1 DEF AttemptStep, Fits
  <2> QED BY <1>5, <2>2, <2>3 DEF Fits, RunsOf
<1>6. CASE /\ work[a] # "cancelled"
           /\ ~ \E r \in RunsOf(a) : r \in t.expired /\ run[r] \in Leased
  <2>1. ASSUME NEW r \in RunsOf(a)
        PROVE  run'[r] = run[r] \/ (run[r] \in Closed /\ run'[r] \in Closed)
    <3>1. r \in Runs /\ r[1] = a /\ run'[r] = Requeued(t)[r]
      BY <1>2
    <3>2. CASE r \in t.expired
      BY <1>6, <3>1, <3>2, FlushFits, WorkingIsOpen
    <3>3. ASSUME NEW q \in t.requeue, r = Next1(q) PROVE FALSE
      <4>1. q \in t.expired /\ q \in Runs /\ q[1] = a /\ q \in RunsOf(a)
        BY <1>3, <3>1, <3>3 DEF Next1, RunsOf
      <4> QED BY <1>6, <3>3, <4>1, FlushFits
    <3> QED BY <3>1, <3>2, <3>3, FlushKeeps
  <2> QED BY <1>1, <2>1, FitsKept
<1> QED BY <1>4, <1>5, <1>6

\* What the flush of session s does to the rows the others read, if the rest of
\* its transaction only claims queued runs nobody holds.
LEMMA FlushRowStep ==
    ASSUME WorkInv, AttemptInv', NEW s \in Sessions, tx[s].pc = "poll_checked",
           FlushPasses(tx[s]),
           \A r \in Runs : \/ run'[r] = Requeued(tx[s])[r] /\ lease'[r] = lease[r]
                           \/ run'[r] \in Open /\ Requeued(tx[s])[r] = "queued",
           \A a \in Assignments : \/ work'[a] = work[a]
                                  \/ \E q \in RunsOf(a) : run'[q] \in Open
    PROVE  RowStep
<1> DEFINE t == tx[s]
<1>1. AttemptInv /\ t.expired \in SUBSET Runs
  BY PollKnows DEF WorkInv
<1>2. ASSUME NEW r \in Runs, run[r] \in Leased, lease[r] = "expired"
      PROVE  \/ run'[r] \in Leased /\ lease'[r] = "expired"
             \/ run'[r] \in Closed /\ Next1(r) \in Runs /\ run'[Next1(r)] # "none"
  <2>1. CASE r \in t.expired
    <3>1. /\ Requeued(t)[r] = "interrupted" /\ r \in t.requeue
          /\ Next1(r) \in Runs /\ run[Next1(r)] = "none"
      BY <1>2, <2>1, FlushFits
    <3>2. Next1(r) \notin t.expired
      BY <1>1, <3>1, PollKnows
    <3>3. Requeued(t)[Next1(r)] = "queued"
      BY <3>1, <3>2 DEF Requeued
    <3> QED BY <3>1, <3>3, WorkingIsOpen
  <2>2. CASE r \notin t.expired
    <3>1. Requeued(t)[r] = run[r] /\ run[r] # "queued"
      BY <1>2, <2>2, FlushKeeps, WorkingIsOpen
    <3> QED BY <1>2, <3>1
  <2> QED BY <2>1, <2>2
<1>3. ASSUME NEW r \in Runs, run[r] \in Closed, Next1(r) \in Runs, run'[Next1(r)] = "none",
             work[r[1]] = "cancelled"
      PROVE  work'[r[1]] = "cancelled"
  <2>1. r[1] \in Assignments /\ Next1(r)[1] = r[1] /\ Next1(r)[2] = r[2] + 1
        /\ r[2] \in Nat /\ r = <<r[1], r[2]>>
    BY <1>3, RunsAreAttempts DEF Next1
  <2>2. SUFFICES ASSUME NEW q \in RunsOf(r[1]), run'[q] \in Open PROVE FALSE
    BY <1>3, <2>1
  <2>3. q \in Runs /\ q[1] = r[1] /\ q[2] \in Nat /\ q = <<q[1], q[2]>>
    BY RunsAreAttempts DEF RunsOf
  <2>4. run'[r] \in Closed
    <3>1. CASE r \in t.expired
      BY <1>3, <3>1, FlushFits, WorkingIsOpen
    <3>2. CASE r \notin t.expired
      BY <1>3, <3>2, FlushKeeps, WorkingIsOpen
    <3> QED BY <3>1, <3>2
  <2>5. q \in RunsOf(Next1(r)[1]) /\ r \in RunsOf(q[1])
    BY <1>3, <2>1, <2>3 DEF RunsOf
  <2>6. ~ (q[2] > Next1(r)[2])
    BY <1>3, <2>2, <2>5, WorkingIsOpen DEF AttemptInv, AttemptsInOrder
  <2>7. ~ (r[2] > q[2])
    BY <2>2, <2>3, <2>4, <2>5, WorkingIsOpen DEF AttemptInv, OneOpenRun
  <2>8. q[2] = r[2] \/ q[2] = r[2] + 1
    BY <2>1, <2>3, <2>6, <2>7
  <2>9. q = r \/ q = Next1(r)
    BY <2>1, <2>3, <2>8 DEF Next1
  <2> QED BY <1>3, <2>2, <2>4, <2>9, WorkingIsOpen
<1> QED BY <1>2, <1>3 DEF RowStep

LEMMA PollWrites ==
    ASSUME WorkInv, AttemptInv', AttemptStep, LockStep, NEW s \in Sessions,
           PollOnly(s) \/ Claim(s)
    PROVE  WorkInv'
<1> DEFINE t == tx[s]
<1>1. t.pc = "poll_checked" /\ FlushPasses(t) /\ tx' = [tx EXCEPT ![s] = Idle]
      /\ task' = task /\ accepted' = accepted /\ participants' = participants
  BY DEF PollOnly, Claim
<1>2. TypeOK /\ AttemptInv /\ Frozen
  BY DEF WorkInv, AttemptInv
<1>3. \A z \in Sessions : tx[z].pc = "run_locked" =>
        /\ tx[z].run \in Runs /\ tx[z].run[1] \in Assignments /\ run[tx[z].run] \in Working
  BY HeldRun
<1>4. CASE PollOnly(s)
  <2>1. run' = Requeued(t) /\ lease' = lease /\ work' = work
    BY <1>4 DEF PollOnly
  <2>2. RowStep
    BY <1>1, <2>1, FlushRowStep
  <2>3. ASSUME NEW r \in Runs, run'[r] \in Working PROVE run[r] \in Working
    <3>1. r \notin t.expired /\ Requeued(t)[r] # "queued"
      BY <1>1, <2>1, <2>3, FlushFits, WorkingIsOpen
    <3> QED BY <1>1, <2>1, <2>3, <3>1, FlushKeeps
  <2>4. \A z \in Sessions : Spared(z)
    BY <1>1, <2>1, <2>3 DEF Spared
  <2>5. \A a \in Assignments : Fits(a)'
    BY <1>1, <2>1, FlushKeepsFits
  <2>6. Frozen'
    BY <1>1, <1>2, <2>1 DEF Frozen
  <2> QED BY <1>1, <2>2, <2>4, <2>5, <2>6, EndOfTx
<1>5. CASE Claim(s)
  <2>1. PICK q \in Runs :
          /\ Claimable(t, q)
          /\ run' = [Requeued(t) EXCEPT ![q] = "leased"]
          /\ lease' = [lease EXCEPT ![q] = "live"]
          /\ work' = [work EXCEPT ![q[1]] = "running"]
    BY <1>5 DEF Claim
  <2>2. /\ q[1] \in Assignments /\ q \in RunsOf(q[1])
        /\ Requeued(t)[q] = "queued" /\ RunFree(q) /\ TaskFree /\ task = "active"
    BY <2>1, RunsAreAttempts DEF Claimable, RunsOf
  <2>3. /\ run'[q] = "leased" /\ lease'[q] = "live" /\ work'[q[1]] = "running"
        /\ \A r \in Runs : r # q => run'[r] = Requeued(t)[r] /\ lease'[r] = lease[r]
        /\ \A a \in Assignments : a # q[1] => work'[a] = work[a]
    BY <1>2, <2>1, <2>2 DEF Requeued, TypeOK
  <2>4. RowStep
    <3>1. \A r \in Runs : \/ run'[r] = Requeued(t)[r] /\ lease'[r] = lease[r]
                          \/ run'[r] \in Open /\ Requeued(t)[r] = "queued"
      BY <2>2, <2>3, WorkingIsOpen, OpenAndClosed
    <3>2. \A a \in Assignments : \/ work'[a] = work[a]
                                 \/ \E x \in RunsOf(a) : run'[x] \in Open
      BY <2>2, <2>3, OpenAndClosed
    <3> QED BY <1>1, <3>1, <3>2, FlushRowStep
  <2>5. \A x \in Runs : x[1] = q[1] /\ x # q => run'[x] \notin Open
    <3> SUFFICES ASSUME NEW x \in Runs, x[1] = q[1], x # q, run'[x] \in Open
                 PROVE  FALSE
      OBVIOUS
    <3>1. /\ x[2] \in Nat /\ q[2] \in Nat /\ x = <<x[1], x[2]>> /\ q = <<q[1], q[2]>>
          /\ x \in RunsOf(q[1]) /\ q \in RunsOf(x[1])
      BY RunsAreAttempts DEF RunsOf
    <3>2. run'[q] # "none" /\ run'[q] \in Open /\ run'[x] # "none"
      BY <2>3, OpenAndClosed, WorkingIsOpen
    <3>3. ~ (x[2] > q[2]) /\ ~ (q[2] > x[2])
      BY <3>1, <3>2 DEF AttemptInv, OneOpenRun
    <3> QED BY <3>1, <3>3
  <2>6. ASSUME NEW z \in Sessions PROVE Spared(z)
    <3>1. tx[z].pc # "task_locked"
      BY <2>2 DEF TaskFree
    <3>2. ASSUME tx[z].pc = "run_locked"
          PROVE  tx[z].run # q /\ tx[z].run[1] # q[1]
      <4>1. tx[z].run # q
        BY <2>2, <3>2 DEF RunFree
      <4>2. run'[tx[z].run] \in Open
        <5>1. run[tx[z].run] \in Open /\ tx[z].run \in Runs
          BY <1>3, <3>2, WorkingIsOpen
        <5>2. tx[z].run \notin t.expired
          BY <1>1, <3>2 DEF FlushPasses, RunFree
        <5> QED BY <1>1, <2>3, <4>1, <5>1, <5>2, FlushKeeps, WorkingIsOpen
      <4> QED BY <1>3, <2>5, <3>2, <4>1, <4>2
    <3> QED BY <1>3, <2>3, <3>1, <3>2 DEF Spared
  <2>7. ASSUME NEW a \in Assignments PROVE Fits(a)'
    <3>1. CASE a = q[1]
      <4>1. \A r \in RunsOf(a) : r \in Runs /\ (r # q => run'[r] \notin Open)
        BY <2>5, <3>1 DEF RunsOf
      <4>2. run'[<<a, 1>>] # "none"
        <5>1. q[2] \in Nat /\ q[2] >= 1 /\ q = <<q[1], q[2]>> /\ <<a, 1>> \in Runs
              /\ q \in RunsOf(<<a, 1>>[1])
          BY <2>2, <3>1, ConstantsAssumption, RunsAreAttempts DEF Attempts
        <5>2. <<a, 1>> = q \/ q[2] > 1
          BY <3>1, <5>1
        <5> QED BY <2>3, <5>1, <5>2 DEF AttemptInv, AttemptsInOrder
      <4>3. "leased" \in Leased /\ "leased" \in Open /\ "waiting_human" \in Open
            /\ "queued" \in Open /\ Leased \subseteq Open
        BY DEF Leased, Open
      <4> QED BY <2>2, <2>3, <3>1, <4>1, <4>2, <4>3 DEF Fits, RunsOf
    <3>2. CASE a # q[1]
      <4>1. \A r \in RunsOf(a) : r \in Runs /\ r # q
        BY <3>2 DEF RunsOf
      <4> QED BY <1>1, <2>3, <3>2, <4>1, FlushKeepsFits
    <3> QED BY <3>1, <3>2
  <2>8. Frozen'
    BY <1>1, <1>2, <2>2 DEF Frozen
  <2> QED BY <1>1, <2>4, <2>6, <2>7, <2>8, EndOfTx
<1> QED BY <1>4, <1>5

\* A report changes the run it holds, and the assignment of that run alone.
LEMMA ReportRowStep ==
    ASSUME WorkInv, AttemptInv', AttemptStep, NEW s \in Sessions, tx[s].pc = "run_locked",
           \A r \in Runs : r # tx[s].run => run'[r] = run[r] /\ lease'[r] = lease[r],
           \A a \in Assignments : a # tx[s].run[1] => work'[a] = work[a]
    PROVE  /\ RowStep
           /\ \A z \in Sessions : z # s /\ tx[z].pc = "run_locked" =>
                /\ lease'[tx[z].run] = lease[tx[z].run]
                /\ work'[tx[z].run[1]] = work[tx[z].run[1]]
<1> DEFINE h == tx[s].run
<1>1. /\ h \in Runs /\ h[1] \in Assignments
      /\ run[h] \in Working /\ lease[h] = "live"
      /\ work[h[1]] \in {"running", "waiting_human"}
      /\ \A q \in Runs : q[1] = h[1] /\ run[q] \in Open => q = h
  BY HeldRun
<1>2. RowStep
  <2>1. ASSUME NEW r \in Runs, run[r] \in Leased, lease[r] = "expired"
        PROVE  run'[r] \in Leased /\ lease'[r] = "expired"
    BY <1>1, <2>1
  <2>2. ASSUME NEW r \in Runs, work[r[1]] = "cancelled" PROVE work'[r[1]] = "cancelled"
    BY <1>1, <2>2, RunsAreAttempts
  <2> QED BY <2>1, <2>2 DEF RowStep
<1>3. ASSUME NEW z \in Sessions, z # s, tx[z].pc = "run_locked"
      PROVE  tx[z].run \in Runs /\ tx[z].run # h /\ tx[z].run[1] # h[1]
                                /\ tx[z].run[1] \in Assignments
  <2>1. /\ tx[z].run \in Runs /\ run[tx[z].run] \in Open /\ tx[z].run[1] \in Assignments
    BY <1>3, HeldRun, WorkingIsOpen
  <2>2. tx[z].run # h
    BY <1>3 DEF WorkInv, AttemptInv, RunLocksExclusive
  <2> QED BY <1>1, <2>1, <2>2
<1> QED BY <1>2, <1>3

LEMMA ReportCommits ==
    ASSUME WorkInv, AttemptInv', AttemptStep, LockStep, NEW s \in Sessions,
           UpdateCommit(s) \/ ResultCommit(s)
    PROVE  WorkInv' /\ ~accepted /\ work[tx[s].run[1]] # "completed"
<1> DEFINE t == tx[s]
           h == t.run
<1>1. /\ t.pc = "run_locked" /\ tx' = [tx EXCEPT ![s] = Idle]
      /\ task' = task /\ accepted' = accepted /\ participants' = participants
  BY DEF UpdateCommit, ResultCommit
<1>2. TypeOK /\ AttemptInv /\ Frozen
  BY DEF WorkInv, AttemptInv
<1>3. /\ h \in Runs /\ h[1] \in Assignments /\ h \in RunsOf(h[1])
      /\ run[h] \in Working /\ lease[h] = "live" /\ t.seen = work[h[1]]
      /\ work[h[1]] \in {"running", "waiting_human"}
      /\ \A q \in Runs : q[1] = h[1] /\ run[q] \in Open => q = h
      /\ t.result => t.to \in Outcomes
      /\ ~t.result => t.to \in Progress
  BY <1>1, <1>2, HeldRun, TxFields, ReportFields DEF RunsOf, TypeOK
<1>4. /\ task \notin {"awaiting_acceptance", "completed"} /\ ~accepted
      /\ work[h[1]] # "completed"
  BY <1>2, <1>3 DEF Frozen, Settled
<1>5. /\ \A r \in Runs : r # h => run'[r] = run[r] /\ lease'[r] = lease[r]
      /\ \A a \in Assignments : a # h[1] => work'[a] = work[a]
  BY <1>2, <1>3 DEF UpdateCommit, ResultCommit, TypeOK
<1>6. /\ UpdateCommit(s) =>
           run'[h] \in Progress /\ run'[h] = t.to /\ work'[h[1]] = WorkStatus(t.to)
      /\ ResultCommit(s) => TaskFree /\ run'[h] \in Outcomes /\ work'[h[1]] \in Outcomes
  BY <1>2, <1>3 DEF UpdateCommit, ResultCommit, TypeOK
<1>7. /\ RowStep
      /\ \A z \in Sessions : z # s /\ tx[z].pc = "run_locked" =>
           /\ lease'[tx[z].run] = lease[tx[z].run]
           /\ work'[tx[z].run[1]] = work[tx[z].run[1]]
  BY <1>1, <1>5, ReportRowStep
<1>8. ASSUME NEW z \in Sessions, tx[z].pc = "task_locked"
      PROVE  /\ \A a \in Assignments : work[a] \in {"queued", "running", "waiting_human"} =>
                                       work'[a] \in {"queued", "running", "waiting_human"}
             /\ \A r \in Runs : run'[r] \in Working => run[r] \in Working
  <2>1. UpdateCommit(s)
    BY <1>6, <1>8 DEF TaskFree
  <2> QED BY <1>3, <1>5, <1>6, <2>1 DEF WorkStatus
<1>9. \A z \in Sessions : z # s => Spared(z)
  BY <1>1, <1>7, <1>8 DEF Spared
<1>10. ASSUME NEW a \in Assignments PROVE Fits(a)'
  <2>1. CASE a # h[1]
    <3>1. \A r \in RunsOf(a) : r \in Runs /\ r # h
      BY <2>1 DEF RunsOf
    <3> QED BY <1>5, <2>1, <3>1, FitsKept DEF WorkInv
  <2>2. CASE a = h[1]
    <3>1. \A r \in RunsOf(a) : r # h => run'[r] \notin Open
      BY <1>3, <1>5, <2>2 DEF RunsOf
    <3>2. run'[<<a, 1>>] # "none"
      <4>1. <<a, 1>> \in Runs /\ work[a] # "none"
        BY <1>3, <2>2, ConstantsAssumption, RunsAreAttempts DEF Attempts
      <4> QED BY <4>1 DEF WorkInv, AttemptStep, Fits
    <3>3. CASE UpdateCommit(s)
      <4>1. /\ t.to \in {"starting", "running", "waiting_human"} /\ run'[h] = t.to
            /\ work'[a] = WorkStatus(t.to)
        BY <1>3, <1>6, <2>2, <3>3, ConstantsAssumption DEF UpdateCommit
      <4> QED BY <1>3, <2>2, <3>1, <3>2, <4>1, WorkingIsOpen
              DEF Fits, RunsOf, WorkStatus, Leased, Open
    <3>4. CASE ResultCommit(s)
      <4>1. /\ run'[h] \notin Open /\ work'[a] \in {"completed", "partial", "failed", "cancelled"}
        BY <1>6, <2>2, <3>4, WorkingIsOpen, ConstantsAssumption
      <4>2. \A r \in RunsOf(a) : run'[r] \notin Open
        BY <3>1, <4>1
      <4> QED BY <3>2, <4>1, <4>2 DEF Fits, RunsOf, Open
    <3> QED BY <3>3, <3>4
  <2> QED BY <2>1, <2>2
<1>11. Frozen'
  BY <1>1, <1>4 DEF Frozen
<1> QED BY <1>1, <1>4, <1>7, <1>9, <1>10, <1>11, EndOfTx

-----------------------------------------------------------------------------
(* The choice of agents, the Human commands, and time.                     *)

\* New rows fit, and touch nothing that a transaction has read; w and rs are
\* the tables with the cancellations of the same transaction.
LEMMA QueueFits ==
    ASSUME WorkInv, AttemptStep, NEW gs, NEW f \in NewWork(gs, work),
           NEW w \in [Assignments -> WorkStatuses], NEW rs \in [Runs -> RunStatuses],
           work' = QueuedWork(f, w), run' = QueuedRuns(f, rs),
           \A r \in Runs : run[r] = "none" => rs[r] = "none"
    PROVE  /\ \A a \in Assignments : work[a] # "none" =>
                work'[a] = w[a] /\ \A r \in RunsOf(a) : run'[r] = rs[r]
           /\ \A a \in Assignments : work[a] = "none" =>
                \/ Fits(a)'
                \/ work'[a] = w[a] /\ \A r \in RunsOf(a) : run'[r] = "none"
           /\ \A r \in Runs : run[r] # "none" =>
                work[r[1]] # "none" /\ r[1] \in Assignments /\ r \in RunsOf(r[1])
           /\ gs = {} => work' = w
<1>1. \A a \in AddedTo(f) : a \in Assignments /\ work[a] = "none"
  BY DEF NewWork, AddedTo
<1>2. \A r \in Runs : run[r] # "none" =>
        work[r[1]] # "none" /\ r[1] \in Assignments /\ r \in RunsOf(r[1])
  BY RunsAreAttempts DEF WorkInv, AttemptInv, UnusedHasNoRuns, RunsOf
<1>3. /\ \A a \in Assignments : work'[a] = IF a \in AddedTo(f) THEN "queued" ELSE w[a]
      /\ \A r \in Runs : run'[r] = IF r[1] \in AddedTo(f) /\ r[2] = 1 THEN "queued" ELSE rs[r]
  BY DEF QueuedWork, QueuedRuns
<1>4. ASSUME NEW a \in Assignments, work[a] # "none"
      PROVE  work'[a] = w[a] /\ \A r \in RunsOf(a) : run'[r] = rs[r]
  BY <1>1, <1>3, <1>4 DEF RunsOf
<1>5. ASSUME NEW a \in Assignments, work[a] = "none", a \in AddedTo(f)
      PROVE  Fits(a)'
  <2>1. <<a, 1>> \in Runs /\ <<a, 1>> \in RunsOf(a) /\ \A r \in RunsOf(a) : r \in Runs /\ r[1] = a
    BY ConstantsAssumption, RunsAreAttempts DEF Attempts, RunsOf
  <2>2. \A r \in RunsOf(a) : run[r] = "none" /\ rs[r] = "none"
    BY <1>2, <1>5, <2>1
  <2>3. work'[a] = "queued" /\ run'[<<a, 1>>] = "queued"
        /\ \A r \in RunsOf(a) : run'[r] \in {"none", "queued"}
    BY <1>3, <1>5, <2>1, <2>2
  <2> QED BY <2>1, <2>3 DEF Fits, RunsOf, Leased
<1>6. ASSUME NEW a \in Assignments, work[a] = "none", a \notin AddedTo(f)
      PROVE  work'[a] = w[a] /\ \A r \in RunsOf(a) : run'[r] = "none"
  <2>1. \A r \in RunsOf(a) : r \in Runs /\ r[1] = a /\ run[r] = "none" /\ rs[r] = "none"
    BY <1>2, <1>6 DEF RunsOf
  <2> QED BY <1>3, <1>6, <2>1
<1>7. gs = {} => work' = w
  <2> SUFFICES ASSUME gs = {} PROVE work' = w
    OBVIOUS
  <2>1. AddedTo(f) = {}
    BY DEF NewWork, AddedTo
  <2> QED BY <2>1 DEF QueuedWork
<1> QED BY <1>2, <1>4, <1>5, <1>6, <1>7

\* A row that stays unused.
LEMMA UnusedFits ==
    ASSUME NEW a \in Assignments, work'[a] = "none", \A r \in RunsOf(a) : run'[r] = "none"
    PROVE  Fits(a)'
<1>1. \A r \in RunsOf(a) :
        run'[r] \notin Leased /\ run'[r] # "waiting_human" /\ run'[r] # "queued"
  BY DEF Leased
<1> QED BY <1>1 DEF Fits, RunsOf

LEMMA SelectReads ==
    ASSUME WorkInv, AttemptInv', NEW s \in Sessions, NEW h \in {OwnerOf[g] : g \in Agents},
           LeaveRead(s, h) \/ \E chosen \in (SUBSET AgentsOf(h)) \ {{}} : SelectRead(s, h, chosen)
    PROVE  WorkInv'
<1>1. PICK after, gs : /\ LockAndRead(s, after, gs)
                       /\ task \in {"active", "paused"} \/ after \subseteq participants
  BY DEF LeaveRead, SelectRead
<1>2. /\ tx'[s].pc = "task_locked" /\ tx'[s].chosen = after
      /\ tx'[s].works = OpenWorkOf(gs)
      /\ tx'[s].runs = {r \in Runs : r[1] \in OpenWorkOf(gs) /\ run[r] \in Open}
      /\ \A z \in Sessions : z # s => tx'[z] = tx[z]
      /\ \A z \in Sessions : tx[z].pc # "task_locked"
      /\ UNCHANGED <<task, accepted, participants, work, assignee, run, lease, results>>
  BY <1>1 DEF LockAndRead, WorkInv, AttemptInv, TypeOK, TaskFree
<1>3. Informed(s)'
  <2>1. \A a \in OpenWorkOf(gs) : work[a] \in {"queued", "running", "waiting_human"}
    BY DEF OpenWorkOf
  <2>2. Selecting(tx[s])'
    BY <1>1, <1>2, <2>1, WorkingIsOpen DEF Selecting
  <2> QED BY <1>2, <2>2 DEF Informed, Held, Polled
<1>4. OneTaskLock'
  BY <1>2 DEF OneTaskLock
<1> QED BY <1>2, <1>3, <1>4, ReadingStep

LEMMA SelectCommits ==
    ASSUME WorkInv, AttemptInv', AttemptStep, LockStep, NEW s \in Sessions, SelectCommit(s)
    PROVE  /\ WorkInv'
           /\ accepted => work' = work
           /\ \A a \in Assignments : work[a] = "completed" => work'[a] = "completed"
<1> DEFINE t == tx[s]
           w == [a \in Assignments |-> IF a \in t.works THEN "cancelled" ELSE work[a]]
           rs == [r \in Runs |-> IF r \in t.runs THEN "cancelled" ELSE run[r]]
           gs == t.chosen \ participants
<1>1. /\ t.pc = "task_locked" /\ tx' = [tx EXCEPT ![s] = Idle]
      /\ task' = task /\ accepted' = accepted /\ \A r \in t.runs : RunFree(r)
      /\ lease' = [r \in Runs |-> IF r \in t.runs THEN "none" ELSE lease[r]]
  BY DEF SelectCommit
<1>2. PICK f \in NewWork(gs, work) : work' = QueuedWork(f, w) /\ run' = QueuedRuns(f, rs)
  BY DEF SelectCommit
<1>3. TypeOK /\ AttemptInv /\ Frozen /\ Informed(s) /\ Selecting(t)
  BY DEF WorkInv, AttemptInv, Informed
<1>4. /\ task \in {"active", "paused"} \/ gs = {}
      /\ \A a \in t.works : work[a] \in {"queued", "running", "waiting_human"}
      /\ \A r \in t.runs : r[1] \in t.works
      /\ \A r \in Runs : r[1] \in t.works /\ run[r] \in Working => r \in t.runs
  BY <1>1, <1>3 DEF Selecting
<1>5. /\ t.works \in SUBSET Assignments /\ t.runs \in SUBSET Runs
      /\ \A r \in t.runs : run[r] # "none"
  BY <1>1, <1>3, TxFields, SelectFields DEF TypeOK, AttemptInv, TxActsOnRuns
<1>6. w \in [Assignments -> WorkStatuses] /\ rs \in [Runs -> RunStatuses]
  BY <1>3 DEF TypeOK, WorkStatuses, RunStatuses, Closed
<1>7. /\ \A a \in Assignments : w[a] = IF a \in t.works THEN "cancelled" ELSE work[a]
      /\ \A r \in Runs : rs[r] = IF r \in t.runs THEN "cancelled" ELSE run[r]
      /\ \A r \in Runs : run[r] = "none" => rs[r] = "none"
  BY <1>5
<1>8. w = work \/ \E a \in t.works : a \in Assignments
  BY <1>3, <1>5 DEF TypeOK
<1> HIDE DEF w, rs, gs
<1>9. /\ \A a \in Assignments : work[a] # "none" =>
           work'[a] = w[a] /\ \A r \in RunsOf(a) : run'[r] = rs[r]
      /\ \A a \in Assignments : work[a] = "none" =>
           \/ Fits(a)'
           \/ work'[a] = w[a] /\ \A r \in RunsOf(a) : run'[r] = "none"
      /\ \A r \in Runs : run[r] # "none" =>
           work[r[1]] # "none" /\ r[1] \in Assignments /\ r \in RunsOf(r[1])
      /\ gs = {} => work' = w
  BY <1>2, <1>6, <1>7, QueueFits
<1>10. \A r \in Runs : run[r] # "none" => run'[r] = rs[r] /\ work'[r[1]] = w[r[1]]
  BY <1>9
<1>11. RowStep
  <2>1. ASSUME NEW r \in Runs, run[r] \in Leased, lease[r] = "expired"
        PROVE  \/ run'[r] \in Leased /\ lease'[r] = "expired"
               \/ run'[r] \in Closed /\ work'[r[1]] = "cancelled"
    <3>1. run'[r] = rs[r] /\ work'[r[1]] = w[r[1]] /\ run[r] \in Working /\ r[1] \in Assignments
      BY <1>10, <2>1, WorkingIsOpen, RunsAreAttempts
    <3>2. CASE r[1] \in t.works
      BY <1>4, <1>7, <3>1, <3>2, WorkingIsOpen
    <3>3. CASE r[1] \notin t.works
      BY <1>1, <1>4, <1>7, <2>1, <3>1, <3>3
    <3> QED BY <3>2, <3>3
  <2>2. ASSUME NEW r \in Runs, run[r] \in Closed, work[r[1]] = "cancelled"
        PROVE  work'[r[1]] = "cancelled"
    BY <1>7, <1>10, <2>2, WorkingIsOpen, RunsAreAttempts
  <2> QED BY <2>1, <2>2 DEF RowStep
<1>12. ASSUME NEW z \in Sessions, z # s PROVE Spared(z)
  <2>1. tx[z].pc # "task_locked"
    BY <1>1, <1>12 DEF WorkInv, OneTaskLock
  <2>2. ASSUME tx[z].pc = "run_locked"
        PROVE  /\ lease'[tx[z].run] = lease[tx[z].run]
               /\ work'[tx[z].run[1]] = work[tx[z].run[1]]
    <3>1. /\ tx[z].run \in Runs /\ tx[z].run[1] \in Assignments /\ run[tx[z].run] \in Working
          /\ tx[z].run \notin t.runs /\ run[tx[z].run] # "none"
      BY <1>1, <2>2, HeldRun, WorkingIsOpen DEF RunFree
    <3>2. tx[z].run[1] \notin t.works
      BY <1>4, <3>1
    <3> QED BY <1>1, <1>7, <1>10, <3>1, <3>2
  <2> QED BY <2>1, <2>2 DEF Spared
<1>13. ASSUME NEW a \in Assignments PROVE Fits(a)'
  <2>0. Fits(a)
    BY DEF WorkInv
  <2>1. CASE work[a] = "none"
    <3>1. w[a] = "none"
      BY <1>4, <1>7, <2>1
    <3> QED BY <1>9, <2>1, <3>1, UnusedFits
  <2>2. CASE work[a] # "none" /\ a \in t.works
    <3>1. work'[a] = "cancelled"
      BY <1>7, <1>9, <2>2
    <3>2. \A r \in RunsOf(a) : run'[r] \notin Working
      BY <1>4, <1>7, <1>9, <2>2, WorkingIsOpen DEF RunsOf
    <3>3. run'[<<a, 1>>] # "none"
      <4>1. <<a, 1>> \in Runs
        BY ConstantsAssumption, RunsAreAttempts DEF Attempts
      <4> QED BY <2>0, <2>2, <4>1 DEF AttemptStep, Fits
    <3>4. Leased \subseteq Working /\ "waiting_human" \in Working
      BY DEF Working
    <3> QED BY <3>1, <3>2, <3>3, <3>4 DEF Fits, RunsOf
  <2>3. CASE work[a] # "none" /\ a \notin t.works
    <3>1. work'[a] = work[a] /\ \A r \in RunsOf(a) : run'[r] = run[r]
      BY <1>4, <1>7, <1>9, <2>3 DEF RunsOf
    <3> QED BY <2>0, <3>1, FitsKept
  <2> QED BY <2>1, <2>2, <2>3
<1>14. task \in {"awaiting_acceptance", "completed"} \/ accepted => work' = work
  <2> SUFFICES ASSUME task \in {"awaiting_acceptance", "completed"} \/ accepted
               PROVE  work' = work
    OBVIOUS
  <2>1. \A a \in Assignments : work[a] \in Settled
    BY <1>3 DEF Frozen
  <2>2. gs = {}
    BY <1>3, <1>4 DEF Frozen
  <2>3. \A a \in t.works : a \notin Assignments
    BY <1>4, <2>1 DEF Settled
  <2> QED BY <1>8, <1>9, <2>2, <2>3
<1>15. Frozen'
  BY <1>1, <1>3, <1>14 DEF Frozen
<1>16. \A a \in Assignments : work[a] = "completed" => work'[a] = "completed"
  BY <1>4, <1>7, <1>9
<1> QED BY <1>1, <1>11, <1>12, <1>13, <1>14, <1>15, <1>16, EndOfTx

\* A Human command under the Task's lock, which no selection holds meanwhile.
LEMMA CommandKeeps ==
    ASSUME WorkInv, AttemptInv', AttemptStep, LockStep, RowStep, TaskFree, tx' = tx,
           \A z \in Sessions : tx[z].pc = "run_locked" =>
             /\ lease'[tx[z].run] = lease[tx[z].run]
             /\ work'[tx[z].run[1]] = work[tx[z].run[1]],
           \A a \in Assignments : Fits(a)', Frozen'
    PROVE  WorkInv'
<1>1. \A z \in Sessions : Spared(z)
  BY DEF Spared, TaskFree
<1>2. \A z \in Sessions : Informed(z)'
  BY <1>1, InformedKept
<1>3. OneTaskLock'
  BY DEF WorkInv, OneTaskLock
<1> QED BY <1>2, <1>3 DEF WorkInv

LEMMA QueueingCommand ==
    ASSUME WorkInv, AttemptInv', AttemptStep, LockStep, NEW gs, Queue(gs), TaskFree,
           UNCHANGED <<accepted, lease, results, tx>>,
           task' \in {"active", "paused"}, ~accepted
    PROVE  /\ WorkInv'
           /\ \A a \in Assignments : work[a] = "completed" => work'[a] = "completed"
<1>1. PICK f \in NewWork(gs, work) : work' = QueuedWork(f, work) /\ run' = QueuedRuns(f, run)
  BY DEF Queue
<1>2. TypeOK
  BY DEF WorkInv, AttemptInv
<1>3. /\ \A a \in Assignments : work[a] # "none" =>
           work'[a] = work[a] /\ \A r \in RunsOf(a) : run'[r] = run[r]
      /\ \A a \in Assignments : work[a] = "none" =>
           \/ Fits(a)'
           \/ work'[a] = work[a] /\ \A r \in RunsOf(a) : run'[r] = "none"
      /\ \A r \in Runs : run[r] # "none" =>
           work[r[1]] # "none" /\ r[1] \in Assignments /\ r \in RunsOf(r[1])
  BY <1>1, <1>2, QueueFits DEF TypeOK
<1>4. \A r \in Runs : run[r] # "none" => run'[r] = run[r] /\ work'[r[1]] = work[r[1]]
  BY <1>3
<1>5. RowStep
  BY <1>4, WorkingIsOpen DEF RowStep
<1>6. ASSUME NEW z \in Sessions, tx[z].pc = "run_locked"
      PROVE  /\ lease'[tx[z].run] = lease[tx[z].run]
             /\ work'[tx[z].run[1]] = work[tx[z].run[1]]
  BY <1>4, <1>6, HeldRun, WorkingIsOpen
<1>7. ASSUME NEW a \in Assignments PROVE Fits(a)'
  <2>1. CASE work[a] # "none"
    BY <1>3, <2>1, FitsKept DEF WorkInv
  <2>2. CASE work[a] = "none"
    BY <1>3, <2>2, UnusedFits
  <2> QED BY <2>1, <2>2
<1>8. Frozen'
  BY DEF Frozen
<1> QED BY <1>3, <1>5, <1>6, <1>7, <1>8, CommandKeeps

LEMMA CancelQueuedKeeps ==
    ASSUME WorkInv, AttemptInv', AttemptStep, LockStep, NEW a \in Assignments, CancelQueued(a)
    PROVE  WorkInv' /\ ~accepted
<1>1. TypeOK /\ Frozen /\ Fits(a)
  BY DEF WorkInv, AttemptInv
<1>2. /\ TaskFree /\ tx' = tx /\ work[a] = "queued" /\ work'[a] = "cancelled"
      /\ task' = task /\ accepted' = accepted
      /\ \A b \in Assignments : b # a => work'[b] = work[b]
      /\ \A r \in Runs : r[1] # a => run'[r] = run[r] /\ lease'[r] = lease[r]
      /\ \A r \in RunsOf(a) : /\ run[r] \notin Working
                              /\ run'[r] = IF run[r] = "queued" THEN "cancelled" ELSE run[r]
                              /\ lease'[r] = IF run[r] = "queued" THEN "none" ELSE lease[r]
  BY <1>1 DEF CancelQueued, TypeOK, RunsOf, Working
<1>3. task \notin {"awaiting_acceptance", "completed"} /\ ~accepted
  BY <1>1, <1>2 DEF Frozen, Settled
<1>4. \A r \in Runs : r[1] = a => r \in RunsOf(a)
  BY DEF RunsOf
<1>5. \A r \in Runs : run[r] \in Working => r[1] # a
  BY <1>2, <1>4
<1>6. RowStep
  <2>1. ASSUME NEW r \in Runs, run[r] \in Leased, lease[r] = "expired"
        PROVE  run'[r] \in Leased /\ lease'[r] = "expired"
    BY <1>2, <1>5, <2>1, WorkingIsOpen
  <2>2. ASSUME NEW r \in Runs, work[r[1]] = "cancelled" PROVE work'[r[1]] = "cancelled"
    BY <1>2, <2>2, RunsAreAttempts
  <2> QED BY <2>1, <2>2 DEF RowStep
<1>7. ASSUME NEW z \in Sessions, tx[z].pc = "run_locked"
      PROVE  /\ lease'[tx[z].run] = lease[tx[z].run]
             /\ work'[tx[z].run[1]] = work[tx[z].run[1]]
  BY <1>2, <1>5, <1>7, HeldRun
<1>8. ASSUME NEW b \in Assignments PROVE Fits(b)'
  <2>1. CASE b # a
    <3>1. \A r \in RunsOf(b) : run'[r] = run[r]
      BY <1>2, <2>1 DEF RunsOf
    <3> QED BY <1>2, <2>1, <3>1, FitsKept DEF WorkInv
  <2>2. CASE b = a
    <3>1. \A r \in RunsOf(a) : run'[r] \notin Working /\ run'[r] # "queued"
      BY <1>2, WorkingIsOpen
    <3>2. run'[<<a, 1>>] # "none"
      <4>1. <<a, 1>> \in Runs
        BY ConstantsAssumption, RunsAreAttempts DEF Attempts
      <4> QED BY <1>1, <1>2, <4>1 DEF AttemptStep, Fits
    <3>3. Leased \subseteq Working /\ "waiting_human" \in Working
      BY DEF Working
    <3> QED BY <1>2, <2>2, <3>1, <3>2, <3>3 DEF Fits, RunsOf
  <2> QED BY <2>1, <2>2
<1>9. Frozen'
  BY <1>2, <1>3 DEF Frozen
<1> QED BY <1>2, <1>3, <1>6, <1>7, <1>8, <1>9, CommandKeeps

LEMMA RespondKeeps ==
    ASSUME WorkInv, AttemptInv', AttemptStep, LockStep, NEW r \in Runs, Respond(r)
    PROVE  WorkInv' /\ ~accepted /\ work[r[1]] = "waiting_human"
           /\ work' = [work EXCEPT ![r[1]] = "queued"]
<1> DEFINE n == Next1(r)
<1>1. TypeOK /\ AttemptInv /\ Frozen /\ r[1] \in Assignments /\ r \in RunsOf(r[1])
  BY RunsAreAttempts DEF WorkInv, AttemptInv, RunsOf
<1>2. /\ TaskFree /\ tx' = tx /\ task = "active" /\ task' = task /\ accepted' = accepted
      /\ RunFree(r) /\ run[r] = "waiting_human" /\ work[r[1]] = "waiting_human"
      /\ n \in Runs /\ run[n] = "none" /\ n[1] = r[1] /\ n # r
      /\ run' = [run EXCEPT ![r] = "interrupted", ![n] = "queued"]
      /\ lease' = [lease EXCEPT ![r] = "none"]
      /\ work' = [work EXCEPT ![r[1]] = "queued"]
  BY DEF Respond, IsLatest, Next1
<1>3. /\ run'[r] = "interrupted" /\ run'[n] = "queued" /\ work'[r[1]] = "queued"
      /\ \A q \in Runs : q # r /\ q # n => run'[q] = run[q]
      /\ \A q \in Runs : q # r => lease'[q] = lease[q]
      /\ \A a \in Assignments : a # r[1] => work'[a] = work[a]
  BY <1>1, <1>2 DEF TypeOK
<1>4. ~accepted
  BY <1>1, <1>2 DEF Frozen
<1>5. \A q \in Runs : q[1] = r[1] /\ run[q] \in Open => q = r
  BY <1>1, <1>2, OpenAlone, WorkingIsOpen
<1>6. RowStep
  <2>1. ASSUME NEW q \in Runs, run[q] \in Leased, lease[q] = "expired"
        PROVE  run'[q] \in Leased /\ lease'[q] = "expired"
    <3>1. q # r /\ q # n
      BY <1>2, <2>1, WorkingIsOpen
    <3> QED BY <1>3, <2>1, <3>1
  <2>2. ASSUME NEW q \in Runs, work[q[1]] = "cancelled" PROVE work'[q[1]] = "cancelled"
    BY <1>2, <1>3, <2>2, RunsAreAttempts
  <2> QED BY <2>1, <2>2 DEF RowStep
<1>7. ASSUME NEW z \in Sessions, tx[z].pc = "run_locked"
      PROVE  /\ lease'[tx[z].run] = lease[tx[z].run]
             /\ work'[tx[z].run[1]] = work[tx[z].run[1]]
  <2>1. /\ tx[z].run \in Runs /\ tx[z].run[1] \in Assignments /\ run[tx[z].run] \in Open
        /\ tx[z].run # r
    BY <1>2, <1>7, HeldRun, WorkingIsOpen DEF RunFree
  <2>2. tx[z].run[1] # r[1]
    BY <1>5, <2>1
  <2> QED BY <1>3, <2>1, <2>2
<1>8. ASSUME NEW b \in Assignments PROVE Fits(b)'
  <2>1. CASE b # r[1]
    <3>1. \A q \in RunsOf(b) : run'[q] = run[q]
      BY <1>2, <1>3, <2>1 DEF RunsOf
    <3> QED BY <1>3, <2>1, <3>1, FitsKept DEF WorkInv
  <2>2. CASE b = r[1]
    <3>1. \A q \in RunsOf(b) : q \in Runs /\ q[1] = r[1]
      BY <2>2 DEF RunsOf
    <3>2. \A q \in RunsOf(b) : run'[q] \notin Working
      BY ZenonT(60), <1>2, <1>3, <1>5, <3>1, WorkingIsOpen
    <3>3. run'[<<b, 1>>] # "none"
      <4>1. <<b, 1>> \in Runs /\ work[b] # "none"
        BY <1>2, <2>2, ConstantsAssumption, RunsAreAttempts DEF Attempts
      <4> QED BY <4>1 DEF AttemptStep, Fits, WorkInv
    <3>4. n \in RunsOf(b)
      BY <1>2, <2>2 DEF RunsOf
    <3>5. Leased \subseteq Working /\ "waiting_human" \in Working
      BY DEF Working
    <3> QED BY <1>3, <2>2, <3>2, <3>3, <3>4, <3>5 DEF Fits, RunsOf
  <2> QED BY <2>1, <2>2
<1>9. Frozen'
  BY <1>2, <1>4 DEF Frozen
<1> QED BY <1>2, <1>4, <1>6, <1>7, <1>8, <1>9, CommandKeeps

LEMMA OtherCommands ==
    ASSUME WorkInv, AttemptInv',
           \/ \E action \in {"pause", "resume", "cancel", "archive", "restore"} :
                 UpdateStatus(action)
           \/ Submit
           \/ Accept
    PROVE  WorkInv' /\ work' = work
<1>1. TypeOK /\ Frozen
  BY DEF WorkInv, AttemptInv
<1>2. UNCHANGED <<participants, work, assignee, run, lease, results, tx>> /\ TaskFree
  BY DEF UpdateStatus, Submit, Accept
<1>3. AttemptStep /\ LockStep
  BY <1>2, SameRuns
<1>4. RowStep
  BY <1>2 DEF RowStep
<1>5. Frozen'
  <2>1. CASE \E action \in {"pause", "resume", "cancel", "archive", "restore"} :
               UpdateStatus(action)
    <3>1. PICK action \in {"pause", "resume", "cancel", "archive", "restore"} :
            UpdateStatus(action)
      BY <2>1
    <3>2. /\ task \in Transition(action).from /\ task' = Transition(action).to
          /\ accepted' = accepted
      BY <3>1 DEF UpdateStatus
    <3>3. CASE action = "pause"
      BY <1>1, <1>2, <3>2, <3>3 DEF Transition, Frozen
    <3>4. CASE action = "resume"
      BY <1>1, <1>2, <3>2, <3>4 DEF Transition, Frozen
    <3>5. CASE action = "cancel"
      BY <1>1, <1>2, <3>2, <3>5 DEF Transition, Frozen
    <3>6. CASE action = "archive"
      BY <1>1, <1>2, <3>2, <3>6 DEF Transition, Frozen
    <3>7. CASE action = "restore"
      BY <1>1, <1>2, <3>2, <3>7 DEF Transition, Frozen
    <3> QED BY <3>1, <3>3, <3>4, <3>5, <3>6, <3>7
  <2>2. CASE Submit
    BY <1>1, <1>2, <2>2 DEF Submit, Frozen, NothingOutstanding, Settled
  <2>3. CASE Accept
    BY <1>1, <1>2, <2>3 DEF Accept, Frozen
  <2> QED BY <2>1, <2>2, <2>3
<1>6. ASSUME NEW a \in Assignments PROVE Fits(a)'
  BY <1>2 DEF WorkInv, Fits
<1> QED BY <1>2, <1>3, <1>4, <1>5, <1>6, CommandKeeps

LEMMA LeaseTimeoutKeeps ==
    ASSUME WorkInv, AttemptInv', Prompt, NEW r \in Runs, LeaseTimeout(r)
    PROVE  WorkInv' /\ work' = work
<1>1. TypeOK /\ RunFree(r) /\ \A z \in Sessions : tx[z].pc # "result_loaded"
  BY DEF WorkInv, AttemptInv, Informed, LeaseTimeout, Prompt
<1>2. UNCHANGED <<task, accepted, participants, work, assignee, run, results>>
      /\ lease' = [lease EXCEPT ![r] = "expired"]
      /\ \A z \in Sessions : tx'[z] = tx[z]
  BY <1>1 DEF LeaseTimeout
<1>3. AttemptStep /\ LockStep
  BY <1>2, SameRuns
<1>4. RowStep
  BY <1>1, <1>2 DEF RowStep, TypeOK
<1>5. ASSUME NEW z \in Sessions PROVE Spared(z)
  BY <1>1, <1>2, HeldRun DEF Spared, RunFree, TypeOK
<1>6. \A z \in Sessions : Informed(z)'
  BY <1>2, <1>3, <1>4, <1>5, InformedKept
<1>7. OneTaskLock' /\ Frozen' /\ \A a \in Assignments : Fits(a)'
  BY <1>2 DEF WorkInv, OneTaskLock, Frozen, Fits
<1> QED BY <1>2, <1>6, <1>7 DEF WorkInv

LEMMA InitWorkInv == Init => WorkInv
<1> SUFFICES ASSUME Init PROVE WorkInv
  OBVIOUS
<1>1. PICK f \in NewWork(InitialAgents, NoWork) :
        work = QueuedWork(f, NoWork) /\ run = QueuedRuns(f, NoRuns)
  BY DEF Init
<1>2. \A r \in Runs : run[r] = IF r[1] \in AddedTo(f) /\ r[2] = 1 THEN "queued" ELSE "none"
  BY <1>1 DEF QueuedRuns, NoRuns
<1>3. \A a \in Assignments : work[a] = IF a \in AddedTo(f) THEN "queued" ELSE "none"
  BY <1>1 DEF QueuedWork, NoWork
<1>4. ASSUME NEW a \in Assignments PROVE Fits(a)
  <2>1. <<a, 1>> \in Runs /\ <<a, 1>> \in RunsOf(a) /\ \A r \in RunsOf(a) : r \in Runs /\ r[1] = a
    BY ConstantsAssumption, RunsAreAttempts DEF Attempts, RunsOf
  <2>2. CASE a \in AddedTo(f)
    BY <1>2, <1>3, <2>1, <2>2 DEF Fits, Leased
  <2>3. CASE a \notin AddedTo(f)
    BY <1>2, <1>3, <2>1, <2>3 DEF Fits, Leased
  <2> QED BY <2>2, <2>3
<1>5. \A s \in Sessions : tx[s].pc = "idle"
  BY DEF Init, Idle
<1>6. OneTaskLock /\ \A s \in Sessions : Informed(s)
  BY <1>5 DEF OneTaskLock, Informed, Held, Polled, Selecting
<1>7. Frozen
  BY DEF Init, Frozen
<1> QED BY <1>4, <1>6, <1>7, InitAttemptInv DEF WorkInv

\* What no step does to settled work.
Lasting ==
    /\ accepted => work' = work /\ results' = results
    /\ \A a \in Assignments : work[a] = "completed" => work'[a] = "completed"
    /\ \A r \in Runs : run[r] = "interrupted" => results'[r] = results[r]

LEMMA NextWorkInv ==
    ASSUME Prompt, WorkInv, [Next]_vars
    PROVE  WorkInv' /\ Lasting
<1>1. AttemptInv' /\ AttemptStep
  BY NextAttemptInv DEF WorkInv
<1>2. TypeOK /\ TypeOK' /\ AttemptInv /\ Frozen
  BY <1>1 DEF WorkInv, AttemptInv
<1>3. ASSUME work' = work, results' = results PROVE Lasting
  BY <1>3 DEF Lasting
<1>4. CASE UNCHANGED vars
  <2>1. /\ WorkInv' <=> WorkInv
        /\ work' = work /\ results' = results
    <3>1. UNCHANGED <<task, accepted, participants, work, assignee, run, lease, results, tx>>
      BY <1>4 DEF vars
    <3>2. AttemptStep /\ LockStep /\ RowStep /\ \A z \in Sessions : Spared(z)
      BY <3>1, SameRuns DEF RowStep, Spared
    <3>3. \A z \in Sessions : Informed(z)'
      BY <3>1, <3>2, InformedKept
    <3>4. OneTaskLock' /\ Frozen' /\ \A a \in Assignments : Fits(a)'
      BY <3>1 DEF WorkInv, OneTaskLock, Frozen, Fits
    <3> QED BY <1>1, <3>1, <3>3, <3>4 DEF WorkInv
  <2> QED BY <1>3, <2>1
<1>5. ASSUME NEW s \in Sessions, Poll(s) PROVE WorkInv' /\ Lasting
  <2>1. LockStep
    BY <1>2, <1>5, PollSteps
  <2>2. CASE PollCheck(s) \/ \E g \in Agents : PollRead(s, g)
    <3>1. work' = work /\ results' = results
      BY <2>2 DEF PollCheck, PollRead
    <3> QED BY <1>1, <1>3, <2>2, <3>1, PollReads
  <2>3. CASE PollOnly(s)
    <3>1. work' = work /\ results' = results
      BY <2>3 DEF PollOnly
    <3> QED BY <1>1, <1>3, <2>1, <2>3, <3>1, PollWrites
  <2>4. CASE Claim(s)
    <3>1. WorkInv'
      BY <1>1, <2>1, <2>4, PollWrites
    <3>2. PICK q \in Runs : /\ Claimable(tx[s], q) /\ work' = [work EXCEPT ![q[1]] = "running"]
                            /\ run' = [Requeued(tx[s]) EXCEPT ![q] = "leased"]
      BY <2>4 DEF Claim
    <3>3. results' = results /\ ~accepted
      BY <1>2, <2>4, <3>2 DEF Claim, Claimable, Frozen
    <3>4. q[1] \in Assignments /\ q \in RunsOf(q[1]) /\ Requeued(tx[s])[q] = "queued"
          /\ tx[s].pc = "poll_checked" /\ FlushPasses(tx[s])
      BY <2>4, <3>2, RunsAreAttempts DEF Claim, Claimable, RunsOf
    <3>5. work[q[1]] # "completed"
      <4>1. CASE run[q] = "queued"
        BY <3>4, <4>1 DEF WorkInv, Fits
      <4>2. CASE run[q] # "queued"
        <5>1. PICK x \in tx[s].requeue : q = Next1(x)
          BY <3>4, <4>2, FlushKeeps, FlushFits
        <5>2. x \in tx[s].expired /\ x[1] = q[1]
          BY <1>2, <3>4, <5>1, PollKnows DEF Next1
        <5>3. work[x[1]] = "running" \/ work[x[1]] = "cancelled"
          BY <3>4, <5>1, <5>2, FlushFits
        <5> QED BY <5>2, <5>3
      <4> QED BY <4>1, <4>2
    <3> QED BY <1>2, <3>1, <3>2, <3>3, <3>4, <3>5 DEF Lasting, TypeOK
  <2> QED BY <1>5, <2>2, <2>3, <2>4 DEF Poll
<1>6. ASSUME NEW s \in Sessions, Report(s) PROVE WorkInv' /\ Lasting
  <2>1. LockStep
    BY <1>2, <1>6, ReportSteps
  <2>2. CASE \/ \E r \in Runs, to \in Progress : UpdateLock(s, r, to)
             \/ \E r \in Runs, to \in Outcomes : ResultLock(s, r, to)
    <3>1. work' = work /\ results' = results
      BY <2>2 DEF UpdateLock, ResultLock
    <3> QED BY <1>1, <1>3, <2>2, <3>1, ReportReads
  <2>3. CASE UpdateCommit(s) \/ ResultCommit(s)
    <3>1. WorkInv' /\ ~accepted /\ work[tx[s].run[1]] # "completed"
      BY <1>1, <2>1, <2>3, ReportCommits
    <3>2. tx[s].pc = "run_locked"
      BY <2>3 DEF UpdateCommit, ResultCommit
    <3>3. tx[s].run \in Runs /\ tx[s].run[1] \in Assignments /\ run[tx[s].run] \in Working
      BY <3>2, HeldRun
    <3>4. \A a \in Assignments : a # tx[s].run[1] => work'[a] = work[a]
      BY <1>2, <2>3, <3>3 DEF UpdateCommit, ResultCommit, TypeOK
    <3>5. \A r \in Runs : r # tx[s].run => results'[r] = results[r]
      BY <1>2, <2>3, <3>3 DEF UpdateCommit, ResultCommit, TypeOK
    <3>6. run[tx[s].run] # "interrupted"
      BY <3>3, WorkingIsOpen
    <3> QED BY <3>1, <3>4, <3>5, <3>6 DEF Lasting
  <2>4. CASE \/ \E r \in Runs, to \in Outcomes : ResultLoad(s, r, to)
             \/ ResultLockLoaded(s)
    BY <2>4 DEF ResultLoad, ResultLockLoaded, Prompt, WorkInv, Informed
  <2> QED BY <1>6, <2>2, <2>3, <2>4 DEF Report
<1>7. ASSUME NEW s \in Sessions, Select(s) PROVE WorkInv' /\ Lasting
  <2>1. LockStep
    BY <1>2, <1>7, SelectSteps
  <2>2. CASE \E h \in {OwnerOf[g] : g \in Agents} :
               \/ \E chosen \in (SUBSET AgentsOf(h)) \ {{}} : SelectRead(s, h, chosen)
               \/ LeaveRead(s, h)
    <3>1. work' = work /\ results' = results
      BY <2>2 DEF SelectRead, LeaveRead, LockAndRead
    <3>2. WorkInv'
      BY <1>1, <2>2, SelectReads
    <3> QED BY <1>3, <3>1, <3>2
  <2>3. CASE SelectCommit(s)
    <3>1. results' = results
      BY <2>3 DEF SelectCommit
    <3>2. /\ WorkInv'
          /\ accepted => work' = work
          /\ \A a \in Assignments : work[a] = "completed" => work'[a] = "completed"
      BY <1>1, <2>1, <2>3, SelectCommits
    <3> QED BY <3>1, <3>2 DEF Lasting
  <2> QED BY <1>7, <2>2, <2>3 DEF Select
<1>8. ASSUME NEW s \in Sessions, Abort(s) PROVE WorkInv' /\ Lasting
  <2>1. /\ Informed(s)' /\ OneTaskLock'
        /\ \A z \in Sessions : z # s => tx'[z] = tx[z]
    BY <1>2, <1>8, IdleInformed DEF Abort, WorkInv
  <2>2. UNCHANGED <<task, accepted, participants, work, assignee, run, lease, results>>
    BY <1>8 DEF Abort
  <2> QED BY <1>1, <1>3, <2>1, <2>2, ReadingStep
<1>9. ASSUME Command PROVE WorkInv' /\ Lasting
  <2>1. LockStep
    BY <1>2, <1>9, CommandSteps
  <2>2. CASE \/ \E gs \in (SUBSET Agents) \ {{}} : CreateAssignments(gs)
             \/ \E g \in Agents : Invite(g)
             \/ RequestChanges
    <3>1. PICK gs : Queue(gs)
      BY <2>2 DEF CreateAssignments, Invite, RequestChanges
    <3>2. /\ TaskFree /\ UNCHANGED <<accepted, lease, results, tx>>
          /\ task' \in {"active", "paused"} /\ ~accepted
      BY <1>2, <2>2 DEF CreateAssignments, Invite, RequestChanges, Frozen
    <3>3. /\ WorkInv'
          /\ \A a \in Assignments : work[a] = "completed" => work'[a] = "completed"
      BY <1>1, <2>1, <3>1, <3>2, QueueingCommand
    <3> QED BY <3>2, <3>3 DEF Lasting
  <2>3. CASE \E a \in Assignments : CancelQueued(a)
    <3>1. PICK a \in Assignments : CancelQueued(a)
      BY <2>3
    <3>2. WorkInv' /\ ~accepted
      BY <1>1, <2>1, <3>1, CancelQueuedKeeps
    <3>3. /\ results' = results
          /\ \A b \in Assignments : work[b] = "completed" => work'[b] = "completed"
      BY <1>2, <3>1 DEF CancelQueued, TypeOK
    <3> QED BY <3>2, <3>3 DEF Lasting
  <2>4. CASE \E r \in Runs : Respond(r)
    <3>1. PICK r \in Runs : Respond(r)
      BY <2>4
    <3>2. WorkInv' /\ ~accepted /\ work[r[1]] = "waiting_human"
          /\ work' = [work EXCEPT ![r[1]] = "queued"]
      BY <1>1, <2>1, <3>1, RespondKeeps
    <3>3. /\ results' = results
          /\ \A b \in Assignments : work[b] = "completed" => work'[b] = "completed"
      BY <1>2, <3>1, <3>2 DEF Respond, TypeOK
    <3> QED BY <3>2, <3>3 DEF Lasting
  <2>5. CASE \/ \E action \in {"pause", "resume", "cancel", "archive", "restore"} :
                   UpdateStatus(action)
             \/ Submit
             \/ Accept
    <3>1. WorkInv' /\ work' = work
      BY <1>1, <2>5, OtherCommands
    <3>2. results' = results
      BY <2>5 DEF UpdateStatus, Submit, Accept
    <3> QED BY <1>3, <3>1, <3>2
  <2> QED BY <1>9, <2>2, <2>3, <2>4, <2>5 DEF Command
<1>10. ASSUME NEW r \in Runs, LeaseTimeout(r) PROVE WorkInv' /\ Lasting
  <2>1. WorkInv' /\ work' = work
    BY <1>1, <1>10, LeaseTimeoutKeeps
  <2>2. results' = results
    BY <1>10 DEF LeaseTimeout
  <2> QED BY <1>3, <2>1, <2>2
<1> QED BY <1>4, <1>5, <1>6, <1>7, <1>8, <1>9, <1>10 DEF Next

-----------------------------------------------------------------------------
(* The theorems about assignments.                                         *)

\* The statuses of an assignment and of its attempts go together, accepted work
\* is settled, and what a report, a poll or a selection of agents read is still
\* so when it writes, provided no commit overtakes its lease.
THEOREM WorkConsistent ==
    ASSUME Prompt
    PROVE  Spec => []WorkInv
<1>1. WorkInv /\ [Next]_vars => WorkInv'
  BY NextWorkInv
<1> QED BY <1>1, InitWorkInv, PTL DEF Spec

\* A submitted or accepted Task has no assignment that still changes state.
THEOREM SubmittedIsSettled ==
    ASSUME Prompt
    PROVE  Spec => []SubmittedSettled
<1>1. WorkInv => SubmittedSettled
  BY DEF WorkInv, Frozen, Settled, SubmittedSettled
<1> QED BY <1>1, WorkConsistent, PTL

\* No Agent changes the work of an accepted Task or adds a result to it.
THEOREM AcceptedIsFrozen ==
    ASSUME Prompt
    PROVE  Spec => AcceptedFrozen
<1>1. WorkInv /\ [Next]_vars => [accepted => work' = work /\ results' = results]_vars
  BY NextWorkInv DEF Lasting
<1> QED BY <1>1, WorkConsistent, PTL DEF Spec, AcceptedFrozen

\* No later claim, report, cancellation or answer re-opens a completed assignment.
THEOREM CompletedIsFinal ==
    ASSUME Prompt
    PROVE  Spec => CompletedFinal
<1>1. WorkInv /\ [Next]_vars =>
        [\A a \in Assignments : work[a] = "completed" => work'[a] = "completed"]_vars
  BY NextWorkInv DEF Lasting
<1> QED BY <1>1, WorkConsistent, PTL DEF Spec, CompletedFinal

\* A superseded attempt records no result.
THEOREM SupersededIsSilent ==
    ASSUME Prompt
    PROVE  Spec => SupersededSilent
<1>1. WorkInv /\ [Next]_vars =>
        [\A r \in Runs : run[r] = "interrupted" => results'[r] = results[r]]_vars
  BY NextWorkInv DEF Lasting
<1> QED BY <1>1, WorkConsistent, PTL DEF Spec, SupersededSilent

-----------------------------------------------------------------------------
(* What is shown can be done.                                              *)

LEMMA LeastIn ==
    ASSUME NEW S \in SUBSET Nat, S # {}
    PROVE  \E m \in S : \A n \in S : m <= n
<1> DEFINE R == OpToRel(<, Nat)
<1>1. IsWellFoundedOn(R, Nat)
  BY NatLessThanWellFounded
<1>2. \A m, n \in Nat : m < n => <<m, n>> \in R
  BY DEF OpToRel
<1> HIDE DEF R
<1>3. PICK m \in S : \A n \in S : ~ (<<n, m>> \in R)
  BY <1>1, WFMin
<1>4. \A n \in S : m <= n
  <2> SUFFICES ASSUME NEW n \in S PROVE m <= n
    OBVIOUS
  <2>1. ~ (n < m)
    BY <1>2, <1>3
  <2> QED BY <2>1
<1> QED BY <1>4

\* Every assignment has a latest attempt.
LEMMA LatestExists ==
    ASSUME WorkInv, NEW a \in Shown
    PROVE  LatestRun(a) \in RunsOf(a) /\ IsLatest(LatestRun(a)) /\ a \in Assignments
<1>1. a \in Assignments /\ work[a] # "none" /\ run[<<a, 1>>] # "none"
  BY DEF Shown, WorkInv, Fits
<1>2. /\ MaxAttempts \in Nat /\ MaxAttempts >= 1
      /\ \A n : n \in Attempts <=> n \in Nat /\ 1 <= n /\ n <= MaxAttempts
      /\ \A n \in Attempts : <<a, n>> \in Runs /\ <<a, n>> \in RunsOf(a)
  BY <1>1, ConstantsAssumption, RunsAreAttempts DEF Attempts, RunsOf
<1>3. SUFFICES \E r \in RunsOf(a) : IsLatest(r)
  BY <1>1 DEF LatestRun
<1> DEFINE S == {n \in Attempts : run[<<a, n>>] = "none"}
<1>4. CASE S = {}
  <2>1. run[<<a, MaxAttempts>>] # "none"
    BY <1>2, <1>4
  <2>2. Next1(<<a, MaxAttempts>>) \notin Runs
    <3>1. MaxAttempts + 1 \notin Attempts
      BY <1>2
    <3> QED BY <3>1 DEF Next1, Runs
  <2> QED BY <1>2, <2>1, <2>2 DEF IsLatest
<1>5. CASE S # {}
  <2>1. S \in SUBSET Nat
    BY <1>2
  <2>2. PICK m \in S : \A n \in S : m <= n
    <3> HIDE DEF S
    <3> QED BY <1>5, <2>1, LeastIn
  <2>3. m \in Nat /\ m > 1 /\ m \in Attempts /\ run[<<a, m>>] = "none"
    BY <1>1, <1>2, <2>2
  <2>4. m - 1 \in Attempts /\ m - 1 \notin S
    BY <1>2, <2>2, <2>3
  <2>5. run[<<a, m - 1>>] # "none" /\ Next1(<<a, m - 1>>) = <<a, m>>
    BY <2>3, <2>4 DEF Next1
  <2> QED BY <1>2, <2>3, <2>4, <2>5 DEF IsLatest
<1> QED BY <1>4, <1>5

\* The latest attempt is the open one, where there is one.
LEMMA LatestIsOpen ==
    ASSUME WorkInv, NEW a \in Assignments, NEW r \in RunsOf(a), IsLatest(r),
           NEW q \in RunsOf(a), run[q] \in Open
    PROVE  r = q
<1>1. r \in Runs /\ q \in Runs /\ r[1] = a /\ q[1] = a /\ run[r] # "none" /\ AttemptInv
  BY DEF RunsOf, IsLatest, WorkInv
<1>2. CASE Next1(r) \in Runs
  BY <1>1, <1>2, LastIsOpen DEF IsLatest
<1>3. CASE Next1(r) \notin Runs
  <2>1. /\ r[2] \in Nat /\ q[2] \in Nat /\ r = <<a, r[2]>> /\ q = <<a, q[2]>>
        /\ r[2] <= MaxAttempts /\ q[2] <= MaxAttempts /\ MaxAttempts \in Nat
        /\ r[2] >= 1 /\ a \in Assignments
    BY <1>1, RunsAreAttempts, ConstantsAssumption DEF Attempts
  <2>2. ~ (r[2] + 1 <= MaxAttempts)
    BY <1>1, <1>3, <2>1, RunsAreAttempts DEF Next1, Attempts
  <2>3. ~ (r[2] > q[2])
    BY <1>1 DEF AttemptInv, OneOpenRun
  <2> QED BY <2>1, <2>2, <2>3
<1> QED BY <1>2, <1>3

LEMMA ClassOf ==
    ASSUME NEW st \in RunStatuses
    PROVE  /\ st = "queued" => RunClass(st) = "queued"
           /\ st \in Leased => RunClass(st) = "active"
           /\ st = "waiting_human" => RunClass(st) = "waiting_human"
           /\ st \in Closed => RunClass(st) = "terminal"
BY DEF RunClass, Leased, Closed

\* Of an assignment that was not cancelled, the latest attempt is in a state
\* that goes with the assignment's, and an Agent waits where a Human can answer.
THEOREM ShownCanBeDone ==
    ASSUME Prompt
    PROVE  Spec => []ViewsAgree
<1>1. ASSUME WorkInv PROVE ViewsAgree
  <2> USE <1>1
  <2>1. ASSUME NEW a \in Shown, Row(a).status # "cancelled"
        PROVE  RunClass(Row(a).run) \in RunClassesOf(Row(a).status)
    <3> DEFINE l == LatestRun(a)
    <3>1. l \in RunsOf(a) /\ IsLatest(l) /\ a \in Assignments /\ l \in Runs /\ Fits(a)
      BY LatestExists DEF RunsOf, WorkInv
    <3>2. /\ Row(a).status = work[a] /\ Row(a).run = run[l] /\ work[a] \in WorkStatuses
          /\ run[l] \in RunStatuses /\ run[l] # "none" /\ work[a] # "none"
      BY <3>1 DEF Row, WorkInv, AttemptInv, TypeOK, IsLatest, Shown
    <3> HIDE DEF l
    <3>3. CASE work[a] = "queued"
      <4>1. run[l] = "queued"
        BY <3>1, <3>3, LatestIsOpen, WorkingIsOpen DEF Fits
      <4> QED BY <3>2, <3>3, <4>1, ClassOf DEF RunClassesOf
    <3>4. CASE work[a] = "running"
      <4>1. run[l] \in Leased \union {"queued"}
        BY <3>1, <3>4, LatestIsOpen, WorkingIsOpen DEF Fits
      <4> QED BY <3>2, <3>4, <4>1, ClassOf DEF RunClassesOf
    <3>5. CASE work[a] = "waiting_human"
      <4>1. run[l] = "waiting_human"
        BY <3>1, <3>5, LatestIsOpen, WorkingIsOpen DEF Fits
      <4> QED BY <3>2, <3>5, <4>1, ClassOf DEF RunClassesOf
    <3>6. CASE work[a] \in {"completed", "partial", "failed"}
      <4>1. run[l] \in Closed
        BY <3>1, <3>2, <3>6, OpenAndClosed DEF Fits, Open
      <4>2. RunClass(run[l]) = "terminal"
        BY <3>2, <4>1, ClassOf
      <4> QED BY <3>2, <3>6, <4>2 DEF RunClassesOf
    <3> QED BY <2>1, <3>2, <3>3, <3>4, <3>5, <3>6 DEF WorkStatuses
  <2>2. ASSUME task = "active", NEW g \in participants, NEW a \in MyWork(g)
        PROVE  BriefingFor(g)[a] = "wait_for_human_response" <=> Answerable(a)
    <3> DEFINE l == LatestRun(a)
    <3>1. a \in Shown /\ BriefingFor(g)[a] = NextAction(a)
      BY <2>2 DEF MyWork, Pending, BriefingFor, OpenTo
    <3>2. l \in RunsOf(a) /\ IsLatest(l) /\ a \in Assignments /\ Fits(a) /\ Row(a).run = run[l]
      BY <3>1, LatestExists DEF WorkInv, Row
    <3> HIDE DEF l
    <3>3. NextAction(a) = "wait_for_human_response" <=> run[l] = "waiting_human"
      BY <2>2, <3>2 DEF NextAction
    <3>4. run[l] = "waiting_human" => Answerable(a)
      BY <3>2 DEF Answerable, Fits
    <3>5. Answerable(a) => run[l] = "waiting_human"
      BY <3>2, LatestIsOpen, WorkingIsOpen DEF Answerable, Working
    <3> QED BY <3>1, <3>3, <3>4, <3>5
  <2> QED BY <2>1, <2>2 DEF ViewsAgree
<1>2. WorkInv => ViewsAgree
  BY <1>1
<1> QED BY <1>2, WorkConsistent, PTL
=============================================================================

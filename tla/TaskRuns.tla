------------------------------ MODULE TaskRuns ------------------------------
(***************************************************************************)
(* The execution core of one Task: its assignments, the run attempts an    *)
(* Agent leases, and the Human commands that queue, answer, cancel, submit *)
(* and accept the work (agentpost/tasks/service.py).                       *)
(*                                                                         *)
(* Every handler is a PostgreSQL READ COMMITTED transaction.  A handler    *)
(* that reads and writes only under row locks is one action.  A handler    *)
(* that reads a row before it locks it, or never locks it, is split at     *)
(* that point: its transaction tx[s] carries what was read until it        *)
(* commits, and other transactions commit in between.  The row locks a     *)
(* transaction holds across its steps are a function of its pc.            *)
(***************************************************************************)
EXTENDS Integers, FiniteSets

CONSTANTS
    Agents,         \* Agents that may take part in the Task
    OwnerOf,        \* the Human who owns each Agent
    InitialAgents,  \* the Agents selected when the Task is created
    Sessions,       \* concurrent database sessions of the API workers
    MaxAssignments, \* bound on task_assignments rows
    MaxAttempts,    \* bound on agent_runs.attempt
    MaxResults,     \* bound on assignment_result activities per run
    Progress,       \* AgentRunUpdate.status values the clients report
    Outcomes,       \* AgentRunResult.status values the clients report
    Checkpoints,    \* whether AgentRunResult carries "checkpoint"
    TimelyCommits   \* TRUE: no lease expires while its row is locked

ASSUME ConstantsAssumption ==
    /\ OwnerOf = [g \in Agents |-> OwnerOf[g]]
    /\ InitialAgents \in (SUBSET Agents) \ {{}}
    /\ \A g, h \in InitialAgents : OwnerOf[g] = OwnerOf[h]
    /\ MaxAssignments \in Nat \ {0}
    /\ MaxAttempts \in Nat \ {0}
    /\ MaxResults \in Nat \ {0}
    /\ Progress \subseteq {"starting", "running", "waiting_human"}
    /\ Outcomes \subseteq {"completed", "partial", "failed", "cancelled"}
    /\ Checkpoints \subseteq {"explicit", "omitted"}
    /\ TimelyCommits \in BOOLEAN

VARIABLES
    task,         \* Task.status
    accepted,     \* Task.completed_at is set
    participants, \* Agents whose TaskAgentParticipant row is active
    work,         \* TaskAssignment.status of each row, "none" before the insert
    assignee,     \* TaskAssignment.assignee_agent_id
    run,          \* AgentRun.status of each attempt, "none" before the insert
    lease,        \* lease_token_digest and lease_expires_at of each attempt
    results,      \* number of assignment_result activities naming each run
    tx            \* the transaction each session has open

vars == <<task, accepted, participants, work, assignee, run, lease, results, tx>>

Assignments == 1..MaxAssignments
Attempts    == 1..MaxAttempts
Runs        == Assignments \X Attempts

TaskStatuses == {"active", "paused", "awaiting_acceptance", "completed",
                 "cancelled", "archived"}
WorkStatuses == {"none", "queued", "running", "waiting_human", "completed",
                 "partial", "failed", "cancelled"}
Leased       == {"leased", "starting", "running"}   \* a lease that can expire
Open         == Leased \union {"queued", "waiting_human"}
Closed       == {"completed", "partial", "failed", "cancelled", "interrupted"}
RunStatuses  == Open \union Closed \union {"none"}

\* "none": no digest; "live": digest, lease_expires_at in the future;
\* "expired": digest, lease_expires_at in the past.
LeaseStates  == {"none", "live", "expired"}

Next1(r)     == <<r[1], r[2] + 1>>                  \* the successor attempt

-----------------------------------------------------------------------------
(***************************************************************************)
(* Open transactions.  A poll has read the expired runs of its agent and   *)
(* later decided which of them get a successor; a result report may have   *)
(* loaded its run before locking it; a report holds its run's row lock; an *)
(* agent selection holds the task's row lock.                              *)
(***************************************************************************)
Idle == [pc |-> "idle"]

PollTx   == [pc : {"poll_read", "poll_checked"}, agent : Agents,
             expired : SUBSET Runs, requeue : SUBSET Runs]
LoadTx   == [pc : {"result_loaded"}, run : Runs, to : Outcomes,
             status : RunStatuses, lease : LeaseStates]
ReportTx == [pc : {"run_locked"}, run : Runs, to : Progress,
             result : {FALSE}, seen : WorkStatuses]
            \union
            [pc : {"run_locked"}, run : Runs, to : Outcomes,
             result : {TRUE}, seen : WorkStatuses]
SelectTx == [pc : {"task_locked"}, chosen : SUBSET Agents,
             works : SUBSET Assignments, runs : SUBSET Runs]

TxStates == {Idle} \union PollTx \union LoadTx \union ReportTx \union SelectTx

TypeOK ==
    /\ task \in TaskStatuses
    /\ accepted \in BOOLEAN
    /\ participants \subseteq Agents
    /\ work \in [Assignments -> WorkStatuses]
    /\ assignee \in [Assignments -> Agents]
    /\ run \in [Runs -> RunStatuses]
    /\ lease \in [Runs -> LeaseStates]
    /\ results \in [Runs -> 0..MaxResults]
    /\ tx \in [Sessions -> TxStates]

\* A row another transaction has locked; a lock request blocks until release.
RunFree(r)       == \A s \in Sessions : tx[s].pc = "run_locked" => tx[s].run # r
TaskFree         == \A s \in Sessions : tx[s].pc # "task_locked"

-----------------------------------------------------------------------------
RunsOf(a)   == {r \in Runs : r[1] = a}
AgentsOf(h) == {g \in Agents : OwnerOf[g] = h}

\* The rows the next inserts of task_assignments produce, one for each agent.
NewWork(gs, w) ==
    LET unused == {a \in Assignments : w[a] = "none"} IN
    {f \in [gs -> unused] :
        /\ \A g, h \in gs : f[g] = f[h] => g = h
        /\ \A a \in unused : (\E g \in gs : a < f[g]) => \E g \in gs : f[g] = a}

\* _queue_collaboration_assignment for every agent of f's domain.
AddedTo(f) == {f[g] : g \in DOMAIN f}
QueuedWork(f, w) ==
    [a \in Assignments |-> IF a \in AddedTo(f) THEN "queued" ELSE w[a]]
QueuedRuns(f, rs) ==
    [r \in Runs |-> IF r[1] \in AddedTo(f) /\ r[2] = 1 THEN "queued" ELSE rs[r]]
NewAssignees(f, as) ==
    [a \in Assignments |-> IF a \in AddedTo(f)
                           THEN CHOOSE g \in DOMAIN f : f[g] = a
                           ELSE as[a]]

Queue(gs) ==
    \E f \in NewWork(gs, work) :
        /\ work' = QueuedWork(f, work)
        /\ run' = QueuedRuns(f, run)
        /\ assignee' = NewAssignees(f, assignee)

\* create_task commits the task with a start assignment of each chosen agent.
NoWork     == [a \in Assignments |-> "none"]
NoRuns     == [r \in Runs |-> "none"]
NoAssignee == [a \in Assignments |-> CHOOSE g \in InitialAgents : TRUE]

Init ==
    /\ task = "active"
    /\ accepted = FALSE
    /\ participants = InitialAgents
    /\ \E f \in NewWork(InitialAgents, NoWork) :
        /\ work = QueuedWork(f, NoWork)
        /\ assignee = NewAssignees(f, NoAssignee)
        /\ run = QueuedRuns(f, NoRuns)
    /\ lease = [r \in Runs |-> "none"]
    /\ results = [r \in Runs |-> 0]
    /\ tx = [s \in Sessions |-> Idle]

-----------------------------------------------------------------------------
(* Polling: list_pending_agent_runs and claim_agent_run.                   *)

ExpiredMissingLeased(g) ==      \* mutant: a run never started is not seen
    {r \in Runs : /\ run[r] \in {"starting", "running"} /\ lease[r] = "expired"
                  /\ assignee[r[1]] = g}
ExpiredRuns(g) ==
    {r \in Runs : run[r] \in Leased /\ lease[r] = "expired" /\ assignee[r[1]] = g}

\* _requeue_expired_agent_runs selects the agent's expired runs unlocked.
PollRead(s, g) ==
    /\ tx[s] = Idle
    /\ tx' = [tx EXCEPT ![s] = [pc |-> "poll_read", agent |-> g,
                                expired |-> ExpiredRuns(g), requeue |-> {}]]
    /\ UNCHANGED <<task, accepted, participants, work, assignee, run, lease, results>>

NeedsSuccessorIfQueued(r) ==    \* mutant: only work still marked queued
    /\ work[r[1]] = "queued"
    /\ \A q \in RunsOf(r[1]) : run[q] # "queued"

\* It then reads each assignment and looks for a successor already queued.
NeedsSuccessor(r) ==
    /\ work[r[1]] \notin {"completed", "cancelled"}
    /\ \A q \in RunsOf(r[1]) : run[q] # "queued"

PollCheck(s) ==
    /\ tx[s].pc = "poll_read"
    /\ tx' = [tx EXCEPT ![s].pc = "poll_checked",
                        ![s].requeue = {r \in tx[s].expired : NeedsSuccessor(r)}]
    /\ UNCHANGED <<task, accepted, participants, work, assignee, run, lease, results>>

RequeuedKeepingOld(t) ==        \* mutant: the expired attempt is left open
    [r \in Runs |-> IF \E q \in t.requeue : r = Next1(q) THEN "queued" ELSE run[r]]

\* The flush: expired runs become interrupted, successors are inserted.
Requeued(t) ==
    [r \in Runs |-> IF r \in t.expired THEN "interrupted"
                    ELSE IF \E q \in t.requeue : r = Next1(q) THEN "queued"
                    ELSE run[r]]

\* uq_agent_runs_assignment_attempt lets the flush through (a second insert
\* of the same attempt rolls the whole transaction back, see Abort).
FlushPasses(t) ==
    /\ \A r \in t.expired : RunFree(r)
    /\ \A r \in t.requeue : Next1(r) \in Runs /\ run[Next1(r)] = "none"

ClaimableIfQueued(t, q) ==      \* mutant: work already running is not claimed
    /\ Requeued(t)[q] = "queued" /\ work[q[1]] = "queued"
    /\ assignee[q[1]] = t.agent /\ task = "active" /\ TaskFree /\ RunFree(q)

\* claim_agent_run locks run, assignment and task with SKIP LOCKED.
Claimable(t, q) ==
    /\ Requeued(t)[q] = "queued"
    /\ assignee[q[1]] = t.agent
    /\ task = "active"
    /\ TaskFree
    /\ RunFree(q)

Claim(s) ==
    LET t == tx[s] IN
    /\ t.pc = "poll_checked"
    /\ FlushPasses(t)
    /\ \E q \in Runs :
        /\ Claimable(t, q)
        /\ run' = [Requeued(t) EXCEPT ![q] = "leased"]
        /\ lease' = [lease EXCEPT ![q] = "live"]
        /\ work' = [work EXCEPT ![q[1]] = "running"]
    /\ tx' = [tx EXCEPT ![s] = Idle]
    /\ UNCHANGED <<task, accepted, participants, assignee, results>>

\* list_pending_agent_runs, or a claim whose task_id and assignment_id filters
\* or SKIP LOCKED leave nothing, commits the flush alone.
PollOnly(s) ==
    LET t == tx[s] IN
    /\ t.pc = "poll_checked"
    /\ FlushPasses(t)
    /\ run' = Requeued(t)
    /\ tx' = [tx EXCEPT ![s] = Idle]
    /\ UNCHANGED <<task, accepted, participants, work, assignee, lease, results>>

-----------------------------------------------------------------------------
(* Reports of the leaseholder: update_agent_run and complete_agent_run.    *)

LeaseNeverExpires(status, l) ==   \* mutant: lease_expires_at is not compared
    status \in Leased \union {"waiting_human"} /\ l # "none"
LeaseByDigest(status, l) == l # "none"        \* mutant: only the token is

\* _leased_run's checks, on the run as this session sees it.
LeaseValid(status, l) == status \in Leased \union {"waiting_human"} /\ l = "live"

UpdateLock(s, r, to) ==
    /\ tx[s] = Idle
    /\ RunFree(r)
    /\ LeaseValid(run[r], lease[r])
    /\ tx' = [tx EXCEPT ![s] = [pc |-> "run_locked", run |-> r, to |-> to,
                                result |-> FALSE, seen |-> work[r[1]]]]
    /\ UNCHANGED <<task, accepted, participants, work, assignee, run, lease, results>>

WorkStatusRaw(to) == to         \* mutant: the run status is copied

WorkStatus(to) == IF to = "waiting_human" THEN "waiting_human" ELSE "running"

\* A changed run status appends an activity, which locks the task row.  The
\* ORM writes assignment.status only when it differs from the value read.
UpdateCommit(s) ==
    LET t  == tx[s]
        to == WorkStatus(t.to)
    IN
    /\ t.pc = "run_locked"
    /\ ~t.result
    /\ run[t.run] # t.to => TaskFree
    /\ run' = [run EXCEPT ![t.run] = t.to]
    /\ lease' = [lease EXCEPT ![t.run] = "live"]
    /\ work' = IF t.seen = to THEN work ELSE [work EXCEPT ![t.run[1]] = to]
    /\ tx' = [tx EXCEPT ![s] = Idle]
    /\ UNCHANGED <<task, accepted, participants, assignee, results>>

\* A result without a checkpoint first loads the run, to hash the preserved
\* one; the session keeps that object and the later locking SELECT does not
\* refresh it.
ResultLoad(s, r, to) ==
    /\ "omitted" \in Checkpoints
    /\ tx[s] = Idle
    /\ LeaseValid(run[r], lease[r])
    /\ tx' = [tx EXCEPT ![s] = [pc |-> "result_loaded", run |-> r, to |-> to,
                                status |-> run[r], lease |-> lease[r]]]
    /\ UNCHANGED <<task, accepted, participants, work, assignee, run, lease, results>>

ResultLockLoaded(s) ==
    LET t == tx[s] IN
    /\ t.pc = "result_loaded"
    /\ RunFree(t.run)
    /\ LeaseValid(t.status, t.lease)
    /\ tx' = [tx EXCEPT ![s] = [pc |-> "run_locked", run |-> t.run, to |-> t.to,
                                result |-> TRUE, seen |-> work[t.run[1]]]]
    /\ UNCHANGED <<task, accepted, participants, work, assignee, run, lease, results>>

\* With the checkpoint in the payload the locking SELECT is the first load.
ResultLock(s, r, to) ==
    /\ "explicit" \in Checkpoints
    /\ tx[s] = Idle
    /\ RunFree(r)
    /\ LeaseValid(run[r], lease[r])
    /\ tx' = [tx EXCEPT ![s] = [pc |-> "run_locked", run |-> r, to |-> to,
                                result |-> TRUE, seen |-> work[r[1]]]]
    /\ UNCHANGED <<task, accepted, participants, work, assignee, run, lease, results>>

\* The result activity locks the task row, then everything is committed.
ResultCommit(s) ==
    LET t == tx[s] IN
    /\ t.pc = "run_locked"
    /\ t.result
    /\ TaskFree
    /\ results[t.run] < MaxResults
    /\ run' = [run EXCEPT ![t.run] = t.to]
    /\ lease' = [lease EXCEPT ![t.run] = "none"]
    /\ results' = [results EXCEPT ![t.run] = @ + 1]
    /\ work' = IF t.seen = t.to THEN work ELSE [work EXCEPT ![t.run[1]] = t.to]
    /\ tx' = [tx EXCEPT ![s] = Idle]
    /\ UNCHANGED <<task, accepted, participants, assignee>>

-----------------------------------------------------------------------------
(***************************************************************************)
(* Human commands.  Each locks the task row first (_task_context with      *)
(* lock=True), so a command that then reads and writes only rows it locks  *)
(* is one step.                                                            *)
(***************************************************************************)

\* create_assignment and create_assignment_batch.
CreateAssignments(gs) ==
    /\ TaskFree
    /\ task = "active"
    /\ gs \subseteq participants
    /\ Queue(gs)
    /\ UNCHANGED <<task, accepted, participants, lease, results, tx>>

\* cancel_queued_assignment, run by run under their row locks.
CancelQueued(a) ==
    /\ TaskFree
    /\ work[a] = "queued"
    /\ \A r \in RunsOf(a) : RunFree(r) /\ run[r] \notin Leased \union {"waiting_human"}
    /\ work' = [work EXCEPT ![a] = "cancelled"]
    /\ run' = [r \in Runs |-> IF r \in RunsOf(a) /\ run[r] = "queued"
                              THEN "cancelled" ELSE run[r]]
    /\ lease' = [r \in Runs |-> IF r \in RunsOf(a) /\ run[r] = "queued"
                                THEN "none" ELSE lease[r]]
    /\ UNCHANGED <<task, accepted, participants, assignee, results, tx>>

\* respond_to_waiting_agent_run supersedes the latest attempt.
IsLatest(r) == run[r] # "none" /\ (Next1(r) \in Runs => run[Next1(r)] = "none")

Respond(r) ==
    /\ TaskFree
    /\ task = "active"
    /\ IsLatest(r)
    /\ RunFree(r)
    /\ run[r] = "waiting_human"
    /\ work[r[1]] = "waiting_human"
    /\ Next1(r) \in Runs                                \* bound MaxAttempts
    /\ run' = [run EXCEPT ![r] = "interrupted", ![Next1(r)] = "queued"]
    /\ lease' = [lease EXCEPT ![r] = "none"]
    /\ work' = [work EXCEPT ![r[1]] = "queued"]
    /\ UNCHANGED <<task, accepted, participants, assignee, results, tx>>

\* A Human's choice of agents: the open work of the agents in gs is read, but
\* not locked, under the task's lock.
OpenWorkOf(gs) == {a \in Assignments : /\ assignee[a] \in gs
                                       /\ work[a] \in {"queued", "running", "waiting_human"}}

LockAndRead(s, after, gs) ==
    /\ tx[s] = Idle
    /\ TaskFree
    /\ tx' = [tx EXCEPT ![s] =
                [pc |-> "task_locked", chosen |-> after, works |-> OpenWorkOf(gs),
                 runs |-> {r \in Runs : r[1] \in OpenWorkOf(gs) /\ run[r] \in Open}]]
    /\ UNCHANGED <<task, accepted, participants, work, assignee, run, lease, results>>

IsMember(h) == participants \intersect AgentsOf(h) # {}

\* select_task_agents replaces the member's agents by chosen.
SelectRead(s, h, chosen) ==
    /\ task \in {"active", "paused"}
    /\ IsMember(h)
    /\ LockAndRead(s, (participants \ AgentsOf(h)) \union chosen,
                      (participants \intersect AgentsOf(h)) \ chosen)

\* leave_task, by a member who is not the owner, in any state of the Task.
LeaveRead(s, h) ==
    /\ \A g \in InitialAgents : OwnerOf[g] # h
    /\ IsMember(h)
    /\ LockAndRead(s, participants \ AgentsOf(h), AgentsOf(h))

\* Both then write what they read, and queue the agents newly chosen.
SelectCommit(s) ==
    LET t == tx[s] IN
    /\ t.pc = "task_locked"
    /\ \A r \in t.runs : RunFree(r)
    /\ \E f \in NewWork(t.chosen \ participants, work) :
        /\ work' = QueuedWork(f, [a \in Assignments |->
                        IF a \in t.works THEN "cancelled" ELSE work[a]])
        /\ run' = QueuedRuns(f, [r \in Runs |->
                        IF r \in t.runs THEN "cancelled" ELSE run[r]])
        /\ assignee' = NewAssignees(f, assignee)
    /\ lease' = [r \in Runs |-> IF r \in t.runs THEN "none" ELSE lease[r]]
    /\ participants' = t.chosen
    /\ tx' = [tx EXCEPT ![s] = Idle]
    /\ UNCHANGED <<task, accepted, results>>

\* invite_task_members adds a friend with the friend's default agent.
Invite(g) ==
    /\ TaskFree
    /\ task \in {"active", "paused"}
    /\ ~IsMember(OwnerOf[g])
    /\ participants' = participants \union {g}
    /\ Queue({g})
    /\ UNCHANGED <<task, accepted, lease, results, tx>>

\* update_task_status; it leaves assignments, runs and leases alone.
Transition(action) ==
    CASE action = "pause"   -> [from |-> {"active"}, to |-> "paused"]
      [] action = "resume"  -> [from |-> {"paused"}, to |-> "active"]
      [] action = "cancel"  -> [from |-> {"active", "paused", "awaiting_acceptance"},
                                to |-> "cancelled"]
      [] action = "archive" -> [from |-> {"completed", "cancelled"}, to |-> "archived"]
      [] action = "restore" -> [from |-> {"archived"},
                                to |-> IF accepted THEN "completed" ELSE "cancelled"]

UpdateStatus(action) ==
    /\ TaskFree
    /\ task \in Transition(action).from
    /\ task' = Transition(action).to
    /\ UNCHANGED <<accepted, participants, work, assignee, run, lease, results, tx>>

NothingRunning ==               \* mutant: waiting work does not count
    \A a \in Assignments : work[a] \notin {"queued", "running", "failed"}

NothingOutstanding ==
    \A a \in Assignments : work[a] \in {"none", "completed", "cancelled"}

\* submit_task.
Submit ==
    /\ TaskFree
    /\ task = "active"
    /\ NothingOutstanding
    /\ task' = "awaiting_acceptance"
    /\ UNCHANGED <<accepted, participants, work, assignee, run, lease, results, tx>>

\* decide_task_acceptance.
Accept ==
    /\ TaskFree
    /\ task = "awaiting_acceptance"
    /\ task' = "completed"
    /\ accepted' = TRUE
    /\ UNCHANGED <<participants, work, assignee, run, lease, results, tx>>

RequestChanges ==
    /\ TaskFree
    /\ task = "awaiting_acceptance"
    /\ task' = "active"
    /\ Queue(participants)
    /\ UNCHANGED <<accepted, participants, lease, results, tx>>

-----------------------------------------------------------------------------
(* The environment: time and failed transactions.                          *)

\* RUN_LEASE_SECONDS pass without a heartbeat.  A result report that loaded
\* the run before holds an expiry that is no later.
LeaseTimeout(r) ==
    /\ lease[r] = "live"
    /\ TimelyCommits => RunFree(r)
    /\ Next1(r) \in Runs                                \* bound MaxAttempts
    /\ lease' = [lease EXCEPT ![r] = "expired"]
    /\ tx' = [s \in Sessions |->
                IF tx[s].pc = "result_loaded" /\ tx[s].run = r
                THEN [tx[s] EXCEPT !.lease = "expired"] ELSE tx[s]]
    /\ UNCHANGED <<task, accepted, participants, work, assignee, run, results>>

\* A transaction rolls back: a refused check, a uniqueness violation, a
\* deadlock victim, a lost connection or a restarted worker.
Abort(s) ==
    /\ tx[s] # Idle
    /\ tx' = [tx EXCEPT ![s] = Idle]
    /\ UNCHANGED <<task, accepted, participants, work, assignee, run, lease, results>>

-----------------------------------------------------------------------------
Poll(s) ==
    \/ \E g \in Agents : PollRead(s, g)
    \/ PollCheck(s)
    \/ Claim(s)
    \/ PollOnly(s)

Report(s) ==
    \/ \E r \in Runs, to \in Progress : UpdateLock(s, r, to)
    \/ UpdateCommit(s)
    \/ \E r \in Runs, to \in Outcomes : ResultLoad(s, r, to) \/ ResultLock(s, r, to)
    \/ ResultLockLoaded(s)
    \/ ResultCommit(s)

Select(s) ==
    \/ \E h \in {OwnerOf[g] : g \in Agents} :
          \/ \E chosen \in (SUBSET AgentsOf(h)) \ {{}} : SelectRead(s, h, chosen)
          \/ LeaveRead(s, h)
    \/ SelectCommit(s)

Command ==
    \/ \E gs \in (SUBSET Agents) \ {{}} : CreateAssignments(gs)
    \/ \E a \in Assignments : CancelQueued(a)
    \/ \E r \in Runs : Respond(r)
    \/ \E g \in Agents : Invite(g)
    \/ \E action \in {"pause", "resume", "cancel", "archive", "restore"} :
          UpdateStatus(action)
    \/ Submit
    \/ Accept
    \/ RequestChanges

Next ==
    \/ \E s \in Sessions : Poll(s) \/ Report(s) \/ Select(s) \/ Abort(s)
    \/ Command
    \/ \E r \in Runs : LeaseTimeout(r)

Spec == Init /\ [][Next]_vars


(***************************************************************************)
(* Fairness.  Every transaction ends; an Agent's host keeps polling, so    *)
(* again and again one of its polls commits, and again and again one of    *)
(* its claims that finds work commits.  Nothing is assumed of Humans.      *)
(***************************************************************************)
Ends(s) == PollCheck(s) \/ PollOnly(s) \/ Claim(s) \/ UpdateCommit(s)
             \/ ResultLockLoaded(s) \/ ResultCommit(s) \/ SelectCommit(s) \/ Abort(s)

PollOf(s, g) == tx[s].pc \in {"poll_read", "poll_checked"} /\ tx[s].agent = g

Fairness ==
    /\ \A s \in Sessions : WF_vars(Ends(s))
    /\ \A g \in Agents :
        /\ SF_vars(\E s \in Sessions : PollRead(s, g))
        /\ SF_vars(\E s \in Sessions : PollOf(s, g) /\ PollCheck(s))
        /\ SF_vars(\E s \in Sessions : PollOf(s, g) /\ (PollOnly(s) \/ Claim(s)))
        /\ SF_vars(\E s \in Sessions : PollOf(s, g) /\ Claim(s))

FairSpec == Spec /\ Fairness

-----------------------------------------------------------------------------
(***************************************************************************)
(* Properties.                                                             *)
(***************************************************************************)

\* An assignment has at most one attempt that can still be claimed, reported
\* on or answered, and it is the latest: expiry, requeue and the Human
\* response each close an attempt in the transaction that opens the next.
OneOpenRun ==
    \A r \in Runs : run[r] \in Open =>
        \A q \in RunsOf(r[1]) : q[2] > r[2] => run[q] = "none"

\* The inductive invariant behind OneOpenRun.  Attempts are numbered without
\* gaps, an unused assignment row has none, and a transaction acts on runs
\* that exist; a status report holds its run open, alone, until it commits.
AttemptsInOrder ==
    \A r \in Runs : run[r] = "none" =>
        \A q \in RunsOf(r[1]) : q[2] > r[2] => run[q] = "none"

UnusedHasNoRuns == \A r \in Runs : work[r[1]] = "none" => run[r] = "none"

TxActsOnRuns(s) ==
    LET t == tx[s] IN
    /\ t.pc \in {"poll_read", "poll_checked"} =>
         /\ \A r \in t.expired : run[r] # "none"
         /\ t.requeue \subseteq t.expired
    /\ t.pc \in {"result_loaded", "run_locked"} => run[t.run] # "none"
    /\ t.pc = "run_locked" /\ ~t.result => run[t.run] \in Open
    /\ t.pc = "task_locked" => \A r \in t.runs : run[r] # "none"

RunLocksExclusive ==
    \A s, z \in Sessions :
        tx[s].pc = "run_locked" /\ tx[z].pc = "run_locked" /\ tx[s].run = tx[z].run => s = z

AttemptInv ==
    /\ TypeOK
    /\ AttemptsInOrder
    /\ OneOpenRun
    /\ UnusedHasNoRuns
    /\ \A s \in Sessions : TxActsOnRuns(s)
    /\ RunLocksExclusive

\* A run that finished, was cancelled or was interrupted never runs again.
ClosedStaysClosed ==
    [][\A r \in Runs : run[r] \in Closed => run'[r] \in Closed]_vars

\* The attempts as the abstract specification sees them.
Phase == [r \in Runs |-> CASE run[r] = "none" -> "none"
                          [] run[r] \in Open -> "open"
                          [] run[r] \in Closed -> "closed"]

AbstractAttempts == INSTANCE Attempts WITH attempt <- Phase

\* Whatever the handlers race, the attempts of each assignment are made one
\* after another, and none comes back.
ImplementsAttempts == AbstractAttempts!Spec

\* Once the Human accepted the Task, no Agent changes its work or adds a result.
AcceptedFrozen ==
    [][accepted => work' = work /\ results' = results]_vars

\* A submitted or accepted Task has no assignment that still changes state.
SubmittedSettled ==
    task \in {"awaiting_acceptance", "completed"} =>
        \A a \in Assignments : work[a] \in {"none", "completed", "cancelled"}

\* A completed assignment keeps its result: no later claim or report re-opens it.
CompletedFinal ==
    [][\A a \in Assignments : work[a] = "completed" => work'[a] = "completed"]_vars

\* An attempt that was superseded (its lease expired, or a Human answered)
\* records no result.
SupersededSilent ==
    [][\A r \in Runs : run[r] = "interrupted" => results'[r] = results[r]]_vars

\* Work is only leased to an Agent that takes part in the Task.
ClaimByParticipant ==
    [][\A r \in Runs : run[r] # "leased" /\ run'[r] = "leased"
                          => assignee[r[1]] \in participants]_vars

\* A run whose lease expired is interrupted, so its work can move on.
ExpiredInterrupted ==
    \A r \in Runs : run[r] \in Leased /\ lease[r] = "expired" ~> run[r] \in Closed

\* An attempt that waits in the queue of an active Task is taken, unless agent
\* selections keep locking the Task: SKIP LOCKED passes over it then.
QueuedTaken ==
    <>[](task = "active" /\ TaskFree) =>
        \A r \in Runs : run[r] = "queued" ~> run[r] # "queued"
=============================================================================

------------------------------ MODULE TaskViews ------------------------------
(***************************************************************************)
(* What Humans and Agents are shown of one Task (agentpost/tasks/          *)
(* service.py): the detail and the list of a member, the briefing and the  *)
(* index of an Agent.  Each is computed from the rows of TaskRuns and      *)
(* writes none; it is given here for the rows at one moment, though the    *)
(* handlers read them statement by statement.                              *)
(***************************************************************************)
EXTENDS TaskRuns

\* _task_participation_for_agent: the Agents that may read the Task.
OpenTo(g) == g \in participants

-----------------------------------------------------------------------------
(* Assignments, each with its latest attempt.                              *)

Shown == {a \in Assignments : work[a] # "none"}

LatestRun(a) == CHOOSE r \in RunsOf(a) : IsLatest(r)

Row(a) == [agent |-> assignee[a], status |-> work[a], run |-> run[LatestRun(a)]]

\* The class in which _task_state_axes counts an attempt.
RunClass(status) ==
    CASE status = "queued" -> "queued"
      [] status \in Leased -> "active"
      [] status = "waiting_human" -> "waiting_human"
      [] status \in Closed -> "terminal"

RunCounts ==
    [c \in {"queued", "active", "waiting_human", "terminal"} |->
        Cardinality({a \in Shown : RunClass(Row(a).run) = c})]

\* The assignments pending_assignment_count counts.
Pending == {a \in Shown : Row(a).status \notin {"completed", "cancelled"}}

\* human_acceptance_status; a revision under way is shown as not ready.
AcceptanceShown ==
    IF accepted THEN "accepted"
    ELSE CASE task = "awaiting_acceptance" -> "pending"
           [] task \in {"cancelled", "archived"} -> "cancelled"
           [] OTHER -> "not_ready"

\* The members block: each Human with the Agents chosen for the Task.
MembersShown ==
    [h \in {OwnerOf[g] : g \in participants} |-> participants \intersect AgentsOf(h)]

\* _task_detail, without the activities.
Detail ==
    [status |-> task, acceptance |-> AcceptanceShown, members |-> MembersShown,
     counts |-> RunCounts, pending |-> Cardinality(Pending),
     assignments |-> [a \in Shown |-> Row(a)]]

\* get_task and list_tasks, for a Human; agent_handshake, for an Agent.
TaskFor(h)  == IF IsMember(h) THEN {Detail} ELSE {}
IndexFor(g) == IF OpenTo(g) THEN {task} ELSE {}

-----------------------------------------------------------------------------
(* The briefing of an Agent and the context that comes with a lease.       *)

MyWork(g) == {a \in Pending : Row(a).agent = g}

NextAction(a) ==
    IF task # "active" THEN "wait_for_task_activation"
    ELSE CASE Row(a).run = "queued" -> "claim_before_execution"
           [] Row(a).run = "waiting_human" -> "wait_for_human_response"
           [] OTHER -> "inspect_execution"

\* get_agent_task_briefing, without the changes.
BriefingFor(g) == IF OpenTo(g) THEN [a \in MyWork(g) |-> NextAction(a)] ELSE << >>

\* _agent_collaboration_context.
Collaboration == [agents |-> participants, results |-> {r \in Runs : results[r] > 0}]

-----------------------------------------------------------------------------
(* Properties.                                                             *)

RunClassesOf(status) ==
    CASE status = "queued" -> {"queued"}
      [] status = "running" -> {"queued", "active"}
      [] status = "waiting_human" -> {"waiting_human"}
      [] status \in {"completed", "partial", "failed"} -> {"terminal"}

\* Where respond_to_waiting_agent_run finds an attempt to supersede.
Answerable(a) ==
    \E r \in RunsOf(a) : IsLatest(r) /\ run[r] = "waiting_human" /\ work[a] = "waiting_human"

\* What is shown can be done.  Of every assignment that was not cancelled, the
\* latest attempt - the one counted, claimed and answered - is in a state that
\* goes with the assignment's own status: queued work can be claimed, running
\* work is leased or queued again, work that waits for a Human has the attempt
\* an answer supersedes, and finished work has no attempt under way; without
\* that, submit_task would wait for ever for work nobody can move.  And an Agent
\* is told to wait for a Human exactly where a Human can answer.  Polls, reports,
\* answers and agent selections race for the two rows, which no constraint of
\* the schema ties.
ViewsAgree ==
    /\ \A a \in Shown : Row(a).status # "cancelled" =>
            RunClass(Row(a).run) \in RunClassesOf(Row(a).status)
    /\ task = "active" =>
            \A g \in participants : \A a \in MyWork(g) :
                BriefingFor(g)[a] = "wait_for_human_response" <=> Answerable(a)
=============================================================================

---------------------------- MODULE WakeDispatch ----------------------------
(***************************************************************************)
(* Waking an Agent's host through its webhook channel: the delivery rows   *)
(* queued with new runs, the dispatch loop every API worker runs, and the  *)
(* Human who configures, tests and disables the channel                    *)
(* (agentpost/wakeup/service.py).                                          *)
(*                                                                         *)
(* A dispatch iteration keeps one database session over many commits.  The *)
(* session has autoflush off: an outcome assigned to a row stays in memory *)
(* (job.out, job.mark) until the next commit, a rollback loses it, and     *)
(* refreshing the row discards it.                                         *)
(***************************************************************************)
EXTENDS Integers, FiniteSets

CONSTANTS
    Runs,         \* AgentRuns that may be queued for the Agent
    Workers,      \* API processes, each with its dispatch loop
    Desks,        \* concurrent requests of the channel's Human
    Kinds,        \* channel types the Human configures
    Replies,      \* what the endpoint answers
    MaxAttempts,  \* Settings.wake_dispatch_max_attempts
    MaxMinutes,   \* bound on elapsed 60 second windows
    MaxCrashes    \* bound on process restarts

ASSUME ConstantsAssumption ==
    /\ Kinds \subseteq {"aily", "notify"}
    /\ Replies \subseteq {"accepted", "refused"}
    /\ IsFiniteSet(Workers) /\ IsFiniteSet(Desks)
    /\ MaxAttempts \in Nat \ {0}
    /\ MaxMinutes \in Nat
    /\ MaxCrashes \in Nat

VARIABLES
    kind,     \* AgentWakeChannel.channel_type, "none" before the insert
    status,   \* AgentWakeChannel.status
    recent,   \* last_dispatch_at lies within the last 60 seconds
    run,      \* AgentRun.status, as far as dispatching looks at it
    row,      \* AgentWakeDelivery.status of each run's row, "none" before the insert
    attempts, \* AgentWakeDelivery.attempts
    due,      \* rows whose available_at has come
    stuck,    \* rows whose last_attempt_at is more than 120 seconds ago
    job,      \* the dispatch iteration of each worker
    desk,     \* the Human's open requests
    calls,    \* history: webhook calls made for each run
    accepted, \* history: runs whose call the endpoint accepted
    charges,  \* history: notification calls and tests, each one paid for
    halted,   \* history: a notification failed, and the Human did nothing since
    minutes,  \* history: 60 second windows elapsed
    crashes   \* history: iterations and requests lost

db     == <<kind, status, recent, row, attempts, due, stuck>>
past   == <<calls, accepted, charges, halted, minutes, crashes>>
vars   == <<db, run, job, desk, past>>

Statuses == {"none", "configured", "active", "error", "disabled"}
Outcomes == {"cancelled", "delivered", "failed"}
RowStatuses == {"none", "pending", "sending"} \union Outcomes

\* What a session will write at its next commit: an outcome, a retry ("retry":
\* pending with a later available_at) or only a later available_at ("later").
Writes == {"none", "retry", "later"} \union Outcomes

Unwritten == [r \in Runs |-> "none"]
IdleJob == [pc |-> "idle", left |-> {}, locked |-> {}, at |-> "none", kind |-> "none",
            status |-> "none", seen |-> 0, out |-> Unwritten, mark |-> "none"]
IdleDesk == [pc |-> "idle"]

\* A charge is counted up to one more than the windows allow.
MaxCharges == MaxMinutes + 2
MaxCalls   == MaxAttempts + 1

Jobs == [pc : {"idle", "fetch", "next", "claim", "call"}, left : SUBSET Runs,
         locked : SUBSET Runs, at : Runs \union {"none"}, kind : Kinds \union {"none"},
         status : Statuses, seen : 0..MaxAttempts, out : [Runs -> Writes],
         mark : {"none", "active", "error"}]
DeskStates == {IdleDesk} \union [pc : {"testing"}, kind : Kinds, status : Statuses]
              \union [pc : {"disabling"}, rows : SUBSET Runs]

TypeOK ==
    /\ kind \in Kinds \union {"none"} /\ status \in Statuses /\ recent \in BOOLEAN
    /\ run \in [Runs -> {"none", "queued", "taken"}]
    /\ row \in [Runs -> RowStatuses]
    /\ attempts \in [Runs -> 0..MaxAttempts]
    /\ due \subseteq Runs /\ stuck \subseteq Runs
    /\ job \in [Workers -> Jobs]
    /\ desk \in [Desks -> DeskStates]
    /\ calls \in [Runs -> 0..MaxCalls] /\ accepted \subseteq Runs
    /\ halted \in BOOLEAN
    /\ charges \in 0..MaxCharges /\ minutes \in 0..MaxMinutes /\ crashes \in 0..MaxCrashes

Init ==
    /\ kind = "none" /\ status = "none" /\ recent = FALSE
    /\ run = [r \in Runs |-> "none"]
    /\ row = [r \in Runs |-> "none"]
    /\ attempts = [r \in Runs |-> 0]
    /\ due = {} /\ stuck = {}
    /\ job = [w \in Workers |-> IdleJob]
    /\ desk = [d \in Desks |-> IdleDesk]
    /\ calls = [r \in Runs |-> 0] /\ accepted = {}
    /\ charges = 0 /\ halted = FALSE /\ minutes = 0 /\ crashes = 0

-----------------------------------------------------------------------------
(* Rows: enqueued with the run, written back by sessions.                  *)

\* enqueue_run_wake, in the transaction that queues the run.
Wakes == /\ status \in {"configured", "active", "error"}
         /\ kind = "notify" => status = "active"

QueueRun(r) ==
    /\ run[r] = "none"
    /\ run' = [run EXCEPT ![r] = "queued"]
    /\ row' = IF Wakes THEN [row EXCEPT ![r] = "pending"] ELSE row
    /\ due' = IF Wakes THEN due \union {r} ELSE due
    /\ UNCHANGED <<kind, status, recent, attempts, stuck, job, desk, past>>

\* The run is claimed, cancelled or interrupted.
TakeRun(r) ==
    /\ run[r] = "queued"
    /\ run' = [run EXCEPT ![r] = "taken"]
    /\ UNCHANGED <<db, job, desk, past>>

FlushedRetriesOnly(out) ==      \* mutant: the final commit is forgotten
    [r \in Runs |-> IF out[r] = "retry" THEN "pending" ELSE row[r]]

Flushed(out) == [r \in Runs |-> CASE out[r] \in {"none", "later"} -> row[r]
                                  [] out[r] = "retry"             -> "pending"
                                  [] out[r] \in Outcomes          -> out[r]]
Postponed(out) == due \ {r \in Runs : out[r] \in {"retry", "later"}}

\* No other worker holds the lock of its SELECT ... FOR UPDATE on these rows.
Free(w, rs) == \A v \in Workers \ {w} : job[v].locked \intersect rs = {}
CanFlush(w) == Free(w, {r \in Runs : job[w].out[r] # "none"})

-----------------------------------------------------------------------------
(* One iteration of dispatch_pending_wakes.                                *)

UnknownIgnored == {}            \* mutant: interrupted calls are not looked for

\* Calls that did not report back within 120 seconds: outcome unknown.
Unknown == {r \in stuck : row[r] = "sending"}
Swept   == [r \in Runs |-> IF r \in Unknown THEN "failed" ELSE row[r]]

Sweep(w) ==
    /\ job[w].pc = "idle"
    /\ status' = IF kind = "notify" /\ status # "disabled" /\ Unknown # {}
                 THEN "error" ELSE status
    /\ row' = Swept
    /\ job' = [job EXCEPT ![w].pc = "fetch"]
    /\ UNCHANGED <<kind, recent, attempts, due, stuck, run, desk, past>>

\* SELECT ... FOR UPDATE SKIP LOCKED; the locks last until the next commit.
Fetch(w) ==
    LET found == {r \in due : row[r] = "pending" /\ Free(w, {r})} IN
    /\ job[w].pc = "fetch"
    /\ job' = [job EXCEPT ![w].pc = "next", ![w].left = found, ![w].locked = found]
    /\ UNCHANGED <<db, run, desk, past>>

\* The next row is refreshed; it is skipped when no longer pending.
Skip(w, r) ==
    /\ job[w].pc = "next" /\ r \in job[w].left
    /\ row[r] # "pending"
    /\ job' = [job EXCEPT ![w].left = @ \ {r}]
    /\ UNCHANGED <<db, run, desk, past>>

Closed == status = "disabled" \/ (kind = "notify" /\ status # "active")

\* The channel is refreshed: a mark not yet written is lost.
Drop(w, r) ==
    /\ job[w].pc = "next" /\ r \in job[w].left
    /\ row[r] = "pending"
    /\ Closed \/ run[r] # "queued"
    /\ job' = [job EXCEPT ![w].left = @ \ {r}, ![w].mark = "none",
                          ![w].out[r] = "cancelled"]
    /\ UNCHANGED <<db, run, desk, past>>

Look(w, r) ==
    /\ job[w].pc = "next" /\ r \in job[w].left
    /\ row[r] = "pending"
    /\ ~Closed
    /\ run[r] = "queued"
    /\ job' = [job EXCEPT ![w].pc = "claim", ![w].left = @ \ {r}, ![w].at = r,
                          ![w].kind = kind, ![w].status = status,
                          ![w].seen = attempts[r], ![w].mark = "none"]
    /\ UNCHANGED <<db, run, desk, past>>

ReservedAlways(k) == TRUE       \* mutant: last_dispatch_at is not compared

\* _reserve_notification_send: one conditional UPDATE of the channel row.
Reserved(k) == k = "notify" => ~recent

Defer(w) ==
    /\ job[w].pc = "claim"
    /\ ~Reserved(job[w].kind)
    /\ job' = [job EXCEPT ![w].pc = "next", ![w].out[job[w].at] = "later"]
    /\ UNCHANGED <<db, run, desk, past>>

StillPendingUnchecked(r) == TRUE     \* mutant: the claim is not conditional
StillPending(r) == row[r] = "pending"

\* UPDATE ... WHERE status = 'pending', then everything is committed.
Claim(w) ==
    LET r == job[w].at IN
    /\ job[w].pc = "claim"
    /\ Reserved(job[w].kind)
    /\ Free(w, {r}) /\ CanFlush(w)
    /\ StillPending(r)
    /\ row' = [Flushed(job[w].out) EXCEPT ![r] = "sending"]
    /\ due' = Postponed(job[w].out)
    /\ attempts' = [attempts EXCEPT ![r] = job[w].seen + 1]
    /\ stuck' = stuck \ {r}
    /\ recent' = (recent \/ job[w].kind = "notify")
    /\ job' = [job EXCEPT ![w].pc = "call", ![w].locked = {}, ![w].out = Unwritten]
    /\ UNCHANGED <<kind, status, run, desk, past>>

\* Another worker was faster: the rollback forgets every unwritten outcome.
Lose(w) ==
    /\ job[w].pc = "claim"
    /\ Reserved(job[w].kind)
    /\ Free(w, {job[w].at})
    /\ ~StillPending(job[w].at)
    /\ job' = [job EXCEPT ![w].pc = "next", ![w].locked = {}, ![w].out = Unwritten,
                          ![w].mark = "none"]
    /\ UNCHANGED <<db, run, desk, past>>

GivesUpOnlyLate(w) == job[w].seen + 1 >= MaxAttempts   \* mutant: any kind retries

GivesUp(w) == job[w].kind = "notify" \/ job[w].seen + 1 >= MaxAttempts

OutcomeOptimistic(w, reply) == "delivered"     \* mutant: the reply is not read

OutcomeOf(w, reply) ==
    IF reply = "accepted" THEN "delivered" ELSE IF GivesUp(w) THEN "failed" ELSE "retry"

\* The status the channel object will be written with, if it changed.
Mark(o, loaded) ==
    CASE o = "delivered" /\ loaded # "active" -> "active"
      [] o = "failed" /\ loaded # "error"     -> "error"
      [] OTHER                                -> "none"

Paid(k) == IF k = "notify" THEN 1 ELSE 0

\* The webhook is called; nothing is written yet.
Call(w, reply) ==
    LET r == job[w].at
        o == OutcomeOf(w, reply)
    IN
    /\ job[w].pc = "call"
    /\ calls[r] < MaxCalls
    /\ charges + Paid(job[w].kind) <= MaxCharges
    /\ calls' = [calls EXCEPT ![r] = @ + 1]
    /\ charges' = charges + Paid(job[w].kind)
    /\ accepted' = IF reply = "accepted" THEN accepted \union {r} ELSE accepted
    /\ halted' = (halted \/ (job[w].kind = "notify" /\ o = "failed"))
    /\ job' = [job EXCEPT ![w].pc = "next", ![w].out[r] = o,
                          ![w].mark = Mark(o, job[w].status)]
    /\ UNCHANGED <<db, run, desk, minutes, crashes>>

Finish(w) ==
    /\ job[w].pc = "next" /\ job[w].left = {}
    /\ CanFlush(w)
    /\ row' = Flushed(job[w].out)
    /\ due' = Postponed(job[w].out)
    /\ status' = IF job[w].mark = "none" THEN status ELSE job[w].mark
    /\ job' = [job EXCEPT ![w] = IdleJob]
    /\ UNCHANGED <<kind, recent, attempts, stuck, run, desk, past>>

\* The process stops: the open transaction rolls back, a call may be lost.
Crash(w) ==
    /\ job[w].pc # "idle"
    /\ crashes < MaxCrashes
    /\ crashes' = crashes + 1
    /\ job' = [job EXCEPT ![w] = IdleJob]
    /\ UNCHANGED <<db, run, desk, calls, accepted, charges, halted, minutes>>

-----------------------------------------------------------------------------
(* The Human's requests.                                                   *)

Pending == {r \in Runs : row[r] = "pending"}
Missed  == {r \in Runs : run[r] = "queued" /\ row[r] = "none"}

\* _save_channel: an aily channel wakes for the runs already queued, a
\* notification channel forgets what an earlier configuration left pending.
Configure(k) ==
    /\ status' = "configured" /\ kind' = k
    /\ \/ /\ k = "aily"
          /\ row' = [r \in Runs |-> IF r \in Missed THEN "pending" ELSE row[r]]
          /\ due' = due \union Missed
       \/ /\ k = "notify"
          /\ \A w \in Workers : job[w].locked \intersect Pending = {}
          /\ row' = [r \in Runs |-> IF r \in Pending THEN "cancelled" ELSE row[r]]
          /\ due' = due
    /\ halted' = FALSE
    /\ UNCHANGED <<recent, attempts, stuck, run, job, desk,
                   calls, accepted, charges, minutes, crashes>>

\* test_wake_channel reserves and commits before it calls the webhook.
TestBegin(d) ==
    /\ desk[d] = IdleDesk
    /\ status \notin {"none", "disabled"}
    /\ Reserved(kind)
    /\ recent' = (recent \/ kind = "notify")
    /\ desk' = [desk EXCEPT ![d] = [pc |-> "testing", kind |-> kind, status |-> status]]
    /\ UNCHANGED <<kind, status, row, attempts, due, stuck, run, job, past>>

TestEnd(d, reply) ==
    LET t == desk[d]
        m == Mark(IF reply = "accepted" THEN "delivered" ELSE "failed", t.status)
    IN
    /\ t.pc = "testing"
    /\ charges + Paid(t.kind) <= MaxCharges
    /\ charges' = charges + Paid(t.kind)
    /\ status' = IF m = "none" THEN status ELSE m
    /\ desk' = [desk EXCEPT ![d] = IdleDesk]
    /\ halted' = (halted /\ reply # "accepted")
    /\ UNCHANGED <<kind, recent, row, attempts, due, stuck, run, job,
                   calls, accepted, minutes, crashes>>

Abandon(d) ==
    /\ desk[d] # IdleDesk
    /\ crashes < MaxCrashes
    /\ crashes' = crashes + 1
    /\ desk' = [desk EXCEPT ![d] = IdleDesk]
    /\ UNCHANGED <<db, run, job, calls, accepted, charges, halted, minutes>>

\* disable_wake_channel reads the open deliveries unlocked, then writes them.
DisableRead(d) ==
    /\ desk[d] = IdleDesk
    /\ status \notin {"none", "disabled"}
    /\ desk' = [desk EXCEPT ![d] =
                 [pc |-> "disabling", rows |-> {r \in Runs : row[r] \in {"pending", "sending"}}]]
    /\ UNCHANGED <<db, run, job, past>>

DisableCommit(d) ==
    LET rows == desk[d].rows IN
    /\ desk[d].pc = "disabling"
    /\ \A w \in Workers : job[w].locked \intersect rows = {}
    /\ status' = "disabled"
    /\ row' = [r \in Runs |-> IF r \in rows THEN "cancelled" ELSE row[r]]
    /\ desk' = [desk EXCEPT ![d] = IdleDesk]
    /\ UNCHANGED <<kind, recent, attempts, due, stuck, run, job, past>>

-----------------------------------------------------------------------------
(* Time.                                                                   *)

Minute ==
    /\ minutes < MaxMinutes
    /\ minutes' = minutes + 1
    /\ recent' = FALSE
    /\ UNCHANGED <<kind, status, row, attempts, due, stuck, run, job, desk,
                   calls, accepted, charges, halted, crashes>>

ComesDue(r) ==
    /\ row[r] = "pending"
    /\ r \notin due
    /\ due' = due \union {r}
    /\ UNCHANGED <<kind, status, recent, row, attempts, stuck, run, job, desk, past>>

\* last_attempt_at is the start of the iteration, which calls up to 20
\* endpoints of 10 seconds each: a row can be stuck while it is being sent.
GetsStuck(r) ==
    /\ row[r] = "sending"
    /\ r \notin stuck
    /\ stuck' = stuck \union {r}
    /\ UNCHANGED <<kind, status, recent, row, attempts, due, run, job, desk, past>>

-----------------------------------------------------------------------------
Dispatch(w) ==
    \/ Sweep(w) \/ Fetch(w)
    \/ \E r \in Runs : Skip(w, r) \/ Drop(w, r) \/ Look(w, r)
    \/ Defer(w) \/ Claim(w) \/ Lose(w)
    \/ \E reply \in Replies : Call(w, reply)
    \/ Finish(w)

Human ==
    \/ \E k \in Kinds : Configure(k)
    \/ \E d \in Desks : \/ TestBegin(d)
                        \/ \E reply \in Replies : TestEnd(d, reply)
                        \/ DisableRead(d)
                        \/ DisableCommit(d)
                        \/ Abandon(d)

Next ==
    \/ \E w \in Workers : Dispatch(w) \/ Crash(w)
    \/ Human
    \/ \E r \in Runs : QueueRun(r) \/ TakeRun(r) \/ ComesDue(r) \/ GetsStuck(r)
    \/ Minute

Spec == Init /\ [][Next]_vars

\* The loop runs for ever, and time passes.
Fairness ==
    /\ \A w \in Workers : WF_vars(Dispatch(w))
    /\ \A r \in Runs : WF_vars(ComesDue(r)) /\ WF_vars(GetsStuck(r))

FairSpec == Spec /\ Fairness

-----------------------------------------------------------------------------
(* Properties.                                                             *)

\* A notification channel is charged at most once a minute, by the workers and
\* the Human's tests together, whatever crashes.
OneChargePerMinute == charges <= minutes + 1

\* A Human is notified of a run at most once.
NotifiedOnce == kind = "notify" => \A r \in Runs : calls[r] <= 1

\* A delivery is only recorded as delivered when the endpoint accepted a call.
DeliveredWasAccepted == \A r \in Runs : row[r] = "delivered" => r \in accepted

\* A delivery given up, because it failed or its outcome is unknown, is not
\* queued again.
FailedFinal ==
    [][\A r \in Runs : row[r] = "failed" => row'[r] # "pending"]_vars

\* An accepted call is recorded, unless a restart loses what the session held
\* or disabling writes over it.
AcceptedRecorded ==
    [](crashes = 0 /\ \A d \in Desks : desk[d].pc # "disabling") =>
        \A r \in Runs : r \in accepted ~> row[r] = "delivered"

\* No delivery stays open for ever.
Settles == \A r \in Runs : row[r] \in {"pending", "sending"} ~> row[r] \in Outcomes

\* A notification channel that failed makes no call before the Human tests or
\* configures it again.
FailurePauses ==
    [][halted /\ kind = "notify" => calls' = calls]_vars
=============================================================================

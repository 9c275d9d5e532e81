------------------------------ MODULE HostWorker ------------------------------
(***************************************************************************)
(* The opt-in executor of Task runs: TaskRunWorker and main of              *)
(* agentpost_sdk/task_worker.py, with the Codex process it starts.  Worker  *)
(* processes share state directories; a directory holds the journal of one  *)
(* run.  The server side is the part of tasks/service.py the worker sees:   *)
(* the attempts of one assignment and their leases.                        *)
(***************************************************************************)
EXTENDS Naturals, FiniteSets

CONSTANTS
  Workers,      \* worker processes
  Dirs,         \* state directories
  DirOf,        \* Workers -> Dirs
  MaxAttempts,  \* attempts of the assignment
  MaxFaults,    \* crashes and lost responses
  Outcomes,     \* what the model may report
  NoWorker, NoOutcome

ASSUME WorkerAssumption ==
  /\ DirOf \in [Workers -> Dirs]
  /\ MaxAttempts \in Nat \ {0} /\ MaxFaults \in Nat
  /\ NoWorker \notin Workers /\ NoOutcome \notin Outcomes

Runs == 1..MaxAttempts
Attempts0 == 0..MaxAttempts   \* 0: no run

VARIABLES
  run,      \* run -> status, and whether its lease has run out
  result,   \* run -> the outcome the server recorded
  journal,  \* directory -> run.json: phase, run and outcome
  guard,    \* directory -> the process that holds worker.lock
  pc,       \* process -> where it is
  held,     \* process -> the run and the outcome in its memory
  started,  \* run -> how often the model was started for it
  faults

workerVars == <<run, result, journal, guard, pc, held, started, faults>>

RunStatuses == {"absent", "queued", "leased", "interrupted", "done"}
NoJournal == [phase |-> "none", n |-> 0, v |-> NoOutcome]
Nothing == [n |-> 0, v |-> NoOutcome]
Places == {"down", "listening", "pending", "claiming", "saving", "executing",
           "produced", "completing", "recorded"}

WorkerTypeOK ==
  /\ run \in [Runs -> [status : RunStatuses, late : BOOLEAN]]
  /\ result \in [Runs -> Outcomes \cup {NoOutcome}]
  /\ journal \in [Dirs -> [phase : {"none", "running", "result_ready"},
                           n : Attempts0, v : Outcomes \cup {NoOutcome}]]
  /\ guard \in [Dirs -> Workers \cup {NoWorker}]
  /\ pc \in [Workers -> Places]
  /\ held \in [Workers -> [n : Attempts0, v : Outcomes \cup {NoOutcome}]]
  /\ started \in [Runs -> 0..2]
  /\ faults \in 0..MaxFaults

WorkerInit ==
  /\ run = [n \in Runs |-> [status |-> IF n = 1 THEN "queued" ELSE "absent", late |-> FALSE]]
  /\ result = [n \in Runs |-> NoOutcome]
  /\ journal = [d \in Dirs |-> NoJournal]
  /\ guard = [d \in Dirs |-> NoWorker]
  /\ pc = [w \in Workers |-> "down"]
  /\ held = [w \in Workers |-> Nothing]
  /\ started = [n \in Runs |-> 0]
  /\ faults = 0

-----------------------------------------------------------------------------
(* The server.                                                             *)

unchangedHost == UNCHANGED <<journal, guard, pc, held, started, faults>>
unchangedServer == UNCHANGED <<run, result>>

LeaseValid(n) == run[n].status = "leased" /\ ~run[n].late

LeaseRunsOut(n) ==
  /\ LeaseValid(n)
  /\ run' = [run EXCEPT ![n].late = TRUE]
  /\ UNCHANGED result /\ unchangedHost

\* A poll interrupts an attempt whose lease ran out and queues the next one.
Polled ==
  LET lost == {n \in Runs : run[n].status = "leased" /\ run[n].late} IN
  [n \in Runs |->
    IF n \in lost THEN [run[n] EXCEPT !.status = "interrupted"]
    ELSE IF n - 1 \in lost THEN [status |-> "queued", late |-> FALSE]
    ELSE run[n]]
Queued(r) == {n \in Runs : r[n].status = "queued"}

\* Another poller of the Agent, or a Human's command that voids the lease.
Requeue ==
  /\ run' = Polled /\ run' # run
  /\ UNCHANGED result /\ unchangedHost

Interrupt(n) ==
  /\ run[n].status \in {"queued", "leased"}
  /\ run' = [run EXCEPT ![n].status = "interrupted"]
  /\ UNCHANGED result /\ unchangedHost

-----------------------------------------------------------------------------
(* One pass of TaskRunWorker.once.                                         *)

Goto(w, place) == pc' = [pc EXCEPT ![w] = place]
Release(w) == guard' = [d \in Dirs |-> IF guard[d] = w THEN NoWorker ELSE guard[d]]
\* An exception leaves once, releases the lock and ends main.
Raise(w) == /\ Goto(w, "down") /\ Release(w)
            /\ held' = [held EXCEPT ![w] = Nothing]
            /\ UNCHANGED <<journal, started>>
\* once returns; main waits and calls it again.
Return(w) == /\ Goto(w, "listening") /\ Release(w)
             /\ held' = [held EXCEPT ![w] = Nothing]
             /\ UNCHANGED <<journal, started>>

\* main: refuses to start without the stored credential of the identity.
Start(w) ==
  /\ pc[w] = "down" /\ Goto(w, "listening")
  /\ unchangedServer /\ UNCHANGED <<journal, guard, held, started, faults>>

\* Where a journal left by an earlier pass takes the process that holds the lock.
ResumeRunning(phase) == CASE phase = "none" -> "pending" [] phase = "running" -> "saving"
                          [] phase = "result_ready" -> "completing"
ResumeAll(phase) == IF phase = "none" THEN "pending" ELSE "saving"
ResumeNone(phase) == IF phase = "none" THEN "pending" ELSE "down"
Resume(phase) == CASE phase = "none" -> "pending" [] phase = "running" -> "down"
                   [] phase = "result_ready" -> "completing"

\* worker.lock is taken, or once raises; then the journal decides.
Once(w) ==
  LET d == DirOf[w]  j == journal[d] IN
  /\ pc[w] = "listening"
  /\ \/ /\ guard[d] # NoWorker \/ Resume(j.phase) = "down"
        /\ Raise(w)
     \/ /\ guard[d] = NoWorker /\ Resume(j.phase) # "down"
        /\ guard' = [guard EXCEPT ![d] = w]
        /\ Goto(w, Resume(j.phase))
        /\ held' = [held EXCEPT ![w] = [n |-> j.n, v |-> j.v]]
        /\ UNCHANGED <<journal, started>>
  /\ unchangedServer /\ UNCHANGED faults

Pending(w) ==
  /\ pc[w] = "pending"
  /\ run' = Polled
  /\ IF Queued(Polled) = {}
     THEN Return(w)
     ELSE Goto(w, "claiming") /\ UNCHANGED <<journal, guard, held, started>>
  /\ UNCHANGED <<result, faults>>

\* claim_agent_run leases the attempt; None means another worker has it.
ClaimRun(w) ==
  /\ pc[w] = "claiming"
  /\ IF Queued(run) = {}
     THEN Return(w) /\ UNCHANGED run
     ELSE \E n \in Queued(run) :
            /\ run' = [run EXCEPT ![n] = [status |-> "leased", late |-> FALSE]]
            /\ held' = [held EXCEPT ![w].n = n]
            /\ Goto(w, "saving")
            /\ UNCHANGED <<journal, guard, started>>
  /\ UNCHANGED <<result, faults>>

\* _save: written aside, synced and renamed, so a crash leaves one or the other.
Save(w, phase) ==
  journal' = [journal EXCEPT ![DirOf[w]] =
                [phase |-> phase, n |-> held[w].n, v |-> held[w].v]]

BeginExecution(w) ==
  /\ pc[w] = "saving"
  /\ Save(w, "running")
  /\ started' = [started EXCEPT ![held[w].n] = @ + 1]
  /\ Goto(w, "executing")
  /\ unchangedServer /\ UNCHANGED <<guard, held, faults>>

\* codex_execute reports to the server while the process runs.  A refused
\* heartbeat, a limit exceeded or an unverified result raises: the journal
\* stays in phase running.
Execute(w) ==
  /\ pc[w] = "executing"
  /\ \/ Raise(w)
     \/ \E v \in Outcomes :
          /\ held' = [held EXCEPT ![w].v = v]
          /\ Goto(w, "produced")
          /\ UNCHANGED <<journal, guard, started>>
  /\ unchangedServer /\ UNCHANGED faults

SaveResult(w) ==
  /\ pc[w] = "produced"
  /\ Save(w, "result_ready")
  /\ Goto(w, "completing")
  /\ unchangedServer /\ UNCHANGED <<guard, held, started, faults>>

\* complete_agent_run with the key host-result-<run>: a repeated report of a
\* recorded result is answered with its receipt.
Accepts(w) == result[held[w].n] = held[w].v \/ LeaseValid(held[w].n)
Recording(w) ==
  /\ result' = [result EXCEPT ![held[w].n] = held[w].v]
  /\ run' = [run EXCEPT ![held[w].n].status = IF @ = "leased" THEN "done" ELSE @]

Complete(w) ==
  /\ pc[w] = "completing"
  /\ IF Accepts(w)
     THEN /\ Recording(w) /\ Goto(w, "recorded")
          /\ UNCHANGED <<journal, guard, held, started>>
     ELSE Raise(w) /\ unchangedServer
  /\ UNCHANGED faults

Unlink(w) ==
  /\ pc[w] = "recorded"
  /\ journal' = [journal EXCEPT ![DirOf[w]] = NoJournal]
  /\ Goto(w, "listening") /\ Release(w)
  /\ held' = [held EXCEPT ![w] = Nothing]
  /\ unchangedServer /\ UNCHANGED <<started, faults>>

\* The process dies, or the response of a call it made is lost.
Fault == faults < MaxFaults /\ faults' = faults + 1

Crash(w) ==
  /\ pc[w] # "down" /\ Fault /\ Raise(w) /\ unchangedServer

LostAnswer(w) ==
  /\ Fault /\ Raise(w)
  /\ \/ /\ pc[w] = "claiming"
        /\ \E n \in Queued(run) :
             run' = [run EXCEPT ![n] = [status |-> "leased", late |-> FALSE]]
        /\ UNCHANGED result
     \/ pc[w] = "completing" /\ Accepts(w) /\ Recording(w)

\* The Human reviews an interrupted run and clears its journal.
Review(d) ==
  /\ journal[d].phase = "running" /\ guard[d] = NoWorker
  /\ journal' = [journal EXCEPT ![d] = NoJournal]
  /\ unchangedServer /\ UNCHANGED <<guard, pc, held, started, faults>>

-----------------------------------------------------------------------------
Pass(w) ==
  \/ Start(w) \/ Once(w) \/ Pending(w) \/ ClaimRun(w) \/ BeginExecution(w)
  \/ Execute(w) \/ SaveResult(w) \/ Complete(w) \/ Unlink(w)

WorkerNext ==
  \/ \E n \in Runs : LeaseRunsOut(n) \/ Interrupt(n)
  \/ Requeue
  \/ \E w \in Workers : Pass(w) \/ Crash(w) \/ LostAnswer(w)
  \/ \E d \in Dirs : Review(d)

WorkerSpec == WorkerInit /\ [][WorkerNext]_workerVars

\* The Human starts the worker again after it stopped, and a process runs on.
WorkerFairness == \A w \in Workers : WF_workerVars(Pass(w))

-----------------------------------------------------------------------------
(* Properties.                                                             *)

\* "receipt retries never rerun the model": the model is started at most once
\* for a run, whatever crashes, lost answers, expired leases and second worker
\* processes come in between.
ExecutedOnce == \A n \in Runs : started[n] <= 1

\* A result the journal holds leaves it only after the server recorded exactly
\* that result for that run.
ResultKept ==
  [][\A d \in Dirs : journal[d].phase = "result_ready" /\ journal'[d] # journal[d] =>
       result[journal[d].n] = journal[d].v]_workerVars

\* A result in the journal is reported while its lease lasts.
ResultReported ==
  \A d \in Dirs : journal[d].phase = "result_ready" ~>
    (journal[d].phase # "result_ready" \/ ~LeaseValid(journal[d].n))

\* No result is lost: it stays until it is recorded, and it is reported in time.
ResultDelivered == ResultKept /\ ResultReported

\* What a process and its directory may rely on.
WorkerInv ==
  /\ WorkerTypeOK
  /\ \A w \in Workers : pc[w] \notin {"down", "listening"} <=> guard[DirOf[w]] = w
  /\ \A d \in Dirs : guard[d] # NoWorker => DirOf[guard[d]] = d
  /\ \A w \in Workers : pc[w] \in {"pending", "claiming", "saving"} =>
       journal[DirOf[w]] = NoJournal
  /\ \A w \in Workers : pc[w] \in {"executing", "produced"} =>
       journal[DirOf[w]].phase = "running" /\ journal[DirOf[w]].n = held[w].n
  /\ \A w \in Workers : pc[w] \in {"completing", "recorded"} =>
       journal[DirOf[w]] = [phase |-> "result_ready", n |-> held[w].n, v |-> held[w].v]
  /\ \A w \in Workers : pc[w] = "recorded" => result[held[w].n] = held[w].v
  /\ \A w \in Workers : pc[w] \in {"saving", "executing", "produced", "completing", "recorded"} =>
       held[w].n \in Runs
  /\ \A w \in Workers : pc[w] = "saving" =>
       started[held[w].n] = 0 /\ run[held[w].n].status \notin {"absent", "queued"}
  /\ \A v, w \in Workers :
       pc[v] = "saving" /\ pc[w] = "saving" /\ held[v].n = held[w].n => v = w
  /\ \A w \in Workers : pc[w] \in {"produced", "completing", "recorded"} => held[w].v \in Outcomes
  /\ \A d \in Dirs : journal[d].phase = "result_ready" =>
       journal[d].n \in Runs /\ journal[d].v \in Outcomes
  /\ \A n \in Runs : run[n].status \in {"absent", "queued"} => started[n] = 0
  /\ ExecutedOnce
=============================================================================

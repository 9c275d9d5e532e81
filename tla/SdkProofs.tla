------------------------------ MODULE SdkProofs ------------------------------
(***************************************************************************)
(* Theorems of HostWorker, MailWorker and Upgrade.  A run's model is       *)
(* started at most once, and a result leaves the journal only after it was *)
(* recorded.  The cursor file never passes a message the handler has not   *)
(* finished.  current.json names a verified tree, a verified tree keeps    *)
(* its place and no server runs another one.                               *)
(*                                                                         *)
(* WorkerInv says what a process may rely on at each place.  It becomes    *)
(* inductive with two facts of the server: attempts follow one another, so *)
(* a poll never queues an attempt again that was claimed, and a recorded   *)
(* result closes its attempt, so no other result replaces it.  MailInv     *)
(* becomes inductive once it says that a message which is archived now     *)
(* counts as one that was.  OnlyVerifiedRun needs UpgradeInv: who holds    *)
(* the install lock at which place, and that a directory which may still   *)
(* be moved away is never a verified one.                                  *)
(***************************************************************************)
EXTENDS HostWorker, MailWorker, Upgrade, WellFoundedInduction, TLAPS

-----------------------------------------------------------------------------
(* The host worker (TaskRunWorker).                                        *)


AttemptsFollow ==
  \A m, n \in Runs : m < n /\ run[n].status # "absent" =>
    run[m].status \in {"interrupted", "done"}

ResultsClose ==
  \A n \in Runs : result[n] # NoOutcome => run[n].status \in {"interrupted", "done"}

Executing == {"saving", "executing", "produced", "completing", "recorded"}

\* A directory's lock is held by the process of that directory that works.
GuardHeld ==
  /\ \A w \in Workers : pc[w] \notin {"down", "listening"} <=> guard[DirOf[w]] = w
  /\ \A d \in Dirs : guard[d] # NoWorker => DirOf[guard[d]] = d

\* What the journal says is where the process is.
JournalFollows ==
  /\ \A w \in Workers : pc[w] \in {"pending", "claiming", "saving"} =>
       journal[DirOf[w]] = NoJournal
  /\ \A w \in Workers : pc[w] \in {"executing", "produced"} =>
       journal[DirOf[w]].phase = "running" /\ journal[DirOf[w]].n = held[w].n
  /\ \A w \in Workers : pc[w] \in {"completing", "recorded"} =>
       journal[DirOf[w]] = [phase |-> "result_ready", n |-> held[w].n, v |-> held[w].v]
  /\ \A d \in Dirs : journal[d].phase = "result_ready" =>
       journal[d].n \in Runs /\ journal[d].v \in Outcomes
  /\ \A d \in Dirs : journal[d].phase = "none" => journal[d] = NoJournal

HeldNamed ==
  /\ \A w \in Workers : pc[w] \in Executing => held[w].n \in Runs
  /\ \A w \in Workers : pc[w] \in {"produced", "completing", "recorded"} => held[w].v \in Outcomes

RecordedHolds ==
  \A w \in Workers : pc[w] = "recorded" => result[held[w].n] = held[w].v

\* A claimed run that no process has started yet belongs to one of them.
FirstStart ==
  /\ \A w \in Workers : pc[w] = "saving" =>
       started[held[w].n] = 0 /\ run[held[w].n].status \notin {"absent", "queued"}
  /\ \A v, w \in Workers :
       pc[v] = "saving" /\ pc[w] = "saving" /\ held[v].n = held[w].n => v = w
  /\ \A n \in Runs : run[n].status \in {"absent", "queued"} => started[n] = 0
  /\ ExecutedOnce

HostInv ==
  /\ WorkerTypeOK /\ GuardHeld /\ JournalFollows /\ HeldNamed /\ RecordedHolds
  /\ FirstStart /\ AttemptsFollow /\ ResultsClose

LEMMA InvImplies == HostInv => WorkerInv
BY DEF HostInv, WorkerInv, GuardHeld, JournalFollows, HeldNamed, RecordedHolds, FirstStart,
       Executing

-----------------------------------------------------------------------------
(* What the server may do to the attempts, seen from a host.               *)

ServerMoves ==
  /\ run' \in [Runs -> [status : RunStatuses, late : BOOLEAN]]
  /\ result' \in [Runs -> Outcomes \cup {NoOutcome}]
  /\ \A n \in Runs : run'[n].status \in {"absent", "queued"} =>
       run[n].status \in {"absent", "queued"}
  /\ \A n \in Runs : result[n] # NoOutcome => result'[n] = result[n]
  /\ AttemptsFollow' /\ ResultsClose'

LEMMA ServerRests ==
  ASSUME HostInv, unchangedServer
  PROVE  ServerMoves
BY DEF HostInv, WorkerTypeOK, ServerMoves, AttemptsFollow, ResultsClose, unchangedServer

\* An attempt that is queued or leased changes its state and stays before the next.
LEMMA AttemptMoves ==
  ASSUME HostInv, NEW n \in Runs, run[n].status \in {"queued", "leased"},
         NEW s \in {"leased", "interrupted", "done"}, NEW late \in BOOLEAN,
         run' = [run EXCEPT ![n] = [status |-> s, late |-> late]],
         UNCHANGED result
  PROVE  ServerMoves
<1>1. /\ run'[n].status = s
      /\ \A m \in Runs : m # n => run'[m] = run[m]
  BY DEF HostInv, WorkerTypeOK
<1>2. run' \in [Runs -> [status : RunStatuses, late : BOOLEAN]]
  BY DEF HostInv, WorkerTypeOK, RunStatuses
<1>3. AttemptsFollow'
  BY <1>1 DEF HostInv, AttemptsFollow, Runs
<1>4. result[n] = NoOutcome
  BY DEF HostInv, ResultsClose
<1>5. ResultsClose'
  BY <1>1, <1>4 DEF HostInv, ResultsClose
<1> QED BY <1>1, <1>2, <1>3, <1>5 DEF HostInv, WorkerTypeOK, ServerMoves

\* A poll: an attempt that is queued by it was absent, since the one before it
\* was leased.
LEMMA PollMoves ==
  ASSUME HostInv, run' = Polled, UNCHANGED result
  PROVE  ServerMoves
<1> DEFINE lost == {n \in Runs : run[n].status = "leased" /\ run[n].late}
<1>1. \A n \in Runs :
        /\ n \in lost => run'[n] = [run[n] EXCEPT !.status = "interrupted"]
        /\ n \notin lost /\ n - 1 \in lost => run'[n] = [status |-> "queued", late |-> FALSE]
        /\ n \notin lost /\ n - 1 \notin lost => run'[n] = run[n]
  BY DEF Polled
<1>2. \A n \in Runs : n - 1 \in lost => run[n].status = "absent"
  BY WorkerAssumption DEF HostInv, AttemptsFollow, Runs, WorkerAssumption
<1>3. run' \in [Runs -> [status : RunStatuses, late : BOOLEAN]]
  <2>1. \A n \in Runs : run'[n] \in [status : RunStatuses, late : BOOLEAN]
    <3> SUFFICES ASSUME NEW n \in Runs
                 PROVE  run'[n] \in [status : RunStatuses, late : BOOLEAN]
      OBVIOUS
    <3>1. run[n] \in [status : RunStatuses, late : BOOLEAN]
      BY DEF HostInv, WorkerTypeOK
    <3>2. /\ [run[n] EXCEPT !.status = "interrupted"] \in [status : RunStatuses, late : BOOLEAN]
          /\ [status |-> "queued", late |-> FALSE] \in [status : RunStatuses, late : BOOLEAN]
      BY <3>1 DEF RunStatuses
    <3> HIDE DEF lost
    <3> QED BY <1>1, <3>1, <3>2
  <2> QED BY <2>1 DEF Polled
<1>4. \A n \in Runs : n \in lost => run'[n].status = "interrupted"
  BY ZenonT(60), <1>1 DEF HostInv, WorkerTypeOK
<1>5. \A n \in Runs : run'[n].status \in {"absent", "queued"} =>
        run[n].status \in {"absent", "queued"}
  BY <1>1, <1>2, <1>4
<1>6. AttemptsFollow'
  <2> SUFFICES ASSUME NEW m \in Runs, NEW n \in Runs, m < n, run'[n].status # "absent"
               PROVE  run'[m].status \in {"interrupted", "done"}
    BY DEF AttemptsFollow
  <2>1. CASE m \in lost
    BY <1>4, <2>1
  <2>2. CASE m \notin lost /\ run[n].status # "absent"
    <3>1. run[m].status \in {"interrupted", "done"}
      BY <2>2 DEF HostInv, AttemptsFollow
    <3>2. m - 1 \notin lost
      BY <1>2, <3>1
    <3> QED BY <1>1, <2>2, <3>1, <3>2
  <2>3. CASE m \notin lost /\ run[n].status = "absent"
    <3>1. n - 1 \in lost
      BY <1>1, <1>4, <2>3
    <3>2. m < n - 1 /\ n - 1 \in Runs
      BY <2>3, <3>1 DEF Runs
    <3>3. run[m].status \in {"interrupted", "done"}
      BY <3>1, <3>2 DEF HostInv, AttemptsFollow
    <3>4. m - 1 \notin lost
      BY <1>2, <3>3
    <3> QED BY <1>1, <2>3, <3>3, <3>4
  <2> QED BY <2>1, <2>2, <2>3
<1>7. ResultsClose'
  <2> SUFFICES ASSUME NEW n \in Runs, result[n] # NoOutcome
               PROVE  run'[n].status \in {"interrupted", "done"}
    BY DEF ResultsClose
  <2>1. run[n].status \in {"interrupted", "done"}
    BY DEF HostInv, ResultsClose
  <2>2. n \notin lost /\ n - 1 \notin lost
    BY <1>2, <2>1
  <2> QED BY <1>1, <2>1, <2>2
<1> QED BY <1>3, <1>5, <1>6, <1>7 DEF HostInv, WorkerTypeOK, ServerMoves

\* A reported result is recorded, and its attempt is closed.
LEMMA RecordingMoves ==
  ASSUME HostInv, NEW w \in Workers, pc[w] = "completing", Accepts(w), Recording(w)
  PROVE  ServerMoves /\ result'[held[w].n] = held[w].v
<1> DEFINE n == held[w].n  v == held[w].v
<1>1. n \in Runs /\ v \in Outcomes
  BY DEF HostInv, HeldNamed, Executing
<1>2. v # NoOutcome
  BY <1>1, WorkerAssumption DEF WorkerAssumption
<1>3. result[n] = v \/ run[n].status = "leased"
  BY DEF Accepts, LeaseValid
<1>4. result' = [result EXCEPT ![n] = v]
  BY DEF Recording
<1>5. run' = [run EXCEPT ![n].status = IF run[n].status = "leased" THEN "done" ELSE run[n].status]
  BY DEF Recording
<1> HIDE DEF n, v
<1>6. /\ run'[n].status = IF run[n].status = "leased" THEN "done" ELSE run[n].status
      /\ \A m \in Runs : m # n => run'[m] = run[m]
  BY <1>1, <1>5 DEF HostInv, WorkerTypeOK
<1>7. run'[n].status \in {"interrupted", "done"}
  BY <1>1, <1>2, <1>3, <1>6 DEF HostInv, ResultsClose
<1>8. run' \in [Runs -> [status : RunStatuses, late : BOOLEAN]]
  BY <1>1, <1>5 DEF HostInv, WorkerTypeOK, RunStatuses
<1>9. /\ result' \in [Runs -> Outcomes \cup {NoOutcome}]
      /\ result'[n] = v
      /\ \A m \in Runs : m # n => result'[m] = result[m]
  BY <1>1, <1>4 DEF HostInv, WorkerTypeOK
<1>10. result[n] # NoOutcome => result[n] = v
  BY <1>1, <1>3 DEF HostInv, ResultsClose
<1>11. AttemptsFollow'
  <2>1. run[n].status # "absent"
    BY <1>1, <1>2, <1>3 DEF HostInv, ResultsClose
  <2> QED BY <1>1, <1>6, <1>7, <2>1 DEF HostInv, AttemptsFollow
<1>12. ResultsClose'
  BY <1>1, <1>6, <1>7, <1>9 DEF HostInv, ResultsClose
<1>13. \A m \in Runs : run'[m].status \in {"absent", "queued"} =>
         run[m].status \in {"absent", "queued"}
  BY <1>6, <1>7
<1> QED BY <1>8, <1>9, <1>10, <1>11, <1>12, <1>13 DEF ServerMoves, n, v

-----------------------------------------------------------------------------
(* Steps of a host.                                                        *)

\* The server moves and no process does.
LEMMA HostRests ==
  ASSUME HostInv, ServerMoves, UNCHANGED <<journal, guard, pc, held, started, faults>>
  PROVE  HostInv'
<1>1. WorkerTypeOK'
  BY DEF HostInv, WorkerTypeOK, ServerMoves
<1>2. GuardHeld' /\ JournalFollows' /\ HeldNamed'
  BY DEF HostInv, GuardHeld, JournalFollows, HeldNamed
<1>3. RecordedHolds'
  <2> SUFFICES ASSUME NEW w \in Workers, pc[w] = "recorded"
               PROVE  result'[held[w].n] = held[w].v
    BY DEF RecordedHolds
  <2>1. held[w].n \in Runs /\ held[w].v \in Outcomes /\ result[held[w].n] = held[w].v
    BY DEF HostInv, HeldNamed, RecordedHolds, Executing
  <2> QED BY <2>1, WorkerAssumption DEF ServerMoves, WorkerAssumption
<1>4. FirstStart'
  <2>1. \A w \in Workers : pc[w] = "saving" => held[w].n \in Runs
    BY DEF HostInv, HeldNamed, Executing
  <2> QED BY <2>1 DEF HostInv, FirstStart, ExecutedOnce, ServerMoves
<1> QED BY <1>1, <1>2, <1>3, <1>4 DEF HostInv, ServerMoves

\* A process lets go of its lock and of what it held; the journal stays.
LEMMA WorkerLeaves ==
  ASSUME HostInv, ServerMoves, NEW w \in Workers, NEW to \in {"down", "listening"},
         Goto(w, to), Release(w), held' = [held EXCEPT ![w] = Nothing],
         UNCHANGED <<journal, started>>, faults' \in 0..MaxFaults
  PROVE  HostInv'
<1>1. /\ pc' \in [Workers -> Places]
      /\ pc'[w] \in {"down", "listening"}
      /\ \A z \in Workers : z # w => pc'[z] = pc[z]
  BY DEF HostInv, WorkerTypeOK, Goto, Places
<1>2. /\ guard' \in [Dirs -> Workers \cup {NoWorker}]
      /\ \A d \in Dirs : guard'[d] = IF guard[d] = w THEN NoWorker ELSE guard[d]
  BY DEF HostInv, WorkerTypeOK, Release
<1>3. /\ held' \in [Workers -> [n : Attempts0, v : Outcomes \cup {NoOutcome}]]
      /\ \A z \in Workers : z # w => held'[z] = held[z]
  <2>1. Nothing \in [n : Attempts0, v : Outcomes \cup {NoOutcome}]
    BY WorkerAssumption DEF Nothing, Attempts0, WorkerAssumption
  <2> QED BY <2>1 DEF HostInv, WorkerTypeOK
<1>4. WorkerTypeOK'
  BY <1>1, <1>2, <1>3 DEF HostInv, WorkerTypeOK, ServerMoves
<1>5. GuardHeld'
  BY <1>1, <1>2, WorkerAssumption DEF HostInv, GuardHeld, WorkerAssumption
<1>6. JournalFollows' /\ HeldNamed'
  BY <1>1, <1>3 DEF HostInv, JournalFollows, HeldNamed, Executing
<1>7. RecordedHolds'
  <2> SUFFICES ASSUME NEW z \in Workers, pc'[z] = "recorded"
               PROVE  result'[held'[z].n] = held'[z].v
    BY DEF RecordedHolds
  <2>1. z # w /\ pc[z] = "recorded" /\ held'[z] = held[z]
    BY <1>1, <1>3
  <2>2. held[z].n \in Runs /\ held[z].v \in Outcomes /\ result[held[z].n] = held[z].v
    BY <2>1 DEF HostInv, HeldNamed, RecordedHolds, Executing
  <2> QED BY <2>1, <2>2, WorkerAssumption DEF ServerMoves, WorkerAssumption
<1>8. FirstStart'
  <2>1. \A z \in Workers : pc'[z] = "saving" =>
          z # w /\ pc[z] = "saving" /\ held'[z] = held[z] /\ held[z].n \in Runs
    BY <1>1, <1>3 DEF HostInv, HeldNamed, Executing
  <2> QED BY <2>1 DEF HostInv, FirstStart, ExecutedOnce, ServerMoves
<1> QED BY <1>4, <1>5, <1>6, <1>7, <1>8 DEF HostInv, ServerMoves

\* A process that has its lock goes from one place to another where it needs it,
\* and changes only its directory's journal and what it holds itself.
LEMMA WorkerActs ==
  ASSUME HostInv, ServerMoves, NEW w \in Workers, NEW to \in Places \ {"down", "listening"},
         Goto(w, to), guard' = guard, guard[DirOf[w]] = w, faults' = faults,
         journal' \in [Dirs -> [phase : {"none", "running", "result_ready"},
                                n : Attempts0, v : Outcomes \cup {NoOutcome}]],
         held' \in [Workers -> [n : Attempts0, v : Outcomes \cup {NoOutcome}]],
         started' \in [Runs -> 0..2],
         \A d \in Dirs : d # DirOf[w] => journal'[d] = journal[d],
         \A z \in Workers : z # w => held'[z] = held[z],
         to \in {"pending", "claiming", "saving"} => journal'[DirOf[w]] = NoJournal,
         to \in {"executing", "produced"} =>
           journal'[DirOf[w]].phase = "running" /\ journal'[DirOf[w]].n = held'[w].n,
         to \in {"completing", "recorded"} =>
           journal'[DirOf[w]] = [phase |-> "result_ready", n |-> held'[w].n, v |-> held'[w].v],
         journal'[DirOf[w]].phase = "none" => journal'[DirOf[w]] = NoJournal,
         journal'[DirOf[w]].phase = "result_ready" =>
           journal'[DirOf[w]].n \in Runs /\ journal'[DirOf[w]].v \in Outcomes,
         to \in Executing => held'[w].n \in Runs,
         to \in {"produced", "completing", "recorded"} => held'[w].v \in Outcomes,
         to = "recorded" => result'[held'[w].n] = held'[w].v,
         FirstStart'
  PROVE  HostInv'
<1>1. /\ pc' \in [Workers -> Places]
      /\ pc'[w] = to
      /\ \A z \in Workers : z # w => pc'[z] = pc[z]
  BY DEF HostInv, WorkerTypeOK, Goto
<1>2. \A z \in Workers : z # w /\ pc[z] \notin {"down", "listening"} => DirOf[z] # DirOf[w]
  BY DEF HostInv, GuardHeld
<1>3. \A z \in Workers : DirOf[z] \in Dirs
  BY WorkerAssumption DEF WorkerAssumption
<1>4. WorkerTypeOK'
  BY <1>1 DEF HostInv, WorkerTypeOK, ServerMoves
<1>5. GuardHeld'
  BY <1>1, <1>2 DEF HostInv, GuardHeld
<1>6. JournalFollows'
  <2>1. ASSUME NEW z \in Workers, z # w, pc'[z] \notin {"down", "listening"}
        PROVE  /\ pc'[z] = pc[z] /\ held'[z] = held[z]
               /\ journal'[DirOf[z]] = journal[DirOf[z]]
    BY <1>1, <1>2, <1>3, <2>1
  <2>2. \A z \in Workers : pc'[z] \in {"pending", "claiming", "saving"} =>
          journal'[DirOf[z]] = NoJournal
    BY <1>1, <2>1 DEF HostInv, JournalFollows
  <2>3. \A z \in Workers : pc'[z] \in {"executing", "produced"} =>
          journal'[DirOf[z]].phase = "running" /\ journal'[DirOf[z]].n = held'[z].n
    BY <1>1, <2>1 DEF HostInv, JournalFollows
  <2>4. \A z \in Workers : pc'[z] \in {"completing", "recorded"} =>
          journal'[DirOf[z]] = [phase |-> "result_ready", n |-> held'[z].n, v |-> held'[z].v]
    <3> SUFFICES ASSUME NEW z \in Workers, pc'[z] \in {"completing", "recorded"}
                 PROVE  journal'[DirOf[z]] = [phase |-> "result_ready", n |-> held'[z].n, v |-> held'[z].v]
      OBVIOUS
    <3>1. CASE z = w
      BY <1>1, <3>1
    <3>2. CASE z # w
      <4>1. /\ pc'[z] = pc[z] /\ held'[z] = held[z]
            /\ journal'[DirOf[z]] = journal[DirOf[z]]
        BY <2>1, <3>2
      <4>2. journal[DirOf[z]] = [phase |-> "result_ready", n |-> held[z].n, v |-> held[z].v]
        BY <4>1 DEF HostInv, JournalFollows
      <4> QED BY <4>1, <4>2
    <3> QED BY <3>1, <3>2
  <2>5. \A d \in Dirs :
          /\ journal'[d].phase = "result_ready" => journal'[d].n \in Runs /\ journal'[d].v \in Outcomes
          /\ journal'[d].phase = "none" => journal'[d] = NoJournal
    BY DEF HostInv, JournalFollows
  <2> QED BY <2>2, <2>3, <2>4, <2>5 DEF JournalFollows
<1>7. HeldNamed'
  BY <1>1 DEF HostInv, HeldNamed, Executing
<1>8. RecordedHolds'
  <2> SUFFICES ASSUME NEW z \in Workers, pc'[z] = "recorded"
               PROVE  result'[held'[z].n] = held'[z].v
    BY DEF RecordedHolds
  <2>1. CASE z = w
    BY <1>1, <2>1
  <2>2. CASE z # w
    <3>1. pc[z] = "recorded" /\ held'[z] = held[z]
      BY <1>1, <2>2
    <3>2. held[z].n \in Runs /\ held[z].v \in Outcomes /\ result[held[z].n] = held[z].v
      BY <3>1 DEF HostInv, HeldNamed, RecordedHolds, Executing
    <3> QED BY <3>1, <3>2, WorkerAssumption DEF ServerMoves, WorkerAssumption
  <2> QED BY <2>1, <2>2
<1> QED BY <1>4, <1>5, <1>6, <1>7, <1>8 DEF HostInv, ServerMoves

\* Where no process goes to "saving" and none is started, first starts are kept.
LEMMA StartsKept ==
  ASSUME HostInv, ServerMoves, NEW w \in Workers, NEW to, to # "saving",
         Goto(w, to), started' = started,
         \A z \in Workers : z # w => held'[z] = held[z]
  PROVE  FirstStart'
<1>1. \A z \in Workers : pc'[z] = "saving" =>
        z # w /\ pc[z] = "saving" /\ held'[z] = held[z] /\ held[z].n \in Runs
  BY DEF HostInv, WorkerTypeOK, HeldNamed, Executing, Goto
<1> QED BY <1>1 DEF HostInv, FirstStart, ExecutedOnce, ServerMoves

LEMMA Places0 ==
  ASSUME HostInv, NEW w \in Workers, pc[w] \notin {"down", "listening"}
  PROVE  guard[DirOf[w]] = w /\ DirOf[w] \in Dirs
BY WorkerAssumption DEF HostInv, GuardHeld, WorkerAssumption

LEMMA RaiseKeeps ==
  ASSUME HostInv, ServerMoves, NEW w \in Workers, Raise(w), faults' \in 0..MaxFaults
  PROVE  HostInv'
BY WorkerLeaves DEF Raise

LEMMA ReturnKeeps ==
  ASSUME HostInv, ServerMoves, NEW w \in Workers, Return(w), faults' = faults
  PROVE  HostInv'
<1>1. faults' \in 0..MaxFaults
  BY DEF HostInv, WorkerTypeOK
<1> QED BY <1>1, WorkerLeaves DEF Return

-----------------------------------------------------------------------------
(* The actions.                                                            *)

LEMMA StartKeeps ==
  ASSUME HostInv, NEW w \in Workers, Start(w)
  PROVE  HostInv'
<1>1. /\ pc' \in [Workers -> Places]
      /\ pc'[w] = "listening" /\ pc[w] = "down"
      /\ \A z \in Workers : z # w => pc'[z] = pc[z]
  BY DEF HostInv, WorkerTypeOK, Start, Goto, Places
<1>2. WorkerTypeOK'
  BY <1>1 DEF HostInv, WorkerTypeOK, Start, unchangedServer
<1>3. GuardHeld' /\ JournalFollows' /\ HeldNamed'
  BY <1>1 DEF HostInv, GuardHeld, JournalFollows, HeldNamed, Executing, Start
<1>4. RecordedHolds' /\ FirstStart'
  BY <1>1 DEF HostInv, RecordedHolds, FirstStart, ExecutedOnce, Start, unchangedServer
<1>5. AttemptsFollow' /\ ResultsClose'
  BY DEF HostInv, AttemptsFollow, ResultsClose, Start, unchangedServer
<1> QED BY <1>2, <1>3, <1>4, <1>5 DEF HostInv

\* The lock is taken and the journal decides; one in phase running ends main.
LEMMA OnceKeeps ==
  ASSUME HostInv, NEW w \in Workers, Once(w)
  PROVE  HostInv'
<1> DEFINE d == DirOf[w]  j == journal[d]
<1>0. ServerMoves /\ faults' = faults /\ faults' \in 0..MaxFaults
  BY ServerRests DEF Once, HostInv, WorkerTypeOK
<1>1. CASE Raise(w)
  BY <1>0, <1>1, RaiseKeeps
<1>2. CASE /\ guard[d] = NoWorker /\ Resume(j.phase) # "down"
           /\ guard' = [guard EXCEPT ![d] = w]
           /\ Goto(w, Resume(j.phase))
           /\ held' = [held EXCEPT ![w] = [n |-> j.n, v |-> j.v]]
           /\ UNCHANGED <<journal, started>>
  <2>1. d \in Dirs /\ DirOf \in [Workers -> Dirs]
    BY WorkerAssumption DEF WorkerAssumption
  <2>2. j \in [phase : {"none", "running", "result_ready"}, n : Attempts0, v : Outcomes \cup {NoOutcome}]
    BY <2>1 DEF HostInv, WorkerTypeOK
  <2>3. \/ j.phase = "none" /\ Resume(j.phase) = "pending"
        \/ j.phase = "result_ready" /\ Resume(j.phase) = "completing"
    BY <1>2, <2>2 DEF Resume
  <2>4. /\ pc' \in [Workers -> Places]
        /\ \/ pc'[w] = "pending" /\ j.phase = "none"
           \/ pc'[w] = "completing" /\ j.phase = "result_ready"
        /\ \A z \in Workers : z # w => pc'[z] = pc[z]
    BY <1>2, <2>3 DEF HostInv, WorkerTypeOK, Goto, Places
  <2>5. /\ guard' \in [Dirs -> Workers \cup {NoWorker}]
        /\ guard'[d] = w
        /\ \A e \in Dirs : e # d => guard'[e] = guard[e]
    BY <1>2, <2>1 DEF HostInv, WorkerTypeOK
  <2>6. /\ held' \in [Workers -> [n : Attempts0, v : Outcomes \cup {NoOutcome}]]
        /\ held'[w] = [n |-> j.n, v |-> j.v]
        /\ \A z \in Workers : z # w => held'[z] = held[z]
    BY <1>2, <2>2 DEF HostInv, WorkerTypeOK
  <2>7. \A z \in Workers : DirOf[z] = d => pc[z] \in {"down", "listening"}
    BY <1>2, WorkerAssumption DEF HostInv, GuardHeld, WorkerAssumption
  <2>8. WorkerTypeOK'
    BY <1>0, <1>2, <2>4, <2>5, <2>6 DEF HostInv, WorkerTypeOK, ServerMoves
  <2>9. GuardHeld'
    <3>1. \A z \in Workers : pc'[z] \notin {"down", "listening"} <=> guard'[DirOf[z]] = z
      BY <2>1, <2>4, <2>5, <2>7 DEF HostInv, GuardHeld
    <3>2. \A e \in Dirs : guard'[e] # NoWorker => DirOf[guard'[e]] = e
      BY <2>5 DEF HostInv, GuardHeld
    <3> QED BY <3>1, <3>2 DEF GuardHeld
  <2>10. j.phase = "result_ready" => j = [phase |-> "result_ready", n |-> held'[w].n, v |-> held'[w].v]
    BY <2>2, <2>6
  <2>11. j.phase = "none" => j = NoJournal
    BY <2>1 DEF HostInv, JournalFollows
  <2>12. j.phase = "result_ready" => held'[w].n \in Runs /\ held'[w].v \in Outcomes
    BY <2>1, <2>6 DEF HostInv, JournalFollows
  <2>13. UNCHANGED <<journal, started, run, result>>
    BY <1>2 DEF Once, unchangedServer
  <2> HIDE DEF j, d
  <2>14. journal[DirOf[w]] = j
    BY DEF j, d
  <2>15. JournalFollows'
    BY SMTT(60), <2>4, <2>6, <2>10, <2>11, <2>13, <2>14 DEF HostInv, JournalFollows
  <2>16. HeldNamed'
    BY <2>4, <2>6, <2>12 DEF HostInv, HeldNamed, Executing
  <2>17. RecordedHolds' /\ FirstStart'
    BY <2>4, <2>6, <2>13 DEF HostInv, RecordedHolds, FirstStart, ExecutedOnce
  <2> QED BY <1>0, <2>8, <2>9, <2>15, <2>16, <2>17 DEF HostInv, ServerMoves
<1> QED BY <1>1, <1>2 DEF Once

LEMMA PendingKeeps ==
  ASSUME HostInv, NEW w \in Workers, Pending(w)
  PROVE  HostInv'
<1>1. ServerMoves /\ faults' = faults
  BY PollMoves DEF Pending
<1>2. CASE Return(w)
  BY <1>1, <1>2, ReturnKeeps
<1>3. CASE Goto(w, "claiming") /\ UNCHANGED <<journal, guard, held, started>>
  <2>1. guard[DirOf[w]] = w /\ DirOf[w] \in Dirs
    BY Places0 DEF Pending
  <2>2. FirstStart'
    BY <1>1, <1>3, StartsKept
  <2>3. journal[DirOf[w]] = NoJournal /\ NoJournal.phase = "none"
    BY DEF HostInv, JournalFollows, Pending, NoJournal
  <2>4. "claiming" \in Places \ {"down", "listening"} /\ "claiming" \notin Executing
    BY DEF Places, Executing
  <2>5. WorkerTypeOK
    BY DEF HostInv
  <2>6. /\ journal' \in [Dirs -> [phase : {"none", "running", "result_ready"},
                                 n : Attempts0, v : Outcomes \cup {NoOutcome}]]
        /\ held' \in [Workers -> [n : Attempts0, v : Outcomes \cup {NoOutcome}]]
        /\ started' \in [Runs -> 0..2]
        /\ \A d \in Dirs : d # DirOf[w] => journal'[d] = journal[d]
        /\ \A z \in Workers : z # w => held'[z] = held[z]
        /\ journal'[DirOf[w]] = NoJournal /\ journal'[DirOf[w]].phase = "none"
    BY <1>3, <2>3, <2>5 DEF WorkerTypeOK
  <2>7. Goto(w, "claiming") /\ guard' = guard
    BY <1>3
  <2> QED BY <1>1, <2>1, <2>2, <2>4, <2>6, <2>7, WorkerActs
<1> QED BY <1>2, <1>3 DEF Pending

\* Of all processes at "claiming" one leases the attempt: it is its first start.
LEMMA ClaimRunKeeps ==
  ASSUME HostInv, NEW w \in Workers, ClaimRun(w)
  PROVE  HostInv'
<1>1. CASE Return(w) /\ UNCHANGED run
  BY <1>1, ServerRests, ReturnKeeps DEF ClaimRun, unchangedServer
<1>2. CASE \E n \in Queued(run) :
             /\ run' = [run EXCEPT ![n] = [status |-> "leased", late |-> FALSE]]
             /\ held' = [held EXCEPT ![w].n = n]
             /\ Goto(w, "saving")
             /\ UNCHANGED <<journal, guard, started>>
  <2>1. PICK n \in Queued(run) :
          /\ run' = [run EXCEPT ![n] = [status |-> "leased", late |-> FALSE]]
          /\ held' = [held EXCEPT ![w].n = n]
          /\ Goto(w, "saving")
          /\ UNCHANGED <<journal, guard, started>>
    BY <1>2
  <2>2. n \in Runs /\ run[n].status = "queued" /\ n \in Attempts0
    BY WorkerAssumption DEF Queued, Runs, Attempts0, WorkerAssumption
  <2>3. UNCHANGED result /\ faults' = faults
    BY DEF ClaimRun
  <2>4. ServerMoves
    BY <2>1, <2>2, <2>3, AttemptMoves
  <2>5. guard[DirOf[w]] = w /\ DirOf[w] \in Dirs
    BY Places0 DEF ClaimRun
  <2>6. /\ held' \in [Workers -> [n : Attempts0, v : Outcomes \cup {NoOutcome}]]
        /\ held'[w].n = n
        /\ \A z \in Workers : z # w => held'[z] = held[z]
    BY <2>1, <2>2 DEF HostInv, WorkerTypeOK
  <2>7. /\ pc'[w] = "saving"
        /\ \A z \in Workers : z # w => pc'[z] = pc[z]
    BY <2>1 DEF HostInv, WorkerTypeOK, Goto
  <2>8. /\ run'[n].status = "leased"
        /\ \A m \in Runs : m # n => run'[m] = run[m]
    BY <2>1, <2>2 DEF HostInv, WorkerTypeOK
  <2>9. FirstStart'
    <3>1. \A z \in Workers : z # w /\ pc'[z] = "saving" =>
            /\ pc[z] = "saving" /\ held'[z].n = held[z].n
            /\ held[z].n \in Runs /\ held[z].n # n
      BY <2>2, <2>6, <2>7 DEF HostInv, HeldNamed, FirstStart, Executing
    <3>2. started[n] = 0 /\ started' = started
      BY <2>1, <2>2 DEF HostInv, FirstStart
    <3>3. \A z \in Workers : pc'[z] = "saving" =>
            started'[held'[z].n] = 0 /\ run'[held'[z].n].status \notin {"absent", "queued"}
      BY <2>6, <2>8, <3>1, <3>2 DEF HostInv, FirstStart
    <3>4. \A v, z \in Workers :
            pc'[v] = "saving" /\ pc'[z] = "saving" /\ held'[v].n = held'[z].n => v = z
      BY <2>6, <3>1 DEF HostInv, FirstStart
    <3>5. /\ \A m \in Runs : run'[m].status \in {"absent", "queued"} => started'[m] = 0
          /\ ExecutedOnce'
      BY <2>8, <3>2 DEF HostInv, FirstStart, ExecutedOnce
    <3> QED BY <3>3, <3>4, <3>5 DEF FirstStart
  <2>10. journal[DirOf[w]] = NoJournal /\ NoJournal.phase = "none"
    BY DEF HostInv, JournalFollows, ClaimRun, NoJournal
  <2>11. "saving" \in Places \ {"down", "listening"}
    BY DEF Places
  <2>12. WorkerTypeOK
    BY DEF HostInv
  <2>13. /\ journal' \in [Dirs -> [phase : {"none", "running", "result_ready"},
                                  n : Attempts0, v : Outcomes \cup {NoOutcome}]]
         /\ started' \in [Runs -> 0..2]
         /\ \A d \in Dirs : d # DirOf[w] => journal'[d] = journal[d]
         /\ journal'[DirOf[w]] = NoJournal /\ journal'[DirOf[w]].phase = "none"
         /\ held'[w].n \in Runs
    BY <2>1, <2>2, <2>6, <2>10, <2>12 DEF WorkerTypeOK
  <2>14. Goto(w, "saving") /\ guard' = guard
    BY <2>1
  <2> QED BY <2>3, <2>4, <2>5, <2>6, <2>9, <2>11, <2>13, <2>14, WorkerActs
<1> QED BY <1>1, <1>2 DEF ClaimRun

\* What _save writes: one journal, of the run the process holds.
LEMMA SaveWrites ==
  ASSUME HostInv, NEW w \in Workers, NEW phase \in {"running", "result_ready"}, Save(w, phase)
  PROVE  /\ journal' \in [Dirs -> [phase : {"none", "running", "result_ready"},
                                   n : Attempts0, v : Outcomes \cup {NoOutcome}]]
         /\ journal'[DirOf[w]] = [phase |-> phase, n |-> held[w].n, v |-> held[w].v]
         /\ \A d \in Dirs : d # DirOf[w] => journal'[d] = journal[d]
<1>1. DirOf[w] \in Dirs
  BY WorkerAssumption DEF WorkerAssumption
<1>2. held[w].n \in Attempts0 /\ held[w].v \in Outcomes \cup {NoOutcome}
  BY DEF HostInv, WorkerTypeOK
<1> QED BY <1>1, <1>2 DEF HostInv, WorkerTypeOK, Save

LEMMA BeginExecutionKeeps ==
  ASSUME HostInv, NEW w \in Workers, BeginExecution(w)
  PROVE  HostInv'
<1> DEFINE n == held[w].n
<1>1. ServerMoves /\ faults' = faults /\ guard' = guard /\ held' = held
  BY ServerRests DEF BeginExecution
<1>2. guard[DirOf[w]] = w /\ DirOf[w] \in Dirs
  BY Places0 DEF BeginExecution
<1>3. n \in Runs /\ started[n] = 0 /\ run[n].status \notin {"absent", "queued"}
  BY DEF HostInv, HeldNamed, FirstStart, Executing, BeginExecution
<1>4. /\ started' \in [Runs -> 0..2]
      /\ started'[n] = 1
      /\ \A m \in Runs : m # n => started'[m] = started[m]
  <2>1. started' = [started EXCEPT ![n] = started[n] + 1]
    BY DEF BeginExecution
  <2> HIDE DEF n
  <2> QED BY <1>3, <2>1 DEF HostInv, WorkerTypeOK
<1>5. /\ journal' \in [Dirs -> [phase : {"none", "running", "result_ready"},
                                n : Attempts0, v : Outcomes \cup {NoOutcome}]]
      /\ journal'[DirOf[w]] = [phase |-> "running", n |-> held[w].n, v |-> held[w].v]
      /\ \A d \in Dirs : d # DirOf[w] => journal'[d] = journal[d]
  BY SaveWrites DEF BeginExecution
<1>6. /\ pc'[w] = "executing"
      /\ \A z \in Workers : z # w => pc'[z] = pc[z]
  BY DEF HostInv, WorkerTypeOK, Goto, BeginExecution
<1>7. FirstStart'
  <2>1. \A z \in Workers : pc'[z] = "saving" =>
          /\ z # w /\ pc[z] = "saving" /\ held[z].n \in Runs /\ held[z].n # n
    BY <1>6 DEF HostInv, HeldNamed, FirstStart, Executing, BeginExecution
  <2>2. run' = run
    BY DEF BeginExecution, unchangedServer
  <2>3. ExecutedOnce'
    BY <1>4 DEF HostInv, FirstStart, ExecutedOnce
  <2>4. \A m \in Runs : run'[m].status \in {"absent", "queued"} => started'[m] = 0
    BY <1>3, <1>4, <2>2 DEF HostInv, FirstStart
  <2>5. \A z \in Workers : pc'[z] = "saving" =>
          started'[held'[z].n] = 0 /\ run'[held'[z].n].status \notin {"absent", "queued"}
    BY <1>1, <1>4, <2>1, <2>2 DEF HostInv, FirstStart
  <2>6. \A v, z \in Workers :
          pc'[v] = "saving" /\ pc'[z] = "saving" /\ held'[v].n = held'[z].n => v = z
    BY <1>1, <2>1 DEF HostInv, FirstStart
  <2> QED BY <2>3, <2>4, <2>5, <2>6 DEF FirstStart
<1>8. "executing" \in Places \ {"down", "listening"} /\ Goto(w, "executing")
  BY DEF Places, BeginExecution
<1>9. WorkerTypeOK
  BY DEF HostInv
<1> HIDE DEF n
<1>10. held[w].n \in Runs
  BY <1>3 DEF n
<1>11. /\ journal'[DirOf[w]].phase = "running" /\ journal'[DirOf[w]].n = held'[w].n
       /\ held'[w].n \in Runs
       /\ held' \in [Workers -> [n : Attempts0, v : Outcomes \cup {NoOutcome}]]
  BY <1>1, <1>5, <1>9, <1>10 DEF WorkerTypeOK
<1>12. \A z \in Workers : z # w => held'[z] = held[z]
  BY <1>1
<1> QED BY <1>1, <1>2, <1>4, <1>5, <1>7, <1>8, <1>11, <1>12, WorkerActs

LEMMA ExecuteKeeps ==
  ASSUME HostInv, NEW w \in Workers, Execute(w)
  PROVE  HostInv'
<1>0. ServerMoves /\ faults' = faults /\ faults' \in 0..MaxFaults
  BY ServerRests DEF Execute, HostInv, WorkerTypeOK
<1>1. CASE Raise(w)
  BY <1>0, <1>1, RaiseKeeps
<1>2. CASE \E v \in Outcomes :
             /\ held' = [held EXCEPT ![w].v = v]
             /\ Goto(w, "produced")
             /\ UNCHANGED <<journal, guard, started>>
  <2>1. PICK v \in Outcomes :
          /\ held' = [held EXCEPT ![w].v = v]
          /\ Goto(w, "produced")
          /\ UNCHANGED <<journal, guard, started>>
    BY <1>2
  <2>2. guard[DirOf[w]] = w /\ DirOf[w] \in Dirs
    BY Places0 DEF Execute
  <2>3. /\ held' \in [Workers -> [n : Attempts0, v : Outcomes \cup {NoOutcome}]]
        /\ held'[w].n = held[w].n /\ held'[w].v = v
        /\ \A z \in Workers : z # w => held'[z] = held[z]
    BY <2>1 DEF HostInv, WorkerTypeOK
  <2>4. FirstStart'
    BY <1>0, <2>1, <2>3, StartsKept
  <2>5. held[w].n \in Runs
    BY DEF HostInv, HeldNamed, Executing, Execute
  <2>6. journal[DirOf[w]].phase = "running" /\ journal[DirOf[w]].n = held[w].n
    BY DEF HostInv, JournalFollows, Execute
  <2>7. "produced" \in Places \ {"down", "listening"}
    BY DEF Places
  <2>8. WorkerTypeOK
    BY DEF HostInv
  <2>9. /\ journal' \in [Dirs -> [phase : {"none", "running", "result_ready"},
                                 n : Attempts0, v : Outcomes \cup {NoOutcome}]]
        /\ started' \in [Runs -> 0..2]
        /\ \A d \in Dirs : d # DirOf[w] => journal'[d] = journal[d]
        /\ journal'[DirOf[w]].phase = "running" /\ journal'[DirOf[w]].n = held'[w].n
        /\ held'[w].n \in Runs /\ held'[w].v \in Outcomes
    BY <2>1, <2>3, <2>5, <2>6, <2>8 DEF WorkerTypeOK
  <2>10. Goto(w, "produced") /\ guard' = guard
    BY <2>1
  <2> QED BY <1>0, <2>2, <2>3, <2>4, <2>7, <2>9, <2>10, WorkerActs
<1> QED BY <1>1, <1>2 DEF Execute

LEMMA SaveResultKeeps ==
  ASSUME HostInv, NEW w \in Workers, SaveResult(w)
  PROVE  HostInv'
<1>1. /\ ServerMoves /\ faults' = faults /\ guard' = guard /\ held' = held
      /\ started' = started
  BY ServerRests DEF SaveResult
<1>2. guard[DirOf[w]] = w /\ DirOf[w] \in Dirs
  BY Places0 DEF SaveResult
<1>3. held[w].n \in Runs /\ held[w].v \in Outcomes
  BY DEF HostInv, HeldNamed, Executing, SaveResult
<1>4. /\ journal' \in [Dirs -> [phase : {"none", "running", "result_ready"},
                                n : Attempts0, v : Outcomes \cup {NoOutcome}]]
      /\ journal'[DirOf[w]] = [phase |-> "result_ready", n |-> held[w].n, v |-> held[w].v]
      /\ \A d \in Dirs : d # DirOf[w] => journal'[d] = journal[d]
  BY SaveWrites DEF SaveResult
<1>5. "completing" \in Places \ {"down", "listening"} /\ Goto(w, "completing")
  BY DEF Places, SaveResult
<1>6. FirstStart'
  BY <1>1, <1>5, StartsKept
<1>7. WorkerTypeOK
  BY DEF HostInv
<1>8. /\ journal'[DirOf[w]].phase = "result_ready"
      /\ journal'[DirOf[w]].n \in Runs /\ journal'[DirOf[w]].v \in Outcomes
      /\ journal'[DirOf[w]] = [phase |-> "result_ready", n |-> held'[w].n, v |-> held'[w].v]
      /\ held'[w].n \in Runs /\ held'[w].v \in Outcomes
  BY <1>1, <1>3, <1>4
<1>9. /\ held' \in [Workers -> [n : Attempts0, v : Outcomes \cup {NoOutcome}]]
      /\ started' \in [Runs -> 0..2]
      /\ \A z \in Workers : z # w => held'[z] = held[z]
  BY <1>1, <1>7 DEF WorkerTypeOK
<1> QED BY <1>1, <1>2, <1>4, <1>5, <1>6, <1>8, <1>9, WorkerActs

LEMMA CompleteKeeps ==
  ASSUME HostInv, NEW w \in Workers, Complete(w)
  PROVE  HostInv'
<1>0. faults' = faults /\ faults' \in 0..MaxFaults
  BY DEF Complete, HostInv, WorkerTypeOK
<1>1. CASE Raise(w) /\ unchangedServer
  BY <1>0, <1>1, ServerRests, RaiseKeeps
<1>2. CASE /\ Accepts(w) /\ Recording(w) /\ Goto(w, "recorded")
           /\ UNCHANGED <<journal, guard, held, started>>
  <2>1. pc[w] = "completing"
    BY DEF Complete
  <2>2. ServerMoves /\ result'[held[w].n] = held[w].v
    BY <1>2, <2>1, RecordingMoves
  <2>3. guard[DirOf[w]] = w /\ DirOf[w] \in Dirs
    BY <2>1, Places0
  <2>4. held[w].n \in Runs /\ held[w].v \in Outcomes
    BY <2>1 DEF HostInv, HeldNamed, Executing
  <2>5. journal[DirOf[w]] = [phase |-> "result_ready", n |-> held[w].n, v |-> held[w].v]
    BY <2>1 DEF HostInv, JournalFollows
  <2>6. "recorded" \in Places \ {"down", "listening"}
    BY DEF Places
  <2>7. FirstStart'
    BY <1>2, <2>2, StartsKept
  <2>8. WorkerTypeOK
    BY DEF HostInv
  <2>9. /\ journal' \in [Dirs -> [phase : {"none", "running", "result_ready"},
                                 n : Attempts0, v : Outcomes \cup {NoOutcome}]]
        /\ held' \in [Workers -> [n : Attempts0, v : Outcomes \cup {NoOutcome}]]
        /\ started' \in [Runs -> 0..2]
        /\ \A d \in Dirs : d # DirOf[w] => journal'[d] = journal[d]
        /\ \A z \in Workers : z # w => held'[z] = held[z]
    BY <1>2, <2>8 DEF WorkerTypeOK
  <2>10. /\ journal'[DirOf[w]] = [phase |-> "result_ready", n |-> held'[w].n, v |-> held'[w].v]
         /\ journal'[DirOf[w]].phase = "result_ready"
         /\ journal'[DirOf[w]].n \in Runs /\ journal'[DirOf[w]].v \in Outcomes
         /\ held'[w].n \in Runs /\ held'[w].v \in Outcomes
         /\ result'[held'[w].n] = held'[w].v
    BY <1>2, <2>2, <2>4, <2>5
  <2>11. Goto(w, "recorded") /\ guard' = guard
    BY <1>2
  <2> QED BY <1>0, <2>2, <2>3, <2>6, <2>7, <2>9, <2>10, <2>11, WorkerActs
<1> QED BY <1>1, <1>2 DEF Complete

\* The journal is cleared by the process that holds its lock.
LEMMA UnlinkKeeps ==
  ASSUME HostInv, NEW w \in Workers, Unlink(w)
  PROVE  HostInv'
<1> DEFINE d == DirOf[w]
<1>1. /\ UNCHANGED <<run, result, started, faults>>
      /\ guard[d] = w /\ d \in Dirs
  BY Places0 DEF Unlink, unchangedServer
<1>2. /\ pc' \in [Workers -> Places]
      /\ pc'[w] = "listening"
      /\ \A z \in Workers : z # w => pc'[z] = pc[z]
  BY DEF HostInv, WorkerTypeOK, Unlink, Goto, Places
<1>3. /\ guard' \in [Dirs -> Workers \cup {NoWorker}]
      /\ \A e \in Dirs : guard'[e] = IF guard[e] = w THEN NoWorker ELSE guard[e]
  BY DEF HostInv, WorkerTypeOK, Unlink, Release
<1>4. /\ held' \in [Workers -> [n : Attempts0, v : Outcomes \cup {NoOutcome}]]
      /\ \A z \in Workers : z # w => held'[z] = held[z]
  <2>1. Nothing \in [n : Attempts0, v : Outcomes \cup {NoOutcome}]
    BY WorkerAssumption DEF Nothing, Attempts0, WorkerAssumption
  <2> QED BY <2>1 DEF HostInv, WorkerTypeOK, Unlink
<1>5. /\ journal' \in [Dirs -> [phase : {"none", "running", "result_ready"},
                                n : Attempts0, v : Outcomes \cup {NoOutcome}]]
      /\ journal'[d] = NoJournal /\ NoJournal.phase = "none"
      /\ \A e \in Dirs : e # d => journal'[e] = journal[e]
  <2>1. NoJournal \in [phase : {"none", "running", "result_ready"},
                       n : Attempts0, v : Outcomes \cup {NoOutcome}]
    BY WorkerAssumption DEF NoJournal, Attempts0, WorkerAssumption
  <2> QED BY <1>1, <2>1 DEF HostInv, WorkerTypeOK, Unlink, NoJournal
<1>6. \A z \in Workers : pc'[z] \notin {"down", "listening"} =>
        /\ z # w /\ pc[z] = pc'[z] /\ held'[z] = held[z]
        /\ DirOf[z] \in Dirs /\ DirOf[z] # d /\ journal'[DirOf[z]] = journal[DirOf[z]]
  BY <1>1, <1>2, <1>4, <1>5, WorkerAssumption DEF HostInv, GuardHeld, WorkerAssumption
<1> HIDE DEF d
<1>7. WorkerTypeOK'
  BY <1>1, <1>2, <1>3, <1>4, <1>5 DEF HostInv, WorkerTypeOK
<1>8. GuardHeld'
  BY <1>2, <1>3, WorkerAssumption DEF HostInv, GuardHeld, WorkerAssumption
<1>9. JournalFollows'
  <2>1. \A z \in Workers : pc'[z] \in {"pending", "claiming", "saving"} =>
          journal'[DirOf[z]] = NoJournal
    BY <1>6 DEF HostInv, JournalFollows
  <2>2. \A z \in Workers : pc'[z] \in {"executing", "produced"} =>
          journal'[DirOf[z]].phase = "running" /\ journal'[DirOf[z]].n = held'[z].n
    BY <1>6 DEF HostInv, JournalFollows
  <2>3. \A z \in Workers : pc'[z] \in {"completing", "recorded"} =>
          journal'[DirOf[z]] = [phase |-> "result_ready", n |-> held'[z].n, v |-> held'[z].v]
    <3> SUFFICES ASSUME NEW z \in Workers, pc'[z] \in {"completing", "recorded"}
                 PROVE  journal'[DirOf[z]] = [phase |-> "result_ready", n |-> held'[z].n, v |-> held'[z].v]
      OBVIOUS
    <3>1. /\ pc[z] = pc'[z] /\ held'[z] = held[z]
          /\ journal'[DirOf[z]] = journal[DirOf[z]]
      BY <1>6
    <3>2. journal[DirOf[z]] = [phase |-> "result_ready", n |-> held[z].n, v |-> held[z].v]
      BY <3>1 DEF HostInv, JournalFollows
    <3> QED BY <3>1, <3>2
  <2>4. \A e \in Dirs :
          /\ journal'[e].phase = "result_ready" => journal'[e].n \in Runs /\ journal'[e].v \in Outcomes
          /\ journal'[e].phase = "none" => journal'[e] = NoJournal
    BY <1>5 DEF HostInv, JournalFollows
  <2> QED BY <2>1, <2>2, <2>3, <2>4 DEF JournalFollows
<1>10. HeldNamed' /\ RecordedHolds'
  BY <1>1, <1>6 DEF HostInv, HeldNamed, RecordedHolds, Executing
<1>11. FirstStart'
  BY <1>1, <1>6 DEF HostInv, FirstStart, ExecutedOnce
<1>12. AttemptsFollow' /\ ResultsClose'
  BY <1>1 DEF HostInv, AttemptsFollow, ResultsClose
<1> QED BY <1>7, <1>8, <1>9, <1>10, <1>11, <1>12 DEF HostInv

LEMMA CrashKeeps ==
  ASSUME HostInv, NEW w \in Workers, Crash(w)
  PROVE  HostInv'
<1>1. faults' \in 0..MaxFaults
  BY WorkerAssumption DEF Crash, Fault, HostInv, WorkerTypeOK, WorkerAssumption
<1> QED BY <1>1, ServerRests, RaiseKeeps DEF Crash

\* The server acted and the worker does not know: the attempt stays leased with
\* no process to start it, or the journal keeps a result that is recorded.
LEMMA LostAnswerKeeps ==
  ASSUME HostInv, NEW w \in Workers, LostAnswer(w)
  PROVE  HostInv'
<1>1. faults' \in 0..MaxFaults
  BY WorkerAssumption DEF LostAnswer, Fault, HostInv, WorkerTypeOK, WorkerAssumption
<1>2. ServerMoves
  <2>1. CASE /\ \E n \in Queued(run) :
                  run' = [run EXCEPT ![n] = [status |-> "leased", late |-> FALSE]]
             /\ UNCHANGED result
    BY <2>1, AttemptMoves DEF Queued
  <2>2. CASE pc[w] = "completing" /\ Accepts(w) /\ Recording(w)
    BY <2>2, RecordingMoves
  <2> QED BY <2>1, <2>2 DEF LostAnswer
<1> QED BY <1>1, <1>2, RaiseKeeps DEF LostAnswer

\* A lease runs out: the attempt's status stays.
LEMMA LeaseRunsOutKeeps ==
  ASSUME HostInv, NEW n \in Runs, LeaseRunsOut(n)
  PROVE  HostInv'
<1>1. /\ run' = [run EXCEPT ![n].late = TRUE] /\ result' = result
      /\ UNCHANGED <<journal, guard, pc, held, started, faults>>
  BY DEF LeaseRunsOut, unchangedHost
<1>2. run' \in [Runs -> [status : RunStatuses, late : BOOLEAN]]
  BY <1>1 DEF HostInv, WorkerTypeOK
<1>3. \A m \in Runs : run'[m].status = run[m].status
  BY <1>1 DEF HostInv, WorkerTypeOK
<1>4. AttemptsFollow' /\ ResultsClose'
  BY <1>1, <1>3 DEF HostInv, AttemptsFollow, ResultsClose
<1>5. ServerMoves
  BY <1>1, <1>2, <1>3, <1>4 DEF HostInv, WorkerTypeOK, ServerMoves
<1> QED BY <1>1, <1>5, HostRests

LEMMA RequeueKeeps ==
  ASSUME HostInv, Requeue
  PROVE  HostInv'
BY PollMoves, HostRests DEF Requeue, unchangedHost

LEMMA InterruptKeeps ==
  ASSUME HostInv, NEW n \in Runs, Interrupt(n)
  PROVE  HostInv'
<1> DEFINE row == [run[n] EXCEPT !.status = "interrupted"]
<1>1. row = [status |-> "interrupted", late |-> run[n].late] /\ run[n].late \in BOOLEAN
  BY DEF HostInv, WorkerTypeOK
<1>2. run' = [run EXCEPT ![n] = row]
  BY DEF Interrupt
<1> HIDE DEF row
<1>3. run' = [run EXCEPT ![n] = [status |-> "interrupted", late |-> run[n].late]]
  BY <1>1, <1>2
<1>4. ServerMoves
  BY <1>1, <1>3, AttemptMoves DEF Interrupt
<1> QED BY <1>4, HostRests DEF Interrupt, unchangedHost

\* No process is at work in a directory whose lock is free.
LEMMA ReviewKeeps ==
  ASSUME HostInv, NEW d \in Dirs, Review(d)
  PROVE  HostInv'
<1>1. UNCHANGED <<run, result, guard, pc, held, started, faults>> /\ guard[d] = NoWorker
  BY DEF Review, unchangedServer
<1>2. /\ journal' \in [Dirs -> [phase : {"none", "running", "result_ready"},
                                n : Attempts0, v : Outcomes \cup {NoOutcome}]]
      /\ journal'[d] = NoJournal /\ NoJournal.phase = "none"
      /\ \A e \in Dirs : e # d => journal'[e] = journal[e]
  <2>1. NoJournal \in [phase : {"none", "running", "result_ready"},
                       n : Attempts0, v : Outcomes \cup {NoOutcome}]
    BY WorkerAssumption DEF NoJournal, Attempts0, WorkerAssumption
  <2> QED BY <2>1 DEF HostInv, WorkerTypeOK, Review, NoJournal
<1>3. \A w \in Workers : pc[w] \notin {"down", "listening"} =>
        DirOf[w] \in Dirs /\ DirOf[w] # d /\ journal'[DirOf[w]] = journal[DirOf[w]]
  BY <1>1, <1>2, WorkerAssumption DEF HostInv, GuardHeld, WorkerAssumption
<1>4. WorkerTypeOK'
  BY <1>1, <1>2 DEF HostInv, WorkerTypeOK
<1>5. JournalFollows'
  <2>1. \A w \in Workers : pc[w] \in {"pending", "claiming", "saving"} =>
          journal'[DirOf[w]] = NoJournal
    BY <1>3 DEF HostInv, JournalFollows
  <2>2. \A w \in Workers : pc[w] \in {"executing", "produced"} =>
          journal'[DirOf[w]].phase = "running" /\ journal'[DirOf[w]].n = held[w].n
    BY <1>3 DEF HostInv, JournalFollows
  <2>3. \A w \in Workers : pc[w] \in {"completing", "recorded"} =>
          journal'[DirOf[w]] = [phase |-> "result_ready", n |-> held[w].n, v |-> held[w].v]
    BY <1>3 DEF HostInv, JournalFollows
  <2>4. \A e \in Dirs :
          /\ journal'[e].phase = "result_ready" => journal'[e].n \in Runs /\ journal'[e].v \in Outcomes
          /\ journal'[e].phase = "none" => journal'[e] = NoJournal
    BY <1>2 DEF HostInv, JournalFollows
  <2> QED BY <1>1, <2>1, <2>2, <2>3, <2>4 DEF JournalFollows
<1>6. GuardHeld' /\ HeldNamed' /\ RecordedHolds' /\ FirstStart' /\ AttemptsFollow' /\ ResultsClose'
  BY <1>1 DEF HostInv, GuardHeld, HeldNamed, RecordedHolds, FirstStart, ExecutedOnce,
              AttemptsFollow, ResultsClose
<1> QED BY <1>4, <1>5, <1>6 DEF HostInv

-----------------------------------------------------------------------------
LEMMA InitInv == WorkerInit => HostInv
<1> SUFFICES ASSUME WorkerInit PROVE HostInv
  OBVIOUS
<1>1. WorkerTypeOK
  <2>1. /\ NoJournal \in [phase : {"none", "running", "result_ready"},
                          n : Attempts0, v : Outcomes \cup {NoOutcome}]
        /\ Nothing \in [n : Attempts0, v : Outcomes \cup {NoOutcome}]
        /\ 0 \in 0..MaxFaults
    BY WorkerAssumption DEF NoJournal, Nothing, Attempts0, WorkerAssumption
  <2>2. run \in [Runs -> [status : RunStatuses, late : BOOLEAN]]
    BY DEF WorkerInit, RunStatuses
  <2> QED BY <2>1, <2>2 DEF WorkerInit, WorkerTypeOK, Places
<1>2. GuardHeld
  BY WorkerAssumption DEF WorkerInit, GuardHeld, WorkerAssumption
<1>3. JournalFollows /\ HeldNamed /\ RecordedHolds
  BY DEF WorkerInit, JournalFollows, HeldNamed, RecordedHolds, Executing, NoJournal
<1>4. FirstStart
  BY DEF WorkerInit, FirstStart, ExecutedOnce
<1>5. AttemptsFollow
  BY DEF WorkerInit, AttemptsFollow, Runs
<1>6. ResultsClose
  BY DEF WorkerInit, ResultsClose
<1> QED BY <1>1, <1>2, <1>3, <1>4, <1>5, <1>6 DEF HostInv

LEMMA StepInv == HostInv /\ [WorkerNext]_workerVars => HostInv'
<1> SUFFICES ASSUME HostInv, [WorkerNext]_workerVars PROVE HostInv'
  OBVIOUS
<1>1. ASSUME NEW n \in Runs, LeaseRunsOut(n) PROVE HostInv'
  BY <1>1, LeaseRunsOutKeeps
<1>2. ASSUME NEW n \in Runs, Interrupt(n) PROVE HostInv'
  BY <1>2, InterruptKeeps
<1>3. CASE Requeue
  BY <1>3, RequeueKeeps
<1>4. ASSUME NEW w \in Workers, Pass(w) PROVE HostInv'
  BY <1>4, StartKeeps, OnceKeeps, PendingKeeps, ClaimRunKeeps, BeginExecutionKeeps,
     ExecuteKeeps, SaveResultKeeps, CompleteKeeps, UnlinkKeeps DEF Pass
<1>5. ASSUME NEW w \in Workers, Crash(w) PROVE HostInv'
  BY <1>5, CrashKeeps
<1>6. ASSUME NEW w \in Workers, LostAnswer(w) PROVE HostInv'
  BY <1>6, LostAnswerKeeps
<1>7. ASSUME NEW d \in Dirs, Review(d) PROVE HostInv'
  BY <1>7, ReviewKeeps
<1>8. CASE UNCHANGED workerVars
  <2>1. ServerMoves /\ UNCHANGED <<journal, guard, pc, held, started, faults>>
    BY <1>8, ServerRests DEF workerVars, unchangedServer
  <2> QED BY <2>1, HostRests
<1> QED BY <1>1, <1>2, <1>3, <1>4, <1>5, <1>6, <1>7, <1>8 DEF WorkerNext

-----------------------------------------------------------------------------
(* Theorems.                                                               *)

\* TaskRunWorker: at every place of once the lock, the journal, what the process
\* holds and what the server recorded fit one another.
THEOREM WorkerConsistent == WorkerSpec => []WorkerInv
<1>1. WorkerSpec => []HostInv
  BY InitInv, StepInv, PTL DEF WorkerSpec
<1> QED BY <1>1, InvImplies, PTL

\* TaskRunWorker.once: the model is started at most once for a run, with any
\* number of processes, directories, crashes and lost answers.
THEOREM ModelsStartOnce == WorkerSpec => []ExecutedOnce
<1>1. HostInv => ExecutedOnce
  BY DEF HostInv, FirstStart
<1>2. WorkerSpec => []HostInv
  BY InitInv, StepInv, PTL DEF WorkerSpec
<1> QED BY <1>1, <1>2, PTL

\* Only four steps change a journal; the one that may take a result out of it
\* comes after the server's receipt.
LEMMA ResultStays ==
  ASSUME HostInv, [WorkerNext]_workerVars, NEW d \in Dirs,
         journal[d].phase = "result_ready", journal'[d] # journal[d]
  PROVE  result[journal[d].n] = journal[d].v
<1>1. CASE \E w \in Workers : BeginExecution(w) \/ SaveResult(w)
  <2>1. PICK w \in Workers : BeginExecution(w) \/ SaveResult(w)
    BY <1>1
  <2>2. d = DirOf[w]
    BY <2>1, SaveWrites DEF BeginExecution, SaveResult
  <2>3. journal[d].phase \in {"none", "running"}
    BY <2>1, <2>2 DEF HostInv, JournalFollows, BeginExecution, SaveResult, NoJournal
  <2> QED BY <2>3
<1>2. CASE \E w \in Workers : Unlink(w)
  <2>1. PICK w \in Workers : Unlink(w)
    BY <1>2
  <2>2. d = DirOf[w] /\ pc[w] = "recorded"
    BY <2>1 DEF HostInv, WorkerTypeOK, Unlink
  <2>3. journal[d] = [phase |-> "result_ready", n |-> held[w].n, v |-> held[w].v]
    BY <2>2 DEF HostInv, JournalFollows
  <2>4. result[held[w].n] = held[w].v
    BY <2>2 DEF HostInv, RecordedHolds
  <2> QED BY <2>3, <2>4
<1>3. CASE \E e \in Dirs : Review(e)
  BY <1>3 DEF Review, HostInv, WorkerTypeOK
<1>4. CASE journal' = journal
  BY <1>4
<1>5. \/ \E w \in Workers : BeginExecution(w) \/ SaveResult(w)
      \/ \E w \in Workers : Unlink(w)
      \/ \E e \in Dirs : Review(e)
      \/ journal' = journal
  <2>1. ASSUME NEW w \in Workers, Pass(w), ~BeginExecution(w), ~SaveResult(w), ~Unlink(w)
        PROVE  journal' = journal
    BY <2>1 DEF Pass, Start, Once, Pending, ClaimRun, Execute, Complete, Raise, Return
  <2>2. ASSUME NEW w \in Workers, Crash(w) \/ LostAnswer(w)
        PROVE  journal' = journal
    BY <2>2 DEF Crash, LostAnswer, Raise
  <2>3. ASSUME NEW n \in Runs, LeaseRunsOut(n) \/ Interrupt(n)
        PROVE  journal' = journal
    BY <2>3 DEF LeaseRunsOut, Interrupt, unchangedHost
  <2>4. CASE Requeue \/ UNCHANGED workerVars
    BY <2>4 DEF Requeue, unchangedHost, workerVars
  <2> QED BY <2>1, <2>2, <2>3, <2>4 DEF WorkerNext
<1> QED BY <1>1, <1>2, <1>3, <1>4, <1>5

\* TaskRunWorker.once: a result leaves the journal only after the server recorded
\* exactly that result for that run (the safety half of ResultDelivered).
THEOREM ResultsStayUntilRecorded == WorkerSpec => ResultKept
<1>1. HostInv /\ [WorkerNext]_workerVars =>
        [\A d \in Dirs : journal[d].phase = "result_ready" /\ journal'[d] # journal[d] =>
           result[journal[d].n] = journal[d].v]_workerVars
  BY ResultStays
<1>2. WorkerSpec => []HostInv
  BY InitInv, StepInv, PTL DEF WorkerSpec
<1> QED BY <1>1, <1>2, PTL DEF WorkerSpec, ResultKept

-----------------------------------------------------------------------------
(* Least elements, for the cursor.                                         *)


LEMMA MinIsLeast ==
  ASSUME NEW S \in SUBSET Nat, S # {}
  PROVE  Min(S) \in S /\ \A n \in S : Min(S) <= n
<1> DEFINE R == OpToRel(<, Nat)
<1>1. IsWellFoundedOn(R, Nat)
  BY NatLessThanWellFounded
<1>2. \A m, n \in Nat : m < n => <<m, n>> \in R
  BY DEF OpToRel
<1> HIDE DEF R
<1>3. PICK m \in S : \A n \in S : ~ (<<n, m>> \in R)
  BY <1>1, WFMin
<1>4. \A n \in S : m <= n
  <2> SUFFICES ASSUME NEW n \in S PROVE m <= n
    OBVIOUS
  <2>1. ~ (n < m)
    BY <1>2, <1>3
  <2> QED BY <2>1
<1> QED BY <1>4 DEF Min

-----------------------------------------------------------------------------
(* The polling worker.                                                     *)

AckedHandled == \A m \in Mail : status[m] = "acked" => m \in handled
Credentialed ==
  \A p \in MailProcs : place[p] \notin {"off", "pairing"} => cred[p] # NoCredential
OnlyWorkerPolls ==
  \A p \in MailProcs : p # MailWorker =>
    place[p] \in {"off", "pairing", "storing", "connected"}
PassFollowsCursor ==
  LET p == MailWorker IN
  /\ place[p] \in {"listing", "reading", "handling", "acking", "saving"} => at[p] = cursor
  /\ place[p] \in {"reading", "handling", "acking", "saving"} =>
       /\ at[p] # NoPosition => at[p].agent = cred[p].agent
       /\ msg[p].seq \in 1..arrived[cred[p].agent] /\ msg[p].seq > at[p].seq
       /\ \A n \in (at[p].seq + 1)..(msg[p].seq - 1) : <<cred[p].agent, n>> \in hidden
  /\ place[p] \in {"acking", "saving"} => InHand(p) \in handled

\* What is archived was archived at some time.
MailInd == MailInv /\ archived \subseteq hidden

MailParts ==
  /\ MailTypeOK /\ CursorCoversHandled /\ AckedHandled /\ Credentialed
  /\ OnlyWorkerPolls /\ PassFollowsCursor /\ archived \subseteq hidden

LEMMA MailIsParts == MailInd <=> MailParts
BY DEF MailInd, MailInv, MailParts, AckedHandled, Credentialed, OnlyWorkerPolls,
       PassFollowsCursor

LEMMA MailIsPartsPrime == MailInd' <=> MailParts'
BY DEF MailInd, MailInv, MailParts, AckedHandled, Credentialed, OnlyWorkerPolls,
       PassFollowsCursor

\* What was handled or archived stays so, and so what a cursor covers.
LEMMA CursorStays ==
  ASSUME CursorCoversHandled, cursor' = cursor,
         handled \subseteq handled', hidden \subseteq hidden'
  PROVE  CursorCoversHandled'
BY DEF CursorCoversHandled

LEMMA AckedStays ==
  ASSUME AckedHandled, status' = status, handled \subseteq handled'
  PROVE  AckedHandled'
BY DEF AckedHandled

\* Steps beside the worker's pass leave it what it relies on.
LEMMA PassStays ==
  ASSUME PassFollowsCursor, cursor' = cursor,
         place'[MailWorker] = place[MailWorker], at'[MailWorker] = at[MailWorker],
         msg'[MailWorker] = msg[MailWorker], cred'[MailWorker] = cred[MailWorker],
         place[MailWorker] \in {"reading", "handling", "acking", "saving"} =>
           1..arrived[cred[MailWorker].agent] \subseteq 1..arrived'[cred[MailWorker].agent],
         handled \subseteq handled', hidden \subseteq hidden'
  PROVE  PassFollowsCursor'
<1> DEFINE p == MailWorker
           a == cred[p].agent
<1>1. InHand(p)' = InHand(p) /\ cred'[p].agent = a
  BY DEF InHand
<1>2. place[p] \in {"reading", "handling", "acking", "saving"} =>
        /\ at[p] # NoPosition => at[p].agent = a
        /\ msg[p].seq \in 1..arrived'[a] /\ msg[p].seq > at[p].seq
        /\ \A n \in (at[p].seq + 1)..(msg[p].seq - 1) : <<a, n>> \in hidden'
  BY DEF PassFollowsCursor
<1>3. place[p] \in {"acking", "saving"} => InHand(p) \in handled'
  BY DEF PassFollowsCursor
<1>4. place[p] \in {"listing", "reading", "handling", "acking", "saving"} => at[p] = cursor
  BY DEF PassFollowsCursor
<1> QED BY <1>1, <1>2, <1>3, <1>4 DEF PassFollowsCursor

Resting == {"off", "pairing", "storing", "connected"}

LEMMA PassRests ==
  ASSUME place'[MailWorker] \in Resting
  PROVE  PassFollowsCursor'
BY DEF PassFollowsCursor, Resting

LEMMA MailTypes ==
  ASSUME MailTypeOK
  PROVE  /\ MailWorker \in MailProcs /\ NoMail \in [seq : 0..MaxMail, seen : Lifecycle \cup {"none"}]
         /\ place \in [MailProcs -> MailPlaces]
         /\ cred \in [MailProcs -> Credentials \cup {NoCredential}]
         /\ at \in [MailProcs -> Positions \cup {NoPosition}]
         /\ msg \in [MailProcs -> [seq : 0..MaxMail, seen : Lifecycle \cup {"none"}]]
BY MailAssumption DEF MailAssumption, MailTypeOK, NoMail

\* A pass that ends and a process that stops rest.
LEMMA EndPassRests ==
  ASSUME MailTypeOK, NEW p \in MailProcs, EndPass(p)
  PROVE  /\ place' \in [MailProcs -> MailPlaces] /\ place'[p] = "connected"
         /\ at' \in [MailProcs -> Positions \cup {NoPosition}]
         /\ msg' \in [MailProcs -> [seq : 0..MaxMail, seen : Lifecycle \cup {"none"}]]
         /\ \A q \in MailProcs \ {p} :
              place'[q] = place[q] /\ at'[q] = at[q] /\ msg'[q] = msg[q]
BY MailTypes DEF EndPass, Move, MailPlaces

LEMMA StopRests ==
  ASSUME MailTypeOK, NEW p \in MailProcs, Stop(p)
  PROVE  /\ place' \in [MailProcs -> MailPlaces] /\ place'[p] = "off"
         /\ at' \in [MailProcs -> Positions \cup {NoPosition}]
         /\ msg' \in [MailProcs -> [seq : 0..MaxMail, seen : Lifecycle \cup {"none"}]]
         /\ cred' \in [MailProcs -> Credentials \cup {NoCredential}]
         /\ \A q \in MailProcs \ {p} :
              place'[q] = place[q] /\ at'[q] = at[q] /\ msg'[q] = msg[q] /\ cred'[q] = cred[q]
BY MailTypes DEF Stop, Move, MailPlaces

LEMMA Moves ==
  ASSUME MailTypeOK, NEW p \in MailProcs, NEW there \in MailPlaces, Move(p, there)
  PROVE  /\ place' \in [MailProcs -> MailPlaces] /\ place'[p] = there
         /\ \A q \in MailProcs \ {p} : place'[q] = place[q]
BY MailTypes DEF Move

\* A step of a process that stays, or comes to rest, outside a pass.
LEMMA BesideThePass ==
  ASSUME MailParts, NEW p \in MailProcs,
         place' \in [MailProcs -> MailPlaces],
         \A q \in MailProcs \ {p} :
           place'[q] = place[q] /\ at'[q] = at[q] /\ msg'[q] = msg[q] /\ cred'[q] = cred[q],
         place'[p] \in Resting, place'[p] \in {"off", "pairing"} \/ cred'[p] # NoCredential,
         UNCHANGED <<arrived, archived, status, hidden, cursor, handled>>
  PROVE  /\ CursorCoversHandled' /\ AckedHandled' /\ Credentialed' /\ OnlyWorkerPolls'
         /\ PassFollowsCursor' /\ (archived \subseteq hidden)'
<1>1. CursorCoversHandled' /\ AckedHandled'
  BY CursorStays, AckedStays DEF MailParts
<1>2. Credentialed' /\ OnlyWorkerPolls'
  BY DEF MailParts, Credentialed, OnlyWorkerPolls, Resting
<1>3. PassFollowsCursor'
  <2>1. CASE p = MailWorker
    BY <2>1, PassRests
  <2>2. CASE p # MailWorker
    BY <2>2, PassStays, MailTypes DEF MailParts
  <2> QED BY <2>1, <2>2
<1> QED BY <1>1, <1>2, <1>3 DEF MailParts

LEMMA MailInitInd == MailInit => MailParts
<1> SUFFICES ASSUME MailInit PROVE MailParts
  OBVIOUS
<1>1. MailTypeOK
  <2>1. /\ 0 \in 0..MaxMail /\ 0 \in 0..MaxKeys /\ 0 \in 0..MaxMailFaults
    BY MailAssumption DEF MailAssumption
  <2>2. NoMail \in [seq : 0..MaxMail, seen : Lifecycle \cup {"none"}]
    BY <2>1 DEF NoMail
  <2> QED BY <2>1, <2>2 DEF MailInit, MailTypeOK, Lifecycle, MailPlaces
<1>2. CursorCoversHandled /\ AckedHandled /\ Credentialed /\ OnlyWorkerPolls
  BY DEF MailInit, CursorCoversHandled, AckedHandled, Credentialed, OnlyWorkerPolls
<1>3. PassFollowsCursor
  BY MailAssumption DEF MailAssumption, MailInit, PassFollowsCursor
<1> QED BY <1>1, <1>2, <1>3 DEF MailInit, MailParts

LEMMA MailArrivesKeeps ==
  ASSUME MailParts, NEW a \in MailAgents, MailArrives(a)
  PROVE  MailParts'
<1>1. /\ arrived[a] < MaxMail /\ arrived' = [arrived EXCEPT ![a] = @ + 1]
      /\ UNCHANGED <<archived, status, serverKey, keys, hidden, mailLocal, mailFaults>>
  BY DEF MailArrives
<1>2. arrived \in [MailAgents -> 0..MaxMail]
  BY DEF MailParts, MailTypeOK
<1>3. /\ arrived' \in [MailAgents -> 0..MaxMail]
      /\ \A b \in MailAgents : 1..arrived[b] \subseteq 1..arrived'[b]
  BY <1>1, <1>2, MailAssumption DEF MailAssumption
<1>4. MailTypeOK'
  BY <1>1, <1>3 DEF MailParts, MailTypeOK, mailLocal
<1>5. place[MailWorker] \in {"reading", "handling", "acking", "saving"} =>
        cred[MailWorker].agent \in MailAgents
  BY MailTypes DEF MailParts, Credentialed, Credentials
<1>6. PassFollowsCursor'
  BY <1>1, <1>3, <1>5, PassStays DEF MailParts, mailLocal
<1>7. CursorCoversHandled' /\ AckedHandled' /\ Credentialed' /\ OnlyWorkerPolls'
  BY <1>1, CursorStays, AckedStays DEF MailParts, Credentialed, OnlyWorkerPolls, mailLocal
<1> QED BY <1>1, <1>4, <1>6, <1>7 DEF MailParts

LEMMA ToggleArchiveKeeps ==
  ASSUME MailParts, NEW m \in Mail, ToggleArchive(m)
  PROVE  MailParts'
<1>1. /\ archived' \subseteq archived \cup {m} /\ hidden' = hidden \cup archived'
      /\ UNCHANGED <<arrived, status, serverKey, keys, mailLocal, mailFaults>>
  BY DEF ToggleArchive
<1>2. MailTypeOK'
  BY <1>1 DEF MailParts, MailTypeOK, mailLocal
<1>3. PassFollowsCursor'
  BY <1>1, PassStays DEF MailParts, mailLocal
<1>4. CursorCoversHandled' /\ AckedHandled' /\ Credentialed' /\ OnlyWorkerPolls'
  BY <1>1, CursorStays, AckedStays DEF MailParts, Credentialed, OnlyWorkerPolls, mailLocal
<1> QED BY <1>1, <1>2, <1>3, <1>4 DEF MailParts

LEMMA ConnectManagedKeeps ==
  ASSUME MailParts, NEW p \in MailProcs, ConnectManaged(p)
  PROVE  MailParts'
<1> DEFINE there == IF vault # NoCredential /\ serverKey[vault.agent] = vault.key
                    THEN "connected" ELSE "pairing"
<1>1. /\ cred' = [cred EXCEPT ![p] = vault] /\ Move(p, there)
      /\ UNCHANGED <<mailServer, vault, cursor, at, msg, handled, mailFaults>>
  BY DEF ConnectManaged
<1>2. there \in MailPlaces /\ there \in Resting /\ (there = "pairing" \/ vault # NoCredential)
  BY DEF MailPlaces, Resting
<1> HIDE DEF there
<1>3. /\ place' \in [MailProcs -> MailPlaces] /\ place'[p] = there
      /\ \A q \in MailProcs \ {p} : place'[q] = place[q]
  BY <1>1, <1>2, Moves DEF MailParts
<1>4. /\ cred' \in [MailProcs -> Credentials \cup {NoCredential}] /\ cred'[p] = vault
      /\ \A q \in MailProcs \ {p} : cred'[q] = cred[q]
  BY <1>1 DEF MailParts, MailTypeOK
<1>5. MailTypeOK'
  BY <1>1, <1>3, <1>4 DEF MailParts, MailTypeOK, mailServer
<1> QED BY <1>1, <1>2, <1>3, <1>4, <1>5, BesideThePass DEF MailParts, mailServer

LEMMA NewKey ==
  ASSUME MailTypeOK, keys < MaxKeys, NEW a \in MailAgents
  PROVE  /\ keys + 1 \in 0..MaxKeys /\ keys + 1 \in 1..MaxKeys
         /\ [agent |-> a, key |-> keys + 1] \in Credentials
         /\ [agent |-> a, key |-> keys + 1] # NoCredential
         /\ [serverKey EXCEPT ![a] = keys + 1] \in [MailAgents -> 0..MaxKeys]
<1>1. keys + 1 \in 0..MaxKeys /\ keys + 1 \in 1..MaxKeys
  BY MailAssumption DEF MailAssumption, MailTypeOK
<1>2. [agent |-> a, key |-> keys + 1] \in Credentials
  BY <1>1 DEF Credentials
<1> QED BY <1>1, <1>2, MailAssumption DEF MailAssumption, MailTypeOK, Credentials

LEMMA PairKeeps ==
  ASSUME MailParts, NEW p \in MailProcs, Pair(p)
  PROVE  MailParts'
<1>1. PICK a \in MailAgents :
        /\ serverKey' = [serverKey EXCEPT ![a] = keys + 1]
        /\ cred' = [cred EXCEPT ![p] = [agent |-> a, key |-> keys + 1]]
  BY DEF Pair
<1>2. /\ keys < MaxKeys /\ keys' = keys + 1 /\ Move(p, "storing")
      /\ UNCHANGED <<arrived, archived, status, hidden, vault, cursor, at, msg, handled,
                     mailFaults>>
  BY DEF Pair
<1> DEFINE c == [agent |-> a, key |-> keys + 1]
<1>3. c \in Credentials /\ c # NoCredential /\ keys' \in 0..MaxKeys
      /\ serverKey' \in [MailAgents -> 0..MaxKeys]
  BY <1>1, <1>2, NewKey DEF MailParts
<1>4. cred' = [cred EXCEPT ![p] = c]
  BY <1>1
<1> HIDE DEF c
<1>5. /\ cred' \in [MailProcs -> Credentials \cup {NoCredential}] /\ cred'[p] = c
      /\ \A q \in MailProcs \ {p} : cred'[q] = cred[q]
  BY <1>3, <1>4 DEF MailParts, MailTypeOK
<1>6. /\ place' \in [MailProcs -> MailPlaces] /\ place'[p] = "storing"
      /\ \A q \in MailProcs \ {p} : place'[q] = place[q]
  BY <1>2, Moves DEF MailParts, MailPlaces
<1>7. MailTypeOK'
  BY <1>2, <1>3, <1>5, <1>6 DEF MailParts, MailTypeOK
<1> QED BY <1>2, <1>3, <1>5, <1>6, <1>7, BesideThePass DEF MailParts, Resting

LEMMA RotateKeeps ==
  ASSUME MailParts, NEW p \in MailProcs, Rotate(p)
  PROVE  MailParts'
<1> DEFINE c == [cred[p] EXCEPT !.key = keys + 1]
<1>1. /\ place[p] = "connected" /\ keys < MaxKeys
      /\ serverKey' = [serverKey EXCEPT ![cred[p].agent] = keys + 1]
      /\ cred' = [cred EXCEPT ![p] = c]
      /\ keys' = keys + 1 /\ Move(p, "storing")
      /\ UNCHANGED <<arrived, archived, status, hidden, vault, cursor, at, msg, handled,
                     mailFaults>>
  BY DEF Rotate
<1>2. cred[p] \in Credentials
  BY <1>1, MailTypes DEF MailParts, Credentialed
<1>3. /\ keys + 1 \in 1..MaxKeys /\ keys' \in 0..MaxKeys
      /\ serverKey' \in [MailAgents -> 0..MaxKeys]
  BY <1>1, <1>2, NewKey DEF MailParts, Credentials
<1>4. c \in Credentials
  BY <1>2, <1>3 DEF Credentials
<1>5. c # NoCredential
  BY <1>4, MailAssumption DEF MailAssumption, Credentials
<1> HIDE DEF c
<1>6. /\ cred' \in [MailProcs -> Credentials \cup {NoCredential}] /\ cred'[p] = c
      /\ \A q \in MailProcs \ {p} : cred'[q] = cred[q]
  BY <1>1, <1>4 DEF MailParts, MailTypeOK
<1>7. /\ place' \in [MailProcs -> MailPlaces] /\ place'[p] = "storing"
      /\ \A q \in MailProcs \ {p} : place'[q] = place[q]
  BY <1>1, Moves DEF MailParts, MailPlaces
<1>8. MailTypeOK'
  BY <1>1, <1>3, <1>6, <1>7 DEF MailParts, MailTypeOK
<1> QED BY <1>1, <1>5, <1>6, <1>7, <1>8, BesideThePass DEF MailParts, Resting

LEMMA StoreCredentialKeeps ==
  ASSUME MailParts, NEW p \in MailProcs, StoreCredential(p)
  PROVE  MailParts'
<1>1. /\ place[p] = "storing" /\ vault' = cred[p] /\ Move(p, "connected")
      /\ UNCHANGED <<mailServer, cursor, cred, at, msg, handled, mailFaults>>
  BY DEF StoreCredential
<1>2. cred[p] \in Credentials \cup {NoCredential} /\ cred[p] # NoCredential
  BY <1>1, MailTypes DEF MailParts, Credentialed
<1>3. /\ place' \in [MailProcs -> MailPlaces] /\ place'[p] = "connected"
      /\ \A q \in MailProcs \ {p} : place'[q] = place[q]
  BY <1>1, Moves DEF MailParts, MailPlaces
<1>4. MailTypeOK'
  BY <1>1, <1>2, <1>3 DEF MailParts, MailTypeOK, mailServer
<1> QED BY <1>1, <1>2, <1>3, <1>4, BesideThePass DEF MailParts, mailServer, Resting

LEMMA ForgetKeeps ==
  ASSUME MailParts, NEW p \in MailProcs, Forget(p) \/ MailCrash(p)
  PROVE  MailParts'
<1>1. /\ vault' \in Credentials \cup {NoCredential} /\ Stop(p)
      /\ mailFaults' \in 0..MaxMailFaults
      /\ UNCHANGED <<mailServer, cursor, handled>>
  <2>1. CASE Forget(p)
    BY <2>1 DEF Forget, MailParts, MailTypeOK
  <2>2. CASE MailCrash(p)
    BY <2>2, MailAssumption DEF MailCrash, MailParts, MailTypeOK, MailAssumption
  <2> QED BY <2>1, <2>2
<1>2. /\ place' \in [MailProcs -> MailPlaces] /\ place'[p] = "off"
      /\ at' \in [MailProcs -> Positions \cup {NoPosition}]
      /\ msg' \in [MailProcs -> [seq : 0..MaxMail, seen : Lifecycle \cup {"none"}]]
      /\ cred' \in [MailProcs -> Credentials \cup {NoCredential}]
      /\ \A q \in MailProcs \ {p} :
           place'[q] = place[q] /\ at'[q] = at[q] /\ msg'[q] = msg[q] /\ cred'[q] = cred[q]
  BY <1>1, StopRests DEF MailParts
<1>3. MailTypeOK'
  BY <1>1, <1>2 DEF MailParts, MailTypeOK, mailServer
<1> QED BY <1>1, <1>2, <1>3, BesideThePass DEF MailParts, mailServer, Resting

\* A step of the worker's pass that ends it: nothing was handled or recorded.
LEMMA PassEnds ==
  ASSUME MailParts, NEW p \in MailProcs, EndPass(p), cred[p] # NoCredential,
         UNCHANGED <<mailServer, vault, cursor, cred, handled, mailFaults>>
  PROVE  MailParts'
<1>1. /\ place' \in [MailProcs -> MailPlaces] /\ place'[p] = "connected"
      /\ at' \in [MailProcs -> Positions \cup {NoPosition}]
      /\ msg' \in [MailProcs -> [seq : 0..MaxMail, seen : Lifecycle \cup {"none"}]]
      /\ \A q \in MailProcs \ {p} :
           place'[q] = place[q] /\ at'[q] = at[q] /\ msg'[q] = msg[q]
  BY EndPassRests DEF MailParts
<1>2. MailTypeOK'
  BY <1>1 DEF MailParts, MailTypeOK, mailServer
<1> QED BY <1>1, <1>2, BesideThePass DEF MailParts, mailServer, Resting

\* Only the worker is in a pass, and it holds a credential there.
LEMMA Polls ==
  ASSUME MailParts, NEW p \in MailProcs,
         place[p] \in {"listing", "reading", "handling", "acking", "saving"}
  PROVE  /\ p = MailWorker /\ at[p] = cursor
         /\ cred[p] \in Credentials /\ cred[p] # NoCredential /\ cred[p].agent \in MailAgents
<1>1. p = MailWorker
  BY DEF MailParts, OnlyWorkerPolls
<1>2. cred[p] # NoCredential
  BY DEF MailParts, Credentialed
<1> QED BY <1>1, <1>2, MailTypes DEF MailParts, PassFollowsCursor, Credentials

LEMMA InHandIsMail ==
  ASSUME MailParts, NEW p \in MailProcs,
         place[p] \in {"reading", "handling", "acking", "saving"}
  PROVE  /\ InHand(p) \in Mail /\ msg[p].seq \in 1..arrived[cred[p].agent]
         /\ msg[p].seq \in 1..MaxMail /\ msg[p].seq > at[p].seq
         /\ at[p] # NoPosition => at[p].agent = cred[p].agent
         /\ \A n \in (at[p].seq + 1)..(msg[p].seq - 1) : <<cred[p].agent, n>> \in hidden
<1>1. p = MailWorker /\ cred[p].agent \in MailAgents
  BY Polls
<1>2. /\ msg[p].seq \in 1..arrived[cred[p].agent] /\ msg[p].seq > at[p].seq
      /\ at[p] # NoPosition => at[p].agent = cred[p].agent
      /\ \A n \in (at[p].seq + 1)..(msg[p].seq - 1) : <<cred[p].agent, n>> \in hidden
  BY <1>1 DEF MailParts, PassFollowsCursor
<1>3. arrived[cred[p].agent] \in 0..MaxMail
  BY <1>1 DEF MailParts, MailTypeOK
<1>4. msg[p].seq \in 1..MaxMail
  BY <1>2, <1>3, MailAssumption DEF MailAssumption
<1> QED BY <1>1, <1>2, <1>4 DEF InHand, Mail

\* A step of the pass that keeps the message in hand and says what it did.
LEMMA PassGoesOn ==
  ASSUME MailParts, NEW p \in MailProcs,
         place[p] \in {"reading", "handling", "acking", "saving"},
         NEW there \in {"handling", "acking", "saving"}, Move(p, there),
         msg'[p].seq = msg[p].seq,
         \A q \in MailProcs \ {p} : msg'[q] = msg[q],
         msg' \in [MailProcs -> [seq : 0..MaxMail, seen : Lifecycle \cup {"none"}]],
         status' \in [Mail -> Lifecycle],
         there \in {"acking", "saving"} => InHand(p) \in handled',
         handled \subseteq handled', handled' \subseteq Mail,
         \A m \in Mail : status'[m] = "acked" => status[m] = "acked" \/ m \in handled',
         UNCHANGED <<arrived, archived, serverKey, keys, hidden, vault, cursor, cred, at,
                     mailFaults>>
  PROVE  MailParts'
<1>1. p = MailWorker /\ at[p] = cursor /\ cred[p] # NoCredential
  BY Polls
<1>2. /\ place' \in [MailProcs -> MailPlaces] /\ place'[p] = there
      /\ \A q \in MailProcs \ {p} : place'[q] = place[q]
  BY Moves DEF MailParts, MailPlaces
<1>3. MailTypeOK'
  BY <1>2 DEF MailParts, MailTypeOK
<1>4. CursorCoversHandled'
  BY CursorStays DEF MailParts
<1>5. AckedHandled'
  BY DEF MailParts, AckedHandled
<1>6. Credentialed' /\ OnlyWorkerPolls'
  BY <1>1, <1>2 DEF MailParts, Credentialed, OnlyWorkerPolls
<1>7. InHand(p)' = InHand(p)
  BY DEF InHand
<1>8. PassFollowsCursor'
  BY <1>1, <1>2, <1>7, InHandIsMail DEF PassFollowsCursor
<1> QED BY <1>3, <1>4, <1>5, <1>6, <1>8 DEF MailParts

LEMMA RunOnceKeeps ==
  ASSUME MailParts, NEW p \in MailProcs, RunOnce(p)
  PROVE  MailParts'
<1>1. /\ place[p] = "connected" /\ p = MailWorker
      /\ at' = [at EXCEPT ![p] = cursor] /\ Move(p, "listing")
      /\ UNCHANGED <<mailServer, vault, cursor, cred, msg, handled, mailFaults>>
  BY DEF RunOnce
<1>2. /\ place' \in [MailProcs -> MailPlaces] /\ place'[p] = "listing"
      /\ \A q \in MailProcs \ {p} : place'[q] = place[q]
  BY <1>1, Moves DEF MailParts, MailPlaces
<1>3. at' \in [MailProcs -> Positions \cup {NoPosition}] /\ at'[p] = cursor
  BY <1>1 DEF MailParts, MailTypeOK
<1>4. MailTypeOK'
  BY <1>1, <1>2, <1>3 DEF MailParts, MailTypeOK, mailServer
<1>5. CursorCoversHandled' /\ AckedHandled'
  BY <1>1, CursorStays, AckedStays DEF MailParts, mailServer
<1>6. Credentialed' /\ OnlyWorkerPolls'
  BY <1>1, <1>2 DEF MailParts, Credentialed, OnlyWorkerPolls
<1>7. PassFollowsCursor'
  BY <1>1, <1>2, <1>3 DEF PassFollowsCursor
<1> QED BY <1>1, <1>4, <1>5, <1>6, <1>7 DEF MailParts, mailServer

\* The message of the page that is taken is the first after the cursor which
\* is not archived now: what lies between was archived.
LEMMA FirstOfPage ==
  ASSUME MailParts, NEW p \in MailProcs, place[p] = "listing", Page(p) # {}
  PROVE  /\ Min(Page(p)) \in 1..arrived[cred[p].agent] /\ Min(Page(p)) > at[p].seq
         /\ \A n \in (at[p].seq + 1)..(Min(Page(p)) - 1) : <<cred[p].agent, n>> \in hidden
<1> DEFINE a == cred[p].agent
           n == Min(Page(p))
<1>1. arrived[a] \in Nat /\ at[p].seq \in Nat
  <2>1. arrived[a] \in 0..MaxMail
    BY Polls DEF MailParts, MailTypeOK
  <2>2. at[p].seq \in 0..MaxMail
    BY MailTypes, MailAssumption DEF MailAssumption, MailParts, Positions, NoPosition
  <2> QED BY <2>1, <2>2, MailAssumption DEF MailAssumption
<1>2. Page(p) = {k \in 1..arrived[a] : k > at[p].seq /\ <<a, k>> \notin archived}
  BY DEF Page
<1>3. Page(p) \in SUBSET Nat
  BY <1>1, <1>2
<1>4. n \in Page(p) /\ \A k \in Page(p) : n <= k
  BY <1>3, MinIsLeast
<1> HIDE DEF n
<1>5. n \in 1..arrived[a] /\ n > at[p].seq
  BY <1>2, <1>4
<1>6. ASSUME NEW k \in (at[p].seq + 1)..(n - 1)
      PROVE  <<a, k>> \in hidden
  <2>1. k \in 1..arrived[a] /\ k > at[p].seq /\ ~ (n <= k)
    BY <1>1, <1>5
  <2>2. k \notin Page(p)
    BY <1>4, <2>1
  <2>3. <<a, k>> \in archived
    BY <1>2, <2>1, <2>2
  <2> QED BY <2>3 DEF MailParts
<1> QED BY <1>5, <1>6 DEF n

LEMMA ListKeeps ==
  ASSUME MailParts, NEW p \in MailProcs, List(p)
  PROVE  MailParts'
<1>1. /\ place[p] = "listing"
      /\ UNCHANGED <<mailServer, vault, cursor, cred, handled, mailFaults>>
  BY DEF List
<1>2. /\ p = MailWorker /\ at[p] = cursor /\ cred[p] # NoCredential
      /\ cred[p].agent \in MailAgents
  BY <1>1, Polls
<1>3. CASE EndPass(p)
  BY <1>1, <1>2, <1>3, PassEnds
<1>4. CASE ~ EndPass(p)
  <2> DEFINE a == cred[p].agent
             n == Min(Page(p))
             r == [seq |-> n, seen |-> status[<<a, n>>]]
  <2>1. /\ at[p] # NoPosition => at[p].agent = a
        /\ Page(p) # {} /\ msg' = [msg EXCEPT ![p] = r]
        /\ Move(p, "reading") /\ at' = at
    BY <1>4 DEF List
  <2>2. /\ n \in 1..arrived[a] /\ n > at[p].seq
        /\ \A k \in (at[p].seq + 1)..(n - 1) : <<a, k>> \in hidden
    BY <1>1, <2>1, FirstOfPage
  <2> HIDE DEF n
  <2>3. n \in 1..MaxMail /\ n \in 0..MaxMail
    <3>1. arrived[a] \in 0..MaxMail
      BY <1>2 DEF MailParts, MailTypeOK
    <3> QED BY <2>2, <3>1, MailAssumption DEF MailAssumption
  <2>4. status[<<a, n>>] \in Lifecycle
    BY <1>2, <2>3 DEF MailParts, MailTypeOK, Mail
  <2>5. r \in [seq : 0..MaxMail, seen : Lifecycle \cup {"none"}] /\ r.seq = n
    BY <2>3, <2>4
  <2> HIDE DEF r
  <2>6. /\ msg' \in [MailProcs -> [seq : 0..MaxMail, seen : Lifecycle \cup {"none"}]]
        /\ msg'[p] = r
    BY <2>1, <2>5 DEF MailParts, MailTypeOK
  <2>7. /\ place' \in [MailProcs -> MailPlaces] /\ place'[p] = "reading"
        /\ \A q \in MailProcs \ {p} : place'[q] = place[q]
    BY <2>1, Moves DEF MailParts, MailPlaces
  <2>8. MailTypeOK'
    BY <1>1, <2>1, <2>6, <2>7 DEF MailParts, MailTypeOK, mailServer
  <2>9. CursorCoversHandled' /\ AckedHandled'
    BY <1>1, CursorStays, AckedStays DEF MailParts, mailServer
  <2>10. Credentialed' /\ OnlyWorkerPolls'
    BY <1>1, <1>2, <2>7 DEF MailParts, Credentialed, OnlyWorkerPolls
  <2>11. PassFollowsCursor'
    BY <1>1, <1>2, <2>1, <2>2, <2>5, <2>6, <2>7 DEF PassFollowsCursor, mailServer
  <2> QED BY <1>1, <2>8, <2>9, <2>10, <2>11 DEF MailParts, mailServer
<1> QED BY <1>3, <1>4

LEMMA ReadKeeps ==
  ASSUME MailParts, NEW p \in MailProcs, Read(p)
  PROVE  MailParts'
<1>1. /\ place[p] = "reading"
      /\ UNCHANGED <<arrived, archived, serverKey, keys, hidden, vault, cursor, cred,
                     handled, mailFaults>>
  BY DEF Read
<1>2. cred[p] # NoCredential /\ InHand(p) \in Mail
  BY <1>1, Polls, InHandIsMail
<1>3. /\ msg \in [MailProcs -> [seq : 0..MaxMail, seen : Lifecycle \cup {"none"}]]
      /\ status \in [Mail -> Lifecycle] /\ handled \subseteq Mail
  BY DEF MailParts, MailTypeOK
<1>4. CASE msg[p].seen # "delivered"
  <2>1. Move(p, "handling") /\ UNCHANGED <<status, at, msg>>
    BY <1>4 DEF Read
  <2> QED BY <1>1, <1>3, <2>1, PassGoesOn
<1>5. CASE msg[p].seen = "delivered" /\ Visible(p)
  <2> DEFINE s == IF status[InHand(p)] = "delivered" THEN "read" ELSE status[InHand(p)]
  <2>1. /\ status' = [status EXCEPT ![InHand(p)] = s]
        /\ msg' = [msg EXCEPT ![p].seen = status'[InHand(p)]]
        /\ Move(p, "handling") /\ at' = at
    BY <1>5 DEF Read
  <2>2. s \in Lifecycle /\ (s = "acked" => status[InHand(p)] = "acked")
    BY <1>2, <1>3 DEF Lifecycle
  <2> HIDE DEF s
  <2>3. /\ status' \in [Mail -> Lifecycle] /\ status'[InHand(p)] = s
        /\ \A m \in Mail : status'[m] = "acked" => status[m] = "acked"
    BY <1>2, <1>3, <2>1, <2>2
  <2>4. /\ msg' \in [MailProcs -> [seq : 0..MaxMail, seen : Lifecycle \cup {"none"}]]
        /\ msg'[p].seq = msg[p].seq
        /\ \A q \in MailProcs \ {p} : msg'[q] = msg[q]
    BY <1>3, <2>1, <2>2, <2>3
  <2> QED BY <1>1, <1>3, <2>1, <2>3, <2>4, PassGoesOn
<1>6. CASE msg[p].seen = "delivered" /\ ~ Visible(p)
  <2>1. EndPass(p) /\ status' = status
    BY <1>6 DEF Read
  <2> QED BY <1>1, <1>2, <2>1, PassEnds DEF mailServer
<1> QED BY <1>4, <1>5, <1>6

LEMMA HandleKeeps ==
  ASSUME MailParts, NEW p \in MailProcs, Handle(p)
  PROVE  MailParts'
<1>1. /\ place[p] = "handling"
      /\ UNCHANGED <<mailServer, vault, cursor, cred, mailFaults>>
  BY DEF Handle
<1>2. cred[p] # NoCredential /\ InHand(p) \in Mail
  BY <1>1, Polls, InHandIsMail
<1>3. CASE /\ handled' = handled \cup {InHand(p)}
           /\ Move(p, "acking") /\ UNCHANGED <<at, msg>>
  <2>1. handled' \subseteq Mail /\ handled \subseteq handled' /\ InHand(p) \in handled'
    BY <1>2, <1>3 DEF MailParts, MailTypeOK
  <2>2. /\ status' = status /\ status' \in [Mail -> Lifecycle]
        /\ msg' \in [MailProcs -> [seq : 0..MaxMail, seen : Lifecycle \cup {"none"}]]
    BY <1>1, <1>3 DEF MailParts, MailTypeOK, mailServer
  <2> QED BY <1>1, <1>3, <2>1, <2>2, PassGoesOn DEF mailServer
<1>4. CASE EndPass(p) /\ handled' = handled
  BY <1>1, <1>2, <1>4, PassEnds
<1> QED BY <1>3, <1>4 DEF Handle, Raises

LEMMA AckKeeps ==
  ASSUME MailParts, NEW p \in MailProcs, Ack(p)
  PROVE  MailParts'
<1>1. /\ place[p] = "acking"
      /\ UNCHANGED <<arrived, archived, serverKey, keys, hidden, vault, cursor, cred,
                     handled, mailFaults>>
  BY DEF Ack
<1>2. /\ cred[p] # NoCredential /\ InHand(p) \in Mail /\ p = MailWorker
      /\ InHand(p) \in handled
  BY <1>1, Polls, InHandIsMail DEF MailParts, PassFollowsCursor
<1>3. /\ msg \in [MailProcs -> [seq : 0..MaxMail, seen : Lifecycle \cup {"none"}]]
      /\ status \in [Mail -> Lifecycle] /\ handled \subseteq Mail
  BY DEF MailParts, MailTypeOK
<1>4. CASE EndPass(p) /\ status' = status
  BY <1>1, <1>2, <1>4, PassEnds DEF mailServer
<1>5. CASE /\ Move(p, "saving") /\ UNCHANGED <<at, msg>>
           /\ status' = status \/ status' = [status EXCEPT ![InHand(p)] = "acked"]
  <2>1. /\ status' \in [Mail -> Lifecycle]
        /\ \A m \in Mail : status'[m] = "acked" => status[m] = "acked" \/ m \in handled'
    BY <1>1, <1>2, <1>3, <1>5 DEF Lifecycle
  <2> QED BY <1>1, <1>2, <1>3, <1>5, <2>1, PassGoesOn
<1> QED BY <1>4, <1>5 DEF Ack

\* The cursor moves over what was archived to the message just handled.
LEMMA SaveCursorKeeps ==
  ASSUME MailParts, NEW p \in MailProcs, SaveCursor(p)
  PROVE  MailParts'
<1> DEFINE a == cred[p].agent
           n == msg[p].seq
           c == [agent |-> a, seq |-> n]
<1>1. /\ place[p] = "saving" /\ cursor' = c
      /\ UNCHANGED <<mailServer, vault, cred, handled, mailFaults>>
  BY DEF SaveCursor
<1>2. /\ p = MailWorker /\ at[p] = cursor /\ cred[p] # NoCredential /\ a \in MailAgents
      /\ InHand(p) = <<a, n>> /\ InHand(p) \in handled
  BY <1>1, Polls DEF MailParts, PassFollowsCursor, InHand
<1>3. /\ n \in 1..MaxMail /\ n > cursor.seq
      /\ cursor # NoPosition => cursor.agent = a
      /\ \A k \in (cursor.seq + 1)..(n - 1) : <<a, k>> \in hidden
  BY <1>1, <1>2, InHandIsMail
<1>4. c \in Positions /\ c.agent = a /\ c.seq = n
  BY <1>2, <1>3, MailAssumption DEF MailAssumption, Positions
<1>5. cursor.seq \in Nat
  BY MailAssumption DEF MailAssumption, MailParts, MailTypeOK, Positions, NoPosition
<1> HIDE DEF c
<1>6. CursorCoversHandled'
  <2>1. ASSUME NEW k \in 1..n
        PROVE  <<a, k>> \in handled \cup hidden
    <3>1. CASE k = n
      BY <1>2, <3>1
    <3>2. CASE k # n /\ k > cursor.seq
      BY <1>3, <1>5, <3>2
    <3>3. CASE k <= cursor.seq
      <4>1. cursor # NoPosition
        BY <3>3 DEF NoPosition
      <4> QED BY <1>3, <1>5, <3>3, <4>1 DEF MailParts, CursorCoversHandled
    <3> QED BY <1>3, <1>5, <3>1, <3>2, <3>3
  <2> QED BY <1>1, <1>4, <2>1 DEF CursorCoversHandled, mailServer
<1>7. /\ place' \in [MailProcs -> MailPlaces] /\ place'[p] \in {"connected", "listing"}
      /\ at' \in [MailProcs -> Positions \cup {NoPosition}]
      /\ place'[p] = "listing" => at'[p] = c
      /\ msg' \in [MailProcs -> [seq : 0..MaxMail, seen : Lifecycle \cup {"none"}]]
      /\ \A q \in MailProcs \ {p} : place'[q] = place[q]
  <2>1. CASE EndPass(p)
    BY <2>1, EndPassRests DEF MailParts
  <2>2. CASE /\ at' = [at EXCEPT ![p] = cursor'] /\ msg' = [msg EXCEPT ![p] = NoMail]
             /\ Move(p, "listing")
    <3>1. /\ place' \in [MailProcs -> MailPlaces] /\ place'[p] = "listing"
          /\ \A q \in MailProcs \ {p} : place'[q] = place[q]
      BY <2>2, Moves DEF MailParts, MailPlaces
    <3> QED BY <1>1, <1>4, <2>2, <3>1, MailTypes DEF MailParts
  <2> QED BY <2>1, <2>2 DEF SaveCursor
<1>8. MailTypeOK'
  BY <1>1, <1>4, <1>7 DEF MailParts, MailTypeOK, mailServer
<1>9. AckedHandled'
  BY <1>1, AckedStays DEF MailParts, mailServer
<1>10. Credentialed' /\ OnlyWorkerPolls'
  BY <1>1, <1>2, <1>7 DEF MailParts, Credentialed, OnlyWorkerPolls
<1>11. PassFollowsCursor'
  BY <1>1, <1>2, <1>7 DEF PassFollowsCursor
<1> QED BY <1>1, <1>6, <1>8, <1>9, <1>10, <1>11 DEF MailParts, mailServer

LEMMA MailNextKeeps ==
  ASSUME MailParts, [MailNext]_mailVars
  PROVE  MailParts'
<1>1. CASE \E a \in MailAgents : MailArrives(a)
  BY <1>1, MailArrivesKeeps
<1>2. CASE \E m \in Mail : ToggleArchive(m)
  BY <1>2, ToggleArchiveKeeps
<1>3. CASE \E p \in MailProcs : MailStep(p) \/ MailCrash(p)
  <2>1. PICK p \in MailProcs : MailStep(p) \/ MailCrash(p)
    BY <1>3
  <2> QED BY <2>1, ConnectManagedKeeps, PairKeeps, RotateKeeps, StoreCredentialKeeps,
             ForgetKeeps, RunOnceKeeps, ListKeeps, ReadKeeps, HandleKeeps, AckKeeps,
             SaveCursorKeeps DEF MailStep
<1>4. CASE UNCHANGED mailVars
  BY <1>4 DEF mailVars, mailServer, mailLocal, MailParts, MailTypeOK, CursorCoversHandled,
              AckedHandled, Credentialed, OnlyWorkerPolls, PassFollowsCursor, InHand
<1> QED BY <1>1, <1>2, <1>3, <1>4 DEF MailNext

\* What the polling worker keeps: run_once saves a cursor only over messages
\* it handled and messages the server hid, and acknowledges only what was
\* handled, for any number of processes, Agents, messages, keys and crashes.
THEOREM MailInvariant == MailSpec => [](MailInv /\ archived \subseteq hidden)
<1>1. MailInit => MailInd
  BY MailInitInd, MailIsParts
<1>2. MailInd /\ [MailNext]_mailVars => MailInd'
  BY MailNextKeeps, MailIsParts, MailIsPartsPrime
<1>3. MailInd => MailInv /\ archived \subseteq hidden
  BY DEF MailInd
<1> QED BY <1>1, <1>2, <1>3, PTL DEF MailSpec

\* The durable cursor of ConnectorWorker never passes a message of its inbox
\* that the handler has not finished, unless its thread was archived.
THEOREM CursorNeverSkips == MailSpec => []CursorCoversHandled
<1>1. MailInv /\ archived \subseteq hidden => CursorCoversHandled
  BY DEF MailInv
<1> QED BY <1>1, MailInvariant, PTL

-----------------------------------------------------------------------------
(* Releases on a host.                                                     *)

\* From the lock to its release: a server works on the directory of its aim.
Held == {"locked", "ensuring", "pip", "replacing", "verifying", "probing"}
ServerPlaces == {"starting", "watching", "fetched", "locked", "probing", "ready"}

\* What a process may rely on where it is.  The skill never has the lock nor
\* creates a directory it would move away; a server at work has the lock of
\* its release, a directory it would move away is not a verified one, and a
\* pointer about to be written names a verified tree.
InOrder(p) ==
  /\ p \in Skills => step[p] \notin ServerPlaces /\ ~ fresh[p]
  /\ step[p] \in Held \cup {"fetched", "ready"} => aim[p] \in Releases
  /\ p \in Servers /\ step[p] \in Held =>
       install[aim[p]] = p /\ (fresh[p] => tree[aim[p]] \notin marked)
  /\ step[p] = "ready" => tree[aim[p]] \in marked

\* A directory holds a tree made for its release, and a verified one is there.
TreesInPlace ==
  /\ marked \subseteq 1..trees
  /\ \A i \in 1..trees : born[i] \in Releases
  /\ \A v \in Releases : tree[v] # 0 => tree[v] <= trees /\ born[tree[v]] = v
  /\ \A i \in marked : tree[born[i]] = i

RunsVerified == \A p \in Servers : runs[p] # 0 => runs[p] \in marked

UpgradeInv ==
  /\ UpgradeTypeOK
  /\ TreesInPlace
  /\ \A p \in Processes : InOrder(p)
  /\ RunsVerified
  /\ PointerVerified

LEMMA UpgradeTypes ==
  ASSUME UpgradeTypeOK
  PROVE  /\ MaxTrees \in Nat /\ trees \in Nat /\ 1..trees \subseteq Trees
         /\ 0 \in 0..MaxTrees /\ 0 \in 0..MaxRelease /\ Releases \subseteq 0..MaxRelease
         /\ Trees \subseteq 0..MaxTrees /\ 0 \notin Releases /\ 0 \notin Trees
BY UpgradeAssumption DEF UpgradeAssumption, UpgradeTypeOK, Trees, Releases

\* Other processes keep what they rely on while p takes a step, if their locks
\* and the verified or created trees they are at stay.
LEMMA OthersInOrder ==
  ASSUME UpgradeInv, NEW p \in Processes,
         \A q \in Processes \ {p} :
           step'[q] = step[q] /\ aim'[q] = aim[q] /\ fresh'[q] = fresh[q],
         \A v \in Releases : \A q \in Servers \ {p} : install[v] = q => install'[v] = q,
         \A v \in Releases : tree[v] \in marked => tree'[v] \in marked',
         \A q \in Servers \ {p} : step[q] \in Held /\ fresh[q] => tree'[aim[q]] \notin marked'
  PROVE  \A q \in Processes \ {p} : InOrder(q)'
<1> SUFFICES ASSUME NEW q \in Processes \ {p} PROVE InOrder(q)'
  OBVIOUS
<1>1. step'[q] = step[q] /\ aim'[q] = aim[q] /\ fresh'[q] = fresh[q] /\ InOrder(q)
  BY DEF UpgradeInv
<1>2. q \in Skills => step'[q] \notin ServerPlaces /\ ~ fresh'[q]
  BY <1>1 DEF InOrder
<1>3. step'[q] \in Held \cup {"fetched", "ready"} => aim'[q] \in Releases
  BY <1>1 DEF InOrder
<1>4. q \in Servers /\ step'[q] \in Held =>
        install'[aim'[q]] = q /\ (fresh'[q] => tree'[aim'[q]] \notin marked')
  BY <1>1, <1>3 DEF InOrder
<1>5. step'[q] = "ready" => tree'[aim'[q]] \in marked'
  BY <1>1, <1>3 DEF InOrder
<1> QED BY <1>2, <1>3, <1>4, <1>5 DEF InOrder

\* Which is so when no directory changes.
LEMMA OthersUntouched ==
  ASSUME UpgradeInv, NEW p \in Processes,
         \A q \in Processes \ {p} :
           step'[q] = step[q] /\ aim'[q] = aim[q] /\ fresh'[q] = fresh[q],
         \A v \in Releases : \A q \in Servers \ {p} : install[v] = q => install'[v] = q,
         tree' = tree, marked' = marked
  PROVE  \A q \in Processes \ {p} : InOrder(q)'
<1>1. \A q \in Servers \ {p} : step[q] \in Held /\ fresh[q] => tree'[aim[q]] \notin marked'
  BY DEF UpgradeInv, InOrder, Processes
<1> QED BY <1>1, OthersInOrder

LEMMA Goes ==
  ASSUME UpgradeTypeOK, NEW p \in Processes, NEW s \in Steps, GoesTo(p, s)
  PROVE  /\ step' \in [Processes -> Steps] /\ step'[p] = s
         /\ \A q \in Processes \ {p} : step'[q] = step[q]
BY DEF UpgradeTypeOK, GoesTo

LEMMA LockReleased ==
  ASSUME UpgradeTypeOK, NEW p \in Processes, Unlocked(p)
  PROVE  /\ install' \in [Releases -> Servers \cup {NoProcess}]
         /\ \A v \in Releases : \A q \in Servers \ {p} : install[v] = q => install'[v] = q
BY UpgradeAssumption DEF UpgradeTypeOK, Unlocked

LEMMA ReturnsInOrder ==
  ASSUME UpgradeTypeOK, NEW p \in Processes, NEW s \in {"off", "watching"}, Returns(p, s),
         p \in Skills => s = "off"
  PROVE  /\ step' \in [Processes -> Steps] /\ aim' \in [Processes -> 0..MaxRelease]
         /\ fresh' \in [Processes -> BOOLEAN]
         /\ install' \in [Releases -> Servers \cup {NoProcess}]
         /\ \A v \in Releases : \A q \in Servers \ {p} : install[v] = q => install'[v] = q
         /\ \A q \in Processes \ {p} :
              step'[q] = step[q] /\ aim'[q] = aim[q] /\ fresh'[q] = fresh[q]
         /\ InOrder(p)'
<1>1. s \in Steps /\ GoesTo(p, s) /\ Unlocked(p)
      /\ aim' = [aim EXCEPT ![p] = 0] /\ fresh' = [fresh EXCEPT ![p] = FALSE]
  BY DEF Returns, Steps
<1>2. /\ step' \in [Processes -> Steps] /\ step'[p] = s
      /\ \A q \in Processes \ {p} : step'[q] = step[q]
  BY <1>1, Goes
<1>3. /\ install' \in [Releases -> Servers \cup {NoProcess}]
      /\ \A v \in Releases : \A q \in Servers \ {p} : install[v] = q => install'[v] = q
  BY <1>1, LockReleased
<1>4. /\ aim' \in [Processes -> 0..MaxRelease]
      /\ fresh' \in [Processes -> BOOLEAN] /\ fresh'[p] = FALSE
      /\ \A q \in Processes \ {p} : aim'[q] = aim[q] /\ fresh'[q] = fresh[q]
  BY <1>1, UpgradeTypes DEF UpgradeTypeOK
<1>5. InOrder(p)'
  BY <1>2, <1>4 DEF InOrder, Held, ServerPlaces
<1> QED BY <1>2, <1>3, <1>4, <1>5

LEMMA UpgradeInitInv == UpgradeInit => UpgradeInv
<1> SUFFICES ASSUME UpgradeInit PROVE UpgradeInv
  OBVIOUS
<1>1. UpgradeTypeOK
  BY UpgradeAssumption DEF UpgradeAssumption, UpgradeInit, UpgradeTypeOK, Steps
<1>2. TreesInPlace
  BY DEF UpgradeInit, TreesInPlace
<1>3. \A p \in Processes : InOrder(p)
  BY DEF UpgradeInit, InOrder, Held, ServerPlaces
<1> QED BY <1>1, <1>2, <1>3 DEF UpgradeInit, UpgradeInv, RunsVerified, PointerVerified, Processes

\* The files of a step that writes no directory, marker or pointer.
LEMMA FilesStay ==
  ASSUME UpgradeInv, UNCHANGED <<tree, born, marked, trees, pointer>>
  PROVE  TreesInPlace' /\ PointerVerified'
BY DEF UpgradeInv, TreesInPlace, PointerVerified

LEMMA PublishKeeps ==
  ASSUME UpgradeInv, NEW v \in Releases, Publish(v)
  PROVE  UpgradeInv'
<1>1. /\ published' = v
      /\ UNCHANGED <<tree, content, born, marked, trees, pointer, install, step, aim, fresh, runs>>
  BY DEF Publish
<1>2. UpgradeTypeOK'
  BY <1>1, UpgradeTypes DEF UpgradeInv, UpgradeTypeOK
<1>3. \A p \in Processes : InOrder(p)'
  BY <1>1 DEF UpgradeInv, InOrder
<1> QED BY <1>1, <1>2, <1>3, FilesStay DEF UpgradeInv, RunsVerified

LEMMA HostStartsKeeps ==
  ASSUME UpgradeInv, NEW p \in Processes, HostStarts(p)
  PROVE  UpgradeInv'
<1>1. /\ p \in Servers /\ GoesTo(p, "starting")
      /\ UNCHANGED <<published, tree, content, born, marked, trees, pointer>>
      /\ UNCHANGED <<install, aim, fresh, runs>>
  BY DEF HostStarts, Files
<1>2. /\ step' \in [Processes -> Steps] /\ step'[p] = "starting"
      /\ \A q \in Processes \ {p} : step'[q] = step[q]
  BY <1>1, Goes DEF UpgradeInv, Steps
<1>3. UpgradeTypeOK'
  BY <1>1, <1>2 DEF UpgradeInv, UpgradeTypeOK
<1>4. \A q \in Processes \ {p} : InOrder(q)'
  BY <1>1, <1>2, OthersUntouched
<1>5. InOrder(p)'
  BY <1>1, <1>2, UpgradeAssumption DEF UpgradeAssumption, InOrder, Held, ServerPlaces
<1> QED BY <1>1, <1>3, <1>4, <1>5, FilesStay DEF UpgradeInv, RunsVerified

LEMMA StartLatestKeeps ==
  ASSUME UpgradeInv, NEW p \in Processes, StartLatest(p)
  PROVE  UpgradeInv'
<1> DEFINE i == IF pointer = 0 THEN 0 ELSE tree[pointer]
<1>1. /\ step[p] = "starting"
      /\ UNCHANGED <<published, tree, content, born, marked, trees, pointer>>
      /\ UNCHANGED <<install, aim, fresh>>
  BY DEF StartLatest, Files
<1>2. p \in Servers
  BY <1>1 DEF UpgradeInv, InOrder, ServerPlaces, Processes
<1>3. CASE Runnable(i) /\ runs' = [runs EXCEPT ![p] = i] /\ step' = step
  <2>1. i \in marked /\ i \in 0..MaxTrees
    BY <1>3, UpgradeTypes DEF Runnable, UpgradeInv, UpgradeTypeOK
  <2> HIDE DEF i
  <2>2. /\ runs' \in [Processes -> 0..MaxTrees] /\ runs'[p] = i
        /\ \A q \in Processes \ {p} : runs'[q] = runs[q]
    BY <1>3, <2>1 DEF UpgradeInv, UpgradeTypeOK
  <2>3. UpgradeTypeOK'
    BY <1>1, <1>3, <2>2 DEF UpgradeInv, UpgradeTypeOK
  <2>4. RunsVerified'
    BY <1>1, <2>1, <2>2 DEF UpgradeInv, RunsVerified, Processes
  <2>5. \A q \in Processes : InOrder(q)'
    BY <1>1, <1>3 DEF UpgradeInv, InOrder
  <2> QED BY <1>1, <2>3, <2>4, <2>5, FilesStay DEF UpgradeInv
<1>4. CASE GoesTo(p, "watching") /\ runs' = runs
  <2>1. /\ step' \in [Processes -> Steps] /\ step'[p] = "watching"
        /\ \A q \in Processes \ {p} : step'[q] = step[q]
    BY <1>4, Goes DEF UpgradeInv, Steps
  <2>2. UpgradeTypeOK'
    BY <1>1, <1>4, <2>1 DEF UpgradeInv, UpgradeTypeOK
  <2>3. \A q \in Processes \ {p} : InOrder(q)'
    BY <1>1, <2>1, OthersUntouched
  <2>4. InOrder(p)'
    BY <1>2, <2>1, UpgradeAssumption DEF UpgradeAssumption, InOrder, Held, ServerPlaces
  <2> QED BY <1>1, <1>4, <2>2, <2>3, <2>4, FilesStay DEF UpgradeInv, RunsVerified
<1> QED BY <1>3, <1>4 DEF StartLatest

LEMMA FetchKeeps ==
  ASSUME UpgradeInv, NEW p \in Processes, Fetch(p)
  PROVE  UpgradeInv'
<1> DEFINE there == IF p \in Servers THEN "fetched" ELSE "ensuring"
<1>1. /\ published > ReleaseOf(runs[p]) /\ aim' = [aim EXCEPT ![p] = published]
      /\ GoesTo(p, there)
      /\ UNCHANGED <<published, tree, content, born, marked, trees, pointer>>
      /\ UNCHANGED <<install, fresh, runs>>
  BY DEF Fetch, Files
<1>2. published \in Releases
  <2>1. ReleaseOf(runs[p]) \in Nat
    <3>1. runs[p] \in 0..MaxTrees
      BY DEF UpgradeInv, UpgradeTypeOK
    <3>2. CASE runs[p] = 0
      BY <3>2 DEF ReleaseOf
    <3>3. CASE runs[p] # 0
      <4>1. runs[p] \in Trees
        BY <3>1, <3>3, UpgradeTypes DEF UpgradeInv, Trees
      <4>2. born[runs[p]] \in 0..MaxRelease
        BY <4>1 DEF UpgradeInv, UpgradeTypeOK
      <4> QED BY <3>3, <4>2 DEF ReleaseOf
    <3> QED BY <3>2, <3>3
  <2> QED BY <1>1, <2>1 DEF UpgradeInv, UpgradeTypeOK, Releases
<1>3. /\ there \in Steps /\ (p \in Skills => there = "ensuring")
      /\ (p \in Servers => there = "fetched")
  BY UpgradeAssumption DEF UpgradeAssumption, Steps
<1> HIDE DEF there
<1>4. /\ step' \in [Processes -> Steps] /\ step'[p] = there
      /\ \A q \in Processes \ {p} : step'[q] = step[q]
  BY <1>1, <1>3, Goes DEF UpgradeInv
<1>5. /\ aim' \in [Processes -> 0..MaxRelease] /\ aim'[p] = published
      /\ \A q \in Processes \ {p} : aim'[q] = aim[q]
  BY <1>1 DEF UpgradeInv, UpgradeTypeOK
<1>6. UpgradeTypeOK'
  BY <1>1, <1>4, <1>5 DEF UpgradeInv, UpgradeTypeOK
<1>7. \A q \in Processes \ {p} : InOrder(q)'
  BY <1>1, <1>4, <1>5, OthersUntouched
<1>8. InOrder(p)'
  BY <1>1, <1>2, <1>3, <1>4, <1>5, UpgradeAssumption
     DEF UpgradeAssumption, UpgradeInv, InOrder, Held, ServerPlaces, Processes
<1> QED BY <1>1, <1>6, <1>7, <1>8, FilesStay DEF UpgradeInv, RunsVerified

LEMMA LockInstallKeeps ==
  ASSUME UpgradeInv, NEW p \in Processes, LockInstall(p)
  PROVE  UpgradeInv'
<1>1. /\ step[p] = "fetched"
      /\ UNCHANGED <<published, tree, content, born, marked, trees, pointer, runs>>
  BY DEF LockInstall, Files
<1>2. p \in Servers /\ aim[p] \in Releases
  BY <1>1 DEF UpgradeInv, InOrder, ServerPlaces, Processes
<1>3. CASE /\ install[aim[p]] = NoProcess /\ install' = [install EXCEPT ![aim[p]] = p]
           /\ fresh' = [fresh EXCEPT ![p] = Here(p) = 0]
           /\ GoesTo(p, "locked") /\ aim' = aim
  <2>1. /\ step' \in [Processes -> Steps] /\ step'[p] = "locked"
        /\ \A q \in Processes \ {p} : step'[q] = step[q]
    BY <1>3, Goes DEF UpgradeInv, Steps
  <2>2. /\ install' \in [Releases -> Servers \cup {NoProcess}] /\ install'[aim[p]] = p
        /\ \A v \in Releases : \A q \in Servers \ {p} : install[v] = q => install'[v] = q
    BY <1>2, <1>3, UpgradeAssumption DEF UpgradeAssumption, UpgradeInv, UpgradeTypeOK
  <2>3. /\ fresh' \in [Processes -> BOOLEAN] /\ (fresh'[p] => tree[aim[p]] = 0)
        /\ \A q \in Processes \ {p} : fresh'[q] = fresh[q]
    BY <1>3 DEF UpgradeInv, UpgradeTypeOK, Here
  <2>4. UpgradeTypeOK'
    BY <1>1, <1>3, <2>1, <2>2, <2>3 DEF UpgradeInv, UpgradeTypeOK
  <2>5. \A q \in Processes \ {p} : InOrder(q)'
    BY <1>1, <1>3, <2>1, <2>2, <2>3, OthersUntouched
  <2>6. 0 \notin marked
    BY UpgradeTypes DEF UpgradeInv, UpgradeTypeOK
  <2>7. InOrder(p)'
    BY <1>1, <1>2, <1>3, <2>1, <2>2, <2>3, <2>6, UpgradeAssumption
       DEF UpgradeAssumption, InOrder, Held, ServerPlaces
  <2> QED BY <1>1, <2>4, <2>5, <2>7, FilesStay DEF UpgradeInv, RunsVerified
<1>4. CASE Returns(p, "watching")
  <2>1. /\ step' \in [Processes -> Steps] /\ aim' \in [Processes -> 0..MaxRelease]
        /\ fresh' \in [Processes -> BOOLEAN]
        /\ install' \in [Releases -> Servers \cup {NoProcess}]
        /\ \A v \in Releases : \A q \in Servers \ {p} : install[v] = q => install'[v] = q
        /\ \A q \in Processes \ {p} :
             step'[q] = step[q] /\ aim'[q] = aim[q] /\ fresh'[q] = fresh[q]
        /\ InOrder(p)'
    BY <1>2, <1>4, ReturnsInOrder, UpgradeAssumption DEF UpgradeAssumption, UpgradeInv
  <2>2. UpgradeTypeOK'
    BY <1>1, <2>1 DEF UpgradeInv, UpgradeTypeOK
  <2>3. \A q \in Processes \ {p} : InOrder(q)'
    BY <1>1, <2>1, OthersUntouched
  <2> QED BY <1>1, <2>1, <2>2, <2>3, FilesStay DEF UpgradeInv, RunsVerified
<1> QED BY <1>3, <1>4 DEF LockInstall

LEMMA InspectKeeps ==
  ASSUME UpgradeInv, NEW p \in Processes, Inspect(p)
  PROVE  UpgradeInv'
<1>1. /\ step[p] = "locked"
      /\ UNCHANGED <<published, tree, content, born, marked, trees, pointer, runs>>
  BY DEF Inspect, Files
<1>2. /\ p \in Servers /\ p \notin Skills /\ aim[p] \in Releases
      /\ install[aim[p]] = p /\ (fresh[p] => tree[aim[p]] \notin marked)
  BY <1>1, UpgradeAssumption
     DEF UpgradeAssumption, UpgradeInv, InOrder, ServerPlaces, Held, Processes
<1>3. CASE GoesTo(p, "ensuring") /\ UNCHANGED <<install, aim, fresh>>
  <2>1. /\ step' \in [Processes -> Steps] /\ step'[p] = "ensuring"
        /\ \A q \in Processes \ {p} : step'[q] = step[q]
    BY <1>3, Goes DEF UpgradeInv, Steps
  <2>2. UpgradeTypeOK'
    BY <1>1, <1>3, <2>1 DEF UpgradeInv, UpgradeTypeOK
  <2>3. \A q \in Processes \ {p} : InOrder(q)'
    BY <1>1, <1>3, <2>1, OthersUntouched
  <2>4. InOrder(p)'
    BY <1>1, <1>2, <1>3, <2>1 DEF InOrder, Held, ServerPlaces
  <2> QED BY <1>1, <2>2, <2>3, <2>4, FilesStay DEF UpgradeInv, RunsVerified
<1>4. CASE Runnable(Here(p)) /\ GoesTo(p, "ready") /\ Unlocked(p) /\ UNCHANGED <<aim, fresh>>
  <2>1. /\ step' \in [Processes -> Steps] /\ step'[p] = "ready"
        /\ \A q \in Processes \ {p} : step'[q] = step[q]
    BY <1>4, Goes DEF UpgradeInv, Steps
  <2>2. /\ install' \in [Releases -> Servers \cup {NoProcess}]
        /\ \A v \in Releases : \A q \in Servers \ {p} : install[v] = q => install'[v] = q
    BY <1>4, LockReleased DEF UpgradeInv
  <2>3. UpgradeTypeOK'
    BY <1>1, <1>4, <2>1, <2>2 DEF UpgradeInv, UpgradeTypeOK
  <2>4. \A q \in Processes \ {p} : InOrder(q)'
    BY <1>1, <1>4, <2>1, <2>2, OthersUntouched
  <2>5. InOrder(p)'
    BY <1>1, <1>2, <1>4, <2>1 DEF InOrder, Held, ServerPlaces, Runnable, Here
  <2> QED BY <1>1, <2>3, <2>4, <2>5, FilesStay DEF UpgradeInv, RunsVerified
<1>5. CASE Returns(p, "watching")
  <2>1. /\ step' \in [Processes -> Steps] /\ aim' \in [Processes -> 0..MaxRelease]
        /\ fresh' \in [Processes -> BOOLEAN]
        /\ install' \in [Releases -> Servers \cup {NoProcess}]
        /\ \A v \in Releases : \A q \in Servers \ {p} : install[v] = q => install'[v] = q
        /\ \A q \in Processes \ {p} :
             step'[q] = step[q] /\ aim'[q] = aim[q] /\ fresh'[q] = fresh[q]
        /\ InOrder(p)'
    BY <1>2, <1>5, ReturnsInOrder DEF UpgradeInv
  <2>2. UpgradeTypeOK'
    BY <1>1, <2>1 DEF UpgradeInv, UpgradeTypeOK
  <2>3. \A q \in Processes \ {p} : InOrder(q)'
    BY <1>1, <2>1, OthersUntouched
  <2> QED BY <1>1, <2>1, <2>2, <2>3, FilesStay DEF UpgradeInv, RunsVerified
<1> QED BY <1>3, <1>4, <1>5 DEF Inspect

\* A step of an install that goes on and changes no directory's name.
LEMMA InstallGoesOn ==
  ASSUME UpgradeInv, NEW p \in Processes, step[p] \in Held,
         NEW there \in {"pip", "replacing", "verifying", "probing", "connector"},
         GoesTo(p, there), p \in Skills => there # "probing",
         content' \in [Trees -> {"none", "venv", "installed"}],
         runs' \in [Processes -> 0..MaxTrees],
         \A q \in Servers : runs'[q] = runs[q],
         UNCHANGED <<published, tree, born, marked, trees, pointer, install, aim, fresh>>
  PROVE  UpgradeInv'
<1>1. /\ step' \in [Processes -> Steps] /\ step'[p] = there
      /\ \A q \in Processes \ {p} : step'[q] = step[q]
  BY Goes DEF UpgradeInv, Steps
<1>2. UpgradeTypeOK'
  BY <1>1 DEF UpgradeInv, UpgradeTypeOK
<1>3. \A q \in Processes \ {p} : InOrder(q)'
  BY <1>1, OthersUntouched
<1>4. InOrder(p)'
  BY <1>1 DEF UpgradeInv, InOrder, Held, ServerPlaces
<1>5. RunsVerified'
  BY DEF UpgradeInv, RunsVerified
<1> QED BY <1>2, <1>3, <1>4, <1>5, FilesStay DEF UpgradeInv

LEMMA PipKeeps ==
  ASSUME UpgradeInv, NEW p \in Processes, Pip(p) \/ Replace(p)
  PROVE  UpgradeInv'
<1>1. PICK k \in {"venv", "installed"} : content' = [content EXCEPT ![Here(p)] = k]
  BY DEF Pip, Replace
<1>2. PICK there \in {"replacing", "verifying"} : GoesTo(p, there)
  BY DEF Pip, Replace
<1>3. /\ step[p] \in Held
      /\ UNCHANGED <<published, tree, born, marked, trees, pointer, install, aim, fresh, runs>>
  BY DEF Pip, Replace, Held
<1>4. content' \in [Trees -> {"none", "venv", "installed"}]
  BY <1>1 DEF UpgradeInv, UpgradeTypeOK
<1>5. runs' \in [Processes -> 0..MaxTrees] /\ \A q \in Servers : runs'[q] = runs[q]
  BY <1>3 DEF UpgradeInv, UpgradeTypeOK
<1> QED BY <1>2, <1>3, <1>4, <1>5, InstallGoesOn

LEMMA VerifyKeeps ==
  ASSUME UpgradeInv, NEW p \in Processes, Verify(p)
  PROVE  UpgradeInv'
<1>1. /\ step[p] \in Held /\ step[p] = "verifying"
      /\ UNCHANGED <<published, tree, content, born, marked, trees, pointer, install, aim, fresh>>
  BY DEF Verify, Held, Files
<1>2. content' \in [Trees -> {"none", "venv", "installed"}]
  BY <1>1 DEF UpgradeInv, UpgradeTypeOK
<1>3. CASE p \in Servers
  <2>1. GoesTo(p, "probing") /\ runs' = runs
    BY <1>3 DEF Verify
  <2>2. p \notin Skills
    BY <1>3, UpgradeAssumption DEF UpgradeAssumption
  <2>3. runs' \in [Processes -> 0..MaxTrees] /\ \A q \in Servers : runs'[q] = runs[q]
    BY <2>1 DEF UpgradeInv, UpgradeTypeOK
  <2> QED BY <1>1, <1>2, <2>1, <2>2, <2>3, InstallGoesOn
<1>4. CASE p \notin Servers
  <2>1. GoesTo(p, "connector") /\ runs' = [runs EXCEPT ![p] = Here(p)]
    BY <1>4 DEF Verify
  <2>2. Here(p) \in 0..MaxTrees
    BY <1>1 DEF Here, UpgradeInv, UpgradeTypeOK, InOrder
  <2>3. runs' \in [Processes -> 0..MaxTrees] /\ \A q \in Servers : runs'[q] = runs[q]
    BY <1>4, <2>1, <2>2 DEF UpgradeInv, UpgradeTypeOK
  <2> QED BY <1>1, <1>2, <2>1, <2>3, InstallGoesOn
<1> QED BY <1>3, <1>4

\* A new directory holds a new tree, which nobody verified.
LEMMA EnsureKeeps ==
  ASSUME UpgradeInv, NEW p \in Processes, Ensure(p)
  PROVE  UpgradeInv'
<1>1. /\ step[p] = "ensuring" /\ step[p] \in Held
      /\ UNCHANGED <<published, marked, pointer, install, aim, fresh, runs>>
  BY DEF Ensure, Held
<1>2. aim[p] \in Releases
  BY <1>1 DEF UpgradeInv, InOrder
<1>3. CASE /\ \E there \in {"pip", "verifying"} : GoesTo(p, there)
           /\ UNCHANGED <<tree, content, born, trees>>
  <2>1. PICK there \in {"pip", "verifying"} : GoesTo(p, there)
    BY <1>3
  <2>2. /\ content' \in [Trees -> {"none", "venv", "installed"}]
        /\ runs' \in [Processes -> 0..MaxTrees] /\ \A q \in Servers : runs'[q] = runs[q]
    BY <1>1, <1>3 DEF UpgradeInv, UpgradeTypeOK
  <2> QED BY <1>1, <1>3, <2>1, <2>2, InstallGoesOn
<1>4. CASE /\ trees < MaxTrees /\ trees' = trees + 1 /\ Here(p) = 0
           /\ tree' = [tree EXCEPT ![aim[p]] = trees']
           /\ content' = [content EXCEPT ![trees'] = "venv"]
           /\ born' = [born EXCEPT ![trees'] = aim[p]]
           /\ GoesTo(p, "pip")
  <2>1. /\ step' \in [Processes -> Steps] /\ step'[p] = "pip"
        /\ \A q \in Processes \ {p} : step'[q] = step[q]
    BY <1>4, Goes DEF UpgradeInv, Steps
  <2>2. /\ trees \in Nat /\ trees' = trees + 1 /\ trees' \in Trees /\ trees' \in 0..MaxTrees
        /\ marked \subseteq 1..trees /\ trees' \notin marked
    BY <1>4, UpgradeTypes DEF UpgradeInv, TreesInPlace, Trees
  <2>3. /\ tree \in [Releases -> 0..MaxTrees] /\ born \in [Trees -> 0..MaxRelease]
        /\ content \in [Trees -> {"none", "venv", "installed"}]
        /\ aim[p] \in 0..MaxRelease /\ tree[aim[p]] = 0
    BY <1>4 DEF UpgradeInv, UpgradeTypeOK, Here
  <2>4. /\ tree' \in [Releases -> 0..MaxTrees] /\ tree'[aim[p]] = trees'
        /\ \A v \in Releases \ {aim[p]} : tree'[v] = tree[v]
    BY <1>2, <1>4, <2>2, <2>3
  <2>5. /\ born' \in [Trees -> 0..MaxRelease] /\ born'[trees'] = aim[p]
        /\ \A i \in Trees \ {trees'} : born'[i] = born[i]
        /\ content' \in [Trees -> {"none", "venv", "installed"}]
    BY <1>4, <2>2, <2>3
  <2>6. UpgradeTypeOK'
    BY <1>1, <2>1, <2>2, <2>4, <2>5 DEF UpgradeInv, UpgradeTypeOK
  <2>7. \A i \in 1..trees : i \in Trees \ {trees'}
    BY <2>2, UpgradeTypes DEF UpgradeInv
  <2>8. TreesInPlace'
    <3>1. marked' \subseteq 1..trees'
      BY <1>1, <2>2
    <3>2. \A i \in 1..trees' : born'[i] \in Releases
      BY <1>2, <2>2, <2>5, <2>7 DEF UpgradeInv, TreesInPlace
    <3>3. ASSUME NEW v \in Releases, tree'[v] # 0
          PROVE  tree'[v] <= trees' /\ born'[tree'[v]] = v
      <4>1. CASE v = aim[p]
        BY <2>2, <2>4, <2>5, <4>1
      <4>2. CASE v # aim[p]
        <5>1. /\ tree'[v] = tree[v] /\ tree[v] \in Nat /\ tree[v] <= trees
              /\ born[tree[v]] = v
          BY <2>3, <2>4, <3>3, <4>2 DEF UpgradeInv, TreesInPlace
        <5>2. tree[v] \in 1..trees
          BY <2>2, <3>3, <5>1
        <5> QED BY <2>2, <2>5, <2>7, <5>1, <5>2
      <4> QED BY <4>1, <4>2
    <3>4. ASSUME NEW i \in marked'
          PROVE  tree'[born'[i]] = i
      <4>1. i \in marked /\ i \in 1..trees /\ i # 0
        BY <1>1, <2>2, <3>4
      <4>2. tree[born[i]] = i /\ born[i] \in Releases /\ born'[i] = born[i]
        BY <2>5, <2>7, <4>1 DEF UpgradeInv, TreesInPlace
      <4>3. born[i] # aim[p]
        BY <2>3, <4>1, <4>2
      <4> QED BY <2>4, <4>2, <4>3
    <3> QED BY <3>1, <3>2, <3>3, <3>4 DEF TreesInPlace
  <2>9. \A v \in Releases : tree[v] \in marked => tree'[v] = tree[v]
    <3>1. 0 \notin marked
      BY <2>2
    <3> QED BY <2>3, <2>4, <3>1
  <2>10. \A q \in Servers \ {p} : step[q] \in Held /\ fresh[q] => tree'[aim[q]] \notin marked'
    <3> SUFFICES ASSUME NEW q \in Servers \ {p}, step[q] \in Held, fresh[q]
                 PROVE  tree'[aim[q]] \notin marked'
      OBVIOUS
    <3>1. aim[q] \in Releases /\ tree[aim[q]] \notin marked
      BY DEF UpgradeInv, InOrder, Processes
    <3> QED BY <1>1, <2>2, <2>4, <3>1
  <2>11. \A q \in Processes \ {p} : InOrder(q)'
    BY <1>1, <2>1, <2>9, <2>10, OthersInOrder
  <2>12. InOrder(p)'
    BY <1>1, <1>2, <2>1, <2>2, <2>4 DEF UpgradeInv, InOrder, Held, ServerPlaces
  <2>13. PointerVerified' /\ RunsVerified'
    BY <1>1, <2>9 DEF UpgradeInv, UpgradeTypeOK, PointerVerified, RunsVerified, Releases
  <2> QED BY <2>6, <2>8, <2>11, <2>12, <2>13 DEF UpgradeInv
<1> QED BY <1>3, <1>4 DEF Ensure

\* The tree that is marked is under the name of its release, and no other
\* server holds the lock of that release.
LEMMA ProbeKeeps ==
  ASSUME UpgradeInv, NEW p \in Processes, Probe(p)
  PROVE  UpgradeInv'
<1> DEFINE i == tree[aim[p]]
<1>1. /\ step[p] = "probing" /\ i # 0 /\ marked' = marked \cup {i}
      /\ GoesTo(p, "ready") /\ Unlocked(p)
      /\ UNCHANGED <<published, tree, content, born, trees, pointer, aim, fresh, runs>>
  BY DEF Probe, Here
<1>2. /\ p \in Servers /\ p \notin Skills /\ aim[p] \in Releases /\ install[aim[p]] = p
  BY <1>1 DEF UpgradeInv, InOrder, ServerPlaces, Held, Processes
<1>3. i \in 1..trees /\ born[i] = aim[p] /\ i \in Trees
  <2>1. i \in 0..MaxTrees
    BY <1>2 DEF UpgradeInv, UpgradeTypeOK
  <2> QED BY <1>1, <1>2, <2>1, UpgradeTypes DEF UpgradeInv, TreesInPlace
<1>4. /\ step' \in [Processes -> Steps] /\ step'[p] = "ready"
      /\ \A q \in Processes \ {p} : step'[q] = step[q]
  BY <1>1, Goes DEF UpgradeInv, Steps
<1>5. /\ install' \in [Releases -> Servers \cup {NoProcess}]
      /\ \A v \in Releases : \A q \in Servers \ {p} : install[v] = q => install'[v] = q
  BY <1>1, LockReleased DEF UpgradeInv
<1>6. UpgradeTypeOK'
  BY <1>1, <1>3, <1>4, <1>5 DEF UpgradeInv, UpgradeTypeOK
<1>7. TreesInPlace'
  BY <1>1, <1>3 DEF UpgradeInv, TreesInPlace
<1>8. \A q \in Servers \ {p} : step[q] \in Held /\ fresh[q] => tree'[aim[q]] \notin marked'
  <2> SUFFICES ASSUME NEW q \in Servers \ {p}, step[q] \in Held, fresh[q]
               PROVE  tree'[aim[q]] \notin marked'
    OBVIOUS
  <2>1. aim[q] \in Releases /\ tree[aim[q]] \notin marked /\ install[aim[q]] = q
    BY DEF UpgradeInv, InOrder, Processes
  <2>2. aim[q] # aim[p]
    BY <1>2, <2>1
  <2>3. tree[aim[q]] # i
    BY <1>1, <1>3, <2>1, <2>2 DEF UpgradeInv, TreesInPlace
  <2> QED BY <1>1, <2>1, <2>3
<1>9. \A q \in Processes \ {p} : InOrder(q)'
  BY <1>1, <1>4, <1>5, <1>8, OthersInOrder
<1>10. InOrder(p)'
  BY <1>1, <1>2, <1>4 DEF InOrder, Held, ServerPlaces
<1>11. PointerVerified' /\ RunsVerified'
  BY <1>1 DEF UpgradeInv, PointerVerified, RunsVerified
<1> QED BY <1>6, <1>7, <1>9, <1>10, <1>11 DEF UpgradeInv

\* The directory that is moved away is not a verified one.
LEMMA MovedUnverified ==
  ASSUME UpgradeInv, NEW p \in Processes, Fail(p)
  PROVE  /\ tree' \in [Releases -> 0..MaxTrees]
         /\ \A v \in Releases : tree'[v] = tree[v] \/ (tree'[v] = 0 /\ tree[v] \notin marked)
<1>1. step[p] \in Held /\ tree' = (IF fresh[p] THEN [tree EXCEPT ![aim[p]] = 0] ELSE tree)
  BY DEF Fail, Held, MovedAway
<1>2. tree \in [Releases -> 0..MaxTrees] /\ 0 \in 0..MaxTrees
  BY UpgradeTypes DEF UpgradeInv, UpgradeTypeOK
<1>3. CASE fresh[p]
  <2>1. p \in Servers /\ tree[aim[p]] \notin marked
    BY <1>1, <1>3 DEF UpgradeInv, InOrder, Processes
  <2> QED BY <1>1, <1>2, <1>3, <2>1
<1>4. CASE ~ fresh[p]
  BY <1>1, <1>2, <1>4
<1> QED BY <1>3, <1>4

LEMMA FailKeeps ==
  ASSUME UpgradeInv, NEW p \in Processes, Fail(p)
  PROVE  UpgradeInv'
<1> DEFINE there == IF p \in Servers THEN "watching" ELSE "off"
<1>1. /\ Returns(p, there)
      /\ UNCHANGED <<published, content, born, marked, trees, pointer, runs>>
  BY DEF Fail
<1>2. there \in {"off", "watching"} /\ (p \in Skills => there = "off")
  BY UpgradeAssumption DEF UpgradeAssumption
<1> HIDE DEF there
<1>3. /\ step' \in [Processes -> Steps] /\ aim' \in [Processes -> 0..MaxRelease]
      /\ fresh' \in [Processes -> BOOLEAN]
      /\ install' \in [Releases -> Servers \cup {NoProcess}]
      /\ \A v \in Releases : \A q \in Servers \ {p} : install[v] = q => install'[v] = q
      /\ \A q \in Processes \ {p} :
           step'[q] = step[q] /\ aim'[q] = aim[q] /\ fresh'[q] = fresh[q]
      /\ InOrder(p)'
  BY <1>1, <1>2, ReturnsInOrder DEF UpgradeInv
<1>4. /\ tree' \in [Releases -> 0..MaxTrees]
      /\ \A v \in Releases : tree'[v] = tree[v] \/ (tree'[v] = 0 /\ tree[v] \notin marked)
  BY MovedUnverified
<1>5. 0 \notin marked
  BY UpgradeTypes DEF UpgradeInv, UpgradeTypeOK
<1>6. UpgradeTypeOK'
  BY <1>1, <1>3, <1>4 DEF UpgradeInv, UpgradeTypeOK
<1>7. TreesInPlace'
  <2>1. ASSUME NEW i \in marked
        PROVE  tree'[born[i]] = i
    BY <1>4 DEF UpgradeInv, TreesInPlace
  <2>2. \A v \in Releases : tree'[v] # 0 => tree'[v] = tree[v]
    BY <1>4
  <2> QED BY <1>1, <2>1, <2>2 DEF UpgradeInv, TreesInPlace
<1>8. \A q \in Servers \ {p} : step[q] \in Held /\ fresh[q] => tree'[aim[q]] \notin marked'
  <2> SUFFICES ASSUME NEW q \in Servers \ {p}, step[q] \in Held, fresh[q]
               PROVE  tree'[aim[q]] \notin marked'
    OBVIOUS
  <2>1. aim[q] \in Releases /\ tree[aim[q]] \notin marked
    BY DEF UpgradeInv, InOrder, Processes
  <2> QED BY <1>1, <1>4, <1>5, <2>1
<1>9. \A q \in Processes \ {p} : InOrder(q)'
  BY <1>1, <1>3, <1>4, <1>8, OthersInOrder
<1>10. PointerVerified' /\ RunsVerified'
  BY <1>1, <1>4 DEF UpgradeInv, UpgradeTypeOK, PointerVerified, RunsVerified, Releases
<1> QED BY <1>3, <1>6, <1>7, <1>9, <1>10 DEF UpgradeInv

LEMMA WritePointerKeeps ==
  ASSUME UpgradeInv, NEW p \in Processes, WritePointer(p)
  PROVE  UpgradeInv'
<1>1. /\ step[p] = "ready" /\ pointer' = aim[p] /\ Returns(p, "watching")
      /\ UNCHANGED <<published, tree, content, born, marked, trees, runs>>
  BY DEF WritePointer
<1>2. /\ p \notin Skills /\ tree[aim[p]] \in marked /\ aim[p] \in 0..MaxRelease
  BY <1>1 DEF UpgradeInv, UpgradeTypeOK, InOrder, ServerPlaces
<1>3. /\ step' \in [Processes -> Steps] /\ aim' \in [Processes -> 0..MaxRelease]
      /\ fresh' \in [Processes -> BOOLEAN]
      /\ install' \in [Releases -> Servers \cup {NoProcess}]
      /\ \A v \in Releases : \A q \in Servers \ {p} : install[v] = q => install'[v] = q
      /\ \A q \in Processes \ {p} :
           step'[q] = step[q] /\ aim'[q] = aim[q] /\ fresh'[q] = fresh[q]
      /\ InOrder(p)'
  BY <1>1, <1>2, ReturnsInOrder DEF UpgradeInv
<1>4. UpgradeTypeOK'
  BY <1>1, <1>2, <1>3 DEF UpgradeInv, UpgradeTypeOK
<1>5. \A q \in Processes \ {p} : InOrder(q)'
  BY <1>1, <1>3, OthersUntouched
<1>6. TreesInPlace' /\ PointerVerified' /\ RunsVerified'
  BY <1>1, <1>2 DEF UpgradeInv, TreesInPlace, PointerVerified, RunsVerified
<1> QED BY <1>3, <1>4, <1>5, <1>6 DEF UpgradeInv

LEMMA ExitKeeps ==
  ASSUME UpgradeInv, NEW p \in Processes, Exit(p)
  PROVE  UpgradeInv'
<1>1. /\ Returns(p, "off") /\ runs' = [runs EXCEPT ![p] = 0]
      /\ UNCHANGED <<published, tree, content, born, marked, trees, pointer>>
  BY DEF Exit, Files
<1>2. /\ step' \in [Processes -> Steps] /\ aim' \in [Processes -> 0..MaxRelease]
      /\ fresh' \in [Processes -> BOOLEAN]
      /\ install' \in [Releases -> Servers \cup {NoProcess}]
      /\ \A v \in Releases : \A q \in Servers \ {p} : install[v] = q => install'[v] = q
      /\ \A q \in Processes \ {p} :
           step'[q] = step[q] /\ aim'[q] = aim[q] /\ fresh'[q] = fresh[q]
      /\ InOrder(p)'
  BY <1>1, ReturnsInOrder DEF UpgradeInv
<1>3. runs' \in [Processes -> 0..MaxTrees] /\ RunsVerified'
  BY <1>1, UpgradeTypes DEF UpgradeInv, UpgradeTypeOK, RunsVerified, Processes
<1>4. UpgradeTypeOK'
  BY <1>1, <1>2, <1>3 DEF UpgradeInv, UpgradeTypeOK
<1>5. \A q \in Processes \ {p} : InOrder(q)'
  BY <1>1, <1>2, OthersUntouched
<1> QED BY <1>1, <1>2, <1>3, <1>4, <1>5, FilesStay DEF UpgradeInv

LEMMA UpgradeNextKeeps ==
  ASSUME UpgradeInv, [UpgradeNext]_upgradeVars
  PROVE  UpgradeInv'
<1>1. CASE \E v \in Releases : Publish(v)
  BY <1>1, PublishKeeps
<1>2. CASE \E p \in Processes : UpgradeStep(p)
  <2>1. PICK p \in Processes : UpgradeStep(p)
    BY <1>2
  <2> QED BY <2>1, HostStartsKeeps, StartLatestKeeps, FetchKeeps, LockInstallKeeps,
             InspectKeeps, EnsureKeeps, PipKeeps, VerifyKeeps, ProbeKeeps, FailKeeps,
             WritePointerKeeps, ExitKeeps DEF UpgradeStep
<1>3. CASE UNCHANGED upgradeVars
  <2>1. /\ UNCHANGED <<published, tree, content, born, marked, trees, pointer>>
        /\ UNCHANGED <<install, step, aim, fresh, runs>>
    BY <1>3 DEF upgradeVars
  <2>2. UpgradeTypeOK' /\ RunsVerified'
    BY <2>1 DEF UpgradeInv, UpgradeTypeOK, RunsVerified
  <2>3. \A p \in Processes : InOrder(p)'
    BY <2>1 DEF UpgradeInv, InOrder
  <2> QED BY <2>1, <2>2, <2>3, FilesStay DEF UpgradeInv
<1> QED BY <1>1, <1>2, <1>3 DEF UpgradeNext

\* What prepare_upgrade, start_latest and the skill's bootstrap keep between
\* them, for any number of processes, releases and trees: the locks, the
\* created directories, the trees and their markers, current.json.
THEOREM UpgradeInvariant == UpgradeSpec => []UpgradeInv
<1>1. UpgradeInit => UpgradeInv
  BY UpgradeInitInv
<1>2. UpgradeInv /\ [UpgradeNext]_upgradeVars => UpgradeInv'
  BY UpgradeNextKeeps
<1> QED BY <1>1, <1>2, PTL DEF UpgradeSpec

\* No MCP process runs a tree that was never verified or that was moved away.
THEOREM ServersRunVerifiedTrees == UpgradeSpec => []OnlyVerifiedRun
<1>1. UpgradeInv => OnlyVerifiedRun
  BY DEF UpgradeInv, RunsVerified, TreesInPlace, OnlyVerifiedRun
<1> QED BY <1>1, UpgradeInvariant, PTL

\* current.json, written after the install lock is released, only ever names a
\* release whose directory holds a verified tree.
THEOREM PointerNamesVerified == UpgradeSpec => []PointerVerified
<1>1. UpgradeInv => PointerVerified
  BY DEF UpgradeInv
<1> QED BY <1>1, UpgradeInvariant, PTL

LEMMA VerifiedTreeStays ==
  ASSUME UpgradeInv, [UpgradeNext]_upgradeVars
  PROVE  \A v \in Releases : tree[v] \in marked => tree'[v] = tree[v]
<1>1. CASE \E p \in Processes : Fail(p)
  BY <1>1, MovedUnverified
<1>2. CASE \E p \in Processes : Ensure(p)
  <2>1. PICK p \in Processes : Ensure(p)
    BY <1>2
  <2>2. tree' = tree \/ (tree[aim[p]] = 0 /\ tree' = [tree EXCEPT ![aim[p]] = trees'])
    BY <2>1 DEF Ensure, Here
  <2>3. 0 \notin marked /\ tree \in [Releases -> 0..MaxTrees]
    BY UpgradeTypes DEF UpgradeInv, UpgradeTypeOK
  <2> QED BY <2>2, <2>3
<1>3. CASE ~ \E p \in Processes : Fail(p) \/ Ensure(p)
  <2>1. tree' = tree
    BY <1>3 DEF UpgradeNext, UpgradeStep, upgradeVars, Publish, HostStarts, StartLatest, Fetch,
                LockInstall, Inspect, Pip, Replace, Verify, Probe, WritePointer, Exit, Files
  <2> QED BY <2>1
<1> QED BY <1>1, <1>2, <1>3

\* A verified tree keeps its place: no failure of prepare_upgrade, however late
\* its process comes to it, moves away a release that others may already run.
THEOREM VerifiedTreesStay == UpgradeSpec => VerifiedStays
<1>1. UpgradeInv /\ [UpgradeNext]_upgradeVars =>
        [\A v \in Releases : tree[v] \in marked => tree'[v] = tree[v]]_upgradeVars
  BY VerifiedTreeStays
<1> QED BY <1>1, UpgradeInvariant, PTL DEF UpgradeSpec, VerifiedStays
=============================================================================

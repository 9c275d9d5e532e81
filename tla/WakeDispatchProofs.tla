------------------------- MODULE WakeDispatchProofs -------------------------
(***************************************************************************)
(* Proofs about WakeDispatch for every number of workers, requests and     *)
(* rows: the Human's notification channel is charged at most once a        *)
(* minute, what is recorded as delivered was accepted, and an Agent whose  *)
(* channel notifies a Human notifies at most once of a run.                *)
(***************************************************************************)
EXTENDS WakeDispatch, FiniteSetTheorems, TLAPS

\* The types of the state, without the bounds that TLC needs.
JobTypes == [pc : {"idle", "fetch", "next", "claim", "call"}, left : SUBSET Runs,
             locked : SUBSET Runs, at : Runs \union {"none"}, kind : Kinds \union {"none"},
             status : Statuses, seen : Nat, out : [Runs -> Writes],
             mark : {"none", "active", "error"}]

DeskTypes == {IdleDesk}
             \union [pc : {"testing"}, kind : Kinds \union {"none"}, status : Statuses]
             \union [pc : {"disabling"}, rows : SUBSET Runs]

Types ==
    /\ kind \in Kinds \union {"none"} /\ status \in Statuses /\ recent \in BOOLEAN
    /\ row \in [Runs -> RowStatuses]
    /\ attempts \in [Runs -> Nat] /\ due \subseteq Runs
    /\ job \in [Workers -> JobTypes]
    /\ desk \in [Desks -> DeskTypes]
    /\ charges \in Nat /\ minutes \in Nat

\* Calls and tests that were reserved and not made yet.
OwedCalls == {w \in Workers : job[w].pc = "call" /\ job[w].kind = "notify"}
OwedTests == {d \in Desks : desk[d].pc = "testing" /\ desk[d].kind = "notify"}

\* Every charge, made or owed, has a minute of its own.
ChargesCovered ==
    charges + Cardinality(OwedCalls) + Cardinality(OwedTests)
        <= minutes + (IF recent THEN 1 ELSE 0)

ChargeInv == Types /\ ChargesCovered

LEMMA OwedFinite ==
    /\ IsFiniteSet(OwedCalls) /\ Cardinality(OwedCalls) \in Nat
    /\ IsFiniteSet(OwedTests) /\ Cardinality(OwedTests) \in Nat
<1>1. IsFiniteSet(OwedCalls) /\ IsFiniteSet(OwedTests)
  BY ConstantsAssumption, FS_Subset DEF OwedCalls, OwedTests
<1> QED BY <1>1, FS_CardinalityType

LEMMA InitChargeInv == Init => ChargeInv
<1> SUFFICES ASSUME Init PROVE ChargeInv
  OBVIOUS
<1>1. Unwritten \in [Runs -> Writes]
  BY DEF Unwritten, Writes
<1>2. IdleJob \in JobTypes /\ IdleJob.pc = "idle"
  BY <1>1 DEF IdleJob, JobTypes, Statuses
<1>3. IdleDesk \in DeskTypes /\ IdleDesk.pc = "idle"
  BY DEF IdleDesk, DeskTypes
<1>4. Types
  BY <1>2, <1>3 DEF Init, Types, Statuses, RowStatuses
<1>5. OwedCalls = {} /\ OwedTests = {}
  BY <1>2, <1>3 DEF Init, OwedCalls, OwedTests
<1> QED BY <1>4, <1>5, FS_EmptySet DEF Init, ChargeInv, ChargesCovered

-----------------------------------------------------------------------------
(* What each kind of step does to the charges that are owed.               *)

\* Nothing is reserved, paid or forgotten.
LEMMA NothingOwed ==
    ASSUME ChargesCovered, UNCHANGED <<recent, charges, minutes>>,
           OwedCalls' = OwedCalls, OwedTests' = OwedTests
    PROVE  ChargesCovered'
BY DEF ChargesCovered

\* A worker or a request stops before it pays.
LEMMA OwedLost ==
    ASSUME ChargeInv, UNCHANGED <<recent, charges, minutes>>,
           OwedCalls' \subseteq OwedCalls, OwedTests' \subseteq OwedTests
    PROVE  ChargesCovered'
<1>1. /\ Cardinality(OwedCalls') <= Cardinality(OwedCalls) /\ Cardinality(OwedCalls') \in Nat
      /\ Cardinality(OwedTests') <= Cardinality(OwedTests) /\ Cardinality(OwedTests') \in Nat
  BY OwedFinite, FS_Subset, FS_CardinalityType
<1> QED BY <1>1, OwedFinite DEF ChargeInv, Types, ChargesCovered

\* One reservation, in a minute that had none.
LEMMA CallReserved ==
    ASSUME ChargeInv, NEW w \in Workers, ~recent, recent', UNCHANGED <<charges, minutes>>,
           OwedCalls' = OwedCalls \union {w}, OwedTests' = OwedTests
    PROVE  ChargesCovered'
<1>1. /\ IsFiniteSet(OwedCalls \union {w})
      /\ Cardinality(OwedCalls \union {w}) = IF w \in OwedCalls THEN Cardinality(OwedCalls)
                                                             ELSE Cardinality(OwedCalls) + 1
  BY OwedFinite, FS_AddElement
<1>2. Cardinality(OwedCalls') \in Nat /\ Cardinality(OwedCalls') <= Cardinality(OwedCalls) + 1
  BY <1>1, OwedFinite
<1> QED BY <1>2, OwedFinite DEF ChargeInv, Types, ChargesCovered

LEMMA TestReserved ==
    ASSUME ChargeInv, NEW d \in Desks, ~recent, recent', UNCHANGED <<charges, minutes>>,
           OwedCalls' = OwedCalls, OwedTests' = OwedTests \union {d}
    PROVE  ChargesCovered'
<1>1. /\ IsFiniteSet(OwedTests \union {d})
      /\ Cardinality(OwedTests \union {d}) = IF d \in OwedTests THEN Cardinality(OwedTests)
                                                             ELSE Cardinality(OwedTests) + 1
  BY OwedFinite, FS_AddElement
<1>2. Cardinality(OwedTests') \in Nat /\ Cardinality(OwedTests') <= Cardinality(OwedTests) + 1
  BY <1>1, OwedFinite
<1> QED BY <1>2, OwedFinite DEF ChargeInv, Types, ChargesCovered

\* One reservation is paid.
LEMMA CallPaid ==
    ASSUME ChargeInv, NEW w \in OwedCalls, charges' = charges + 1, UNCHANGED <<recent, minutes>>,
           OwedCalls' = OwedCalls \ {w}, OwedTests' = OwedTests
    PROVE  ChargesCovered'
<1>1. Cardinality(OwedCalls') = Cardinality(OwedCalls) - 1
  BY OwedFinite, FS_RemoveElement
<1> QED BY <1>1, OwedFinite DEF ChargeInv, Types, ChargesCovered

LEMMA TestPaid ==
    ASSUME ChargeInv, NEW d \in OwedTests, charges' = charges + 1, UNCHANGED <<recent, minutes>>,
           OwedCalls' = OwedCalls, OwedTests' = OwedTests \ {d}
    PROVE  ChargesCovered'
<1>1. Cardinality(OwedTests') = Cardinality(OwedTests) - 1
  BY OwedFinite, FS_RemoveElement
<1> QED BY <1>1, OwedFinite DEF ChargeInv, Types, ChargesCovered

-----------------------------------------------------------------------------
(* The types, step by step.                                                *)

LEMMA Writing ==
    ASSUME Types, NEW out \in [Runs -> Writes]
    PROVE  Flushed(out) \in [Runs -> RowStatuses]
BY DEF Types, Flushed, Writes, Outcomes, RowStatuses

LEMMA Idle ==
    /\ IdleJob \in JobTypes /\ IdleJob.pc = "idle"
    /\ IdleDesk \in DeskTypes /\ IdleDesk.pc = "idle"
    /\ Unwritten \in [Runs -> Writes]
<1>1. Unwritten \in [Runs -> Writes]
  BY DEF Unwritten, Writes
<1>2. IdleJob \in JobTypes /\ IdleJob.pc = "idle"
  BY <1>1 DEF IdleJob, JobTypes, Statuses
<1> QED BY <1>1, <1>2 DEF IdleDesk, DeskTypes

\* A step of one worker's iteration: its new job, and what it owes.
LEMMA JobStep ==
    ASSUME Types, NEW w \in Workers, NEW j \in JobTypes, job' = [job EXCEPT ![w] = j]
    PROVE  /\ job' \in [Workers -> JobTypes]
           /\ (UNCHANGED desk => OwedTests' = OwedTests)
           /\ (j.pc = "call" /\ j.kind = "notify" => OwedCalls' = OwedCalls \union {w})
           /\ (j.pc # "call" \/ j.kind # "notify" => OwedCalls' = OwedCalls \ {w})
           /\ (j.pc # "call" /\ job[w].pc # "call" => OwedCalls' = OwedCalls)
           /\ (j.kind # "notify" /\ job[w].pc # "call" => OwedCalls' = OwedCalls)
<1>1. /\ job' \in [Workers -> JobTypes]
      /\ job'[w] = j
      /\ \A v \in Workers : v # w => job'[v] = job[v]
  BY DEF Types
<1>2. UNCHANGED desk => OwedTests' = OwedTests
  BY DEF OwedTests
<1>3. j.pc = "call" /\ j.kind = "notify" => OwedCalls' = OwedCalls \union {w}
  BY <1>1 DEF OwedCalls
<1>4. j.pc # "call" \/ j.kind # "notify" => OwedCalls' = OwedCalls \ {w}
  BY <1>1 DEF OwedCalls
<1>5. (j.pc # "call" \/ j.kind # "notify") /\ job[w].pc # "call" => OwedCalls' = OwedCalls
  BY <1>1 DEF OwedCalls
<1> QED BY <1>1, <1>2, <1>3, <1>4, <1>5

\* A step of one of the Human's requests.
LEMMA DeskStep ==
    ASSUME Types, NEW d \in Desks, NEW t \in DeskTypes, desk' = [desk EXCEPT ![d] = t]
    PROVE  /\ desk' \in [Desks -> DeskTypes]
           /\ (UNCHANGED job => OwedCalls' = OwedCalls)
           /\ (t.pc = "testing" /\ t.kind = "notify" => OwedTests' = OwedTests \union {d})
           /\ (t.pc # "testing" \/ t.kind # "notify" => OwedTests' = OwedTests \ {d})
           /\ (t.pc # "testing" /\ desk[d].pc # "testing" => OwedTests' = OwedTests)
           /\ (t.kind # "notify" /\ desk[d].pc # "testing" => OwedTests' = OwedTests)
           /\ (t.pc # "testing" /\ desk[d].kind # "notify" => OwedTests' = OwedTests)
<1>1. /\ desk' \in [Desks -> DeskTypes]
      /\ desk'[d] = t
      /\ \A e \in Desks : e # d => desk'[e] = desk[e]
  BY DEF Types
<1>2. UNCHANGED job => OwedCalls' = OwedCalls
  BY DEF OwedCalls
<1>3. t.pc = "testing" /\ t.kind = "notify" => OwedTests' = OwedTests \union {d}
  BY <1>1 DEF OwedTests
<1>4. t.pc # "testing" \/ t.kind # "notify" => OwedTests' = OwedTests \ {d}
  BY <1>1 DEF OwedTests
<1>5. /\ t.pc # "testing" \/ t.kind # "notify"
      /\ desk[d].pc # "testing" \/ desk[d].kind # "notify"
      => OwedTests' = OwedTests
  BY <1>1 DEF OwedTests
<1> QED BY <1>1, <1>2, <1>3, <1>4, <1>5

\* Steps of an iteration that neither reserve nor pay.
LEMMA QuietStep ==
    ASSUME ChargeInv, NEW w \in Workers, NEW j \in JobTypes, job' = [job EXCEPT ![w] = j],
           job[w].pc # "call", j.pc # "call",
           UNCHANGED <<kind, recent, attempts, desk, charges, minutes>>, due' \subseteq Runs,
           status' \in Statuses, row' \in [Runs -> RowStatuses]
    PROVE  ChargeInv'
<1>1. OwedCalls' = OwedCalls /\ OwedTests' = OwedTests /\ job' \in [Workers -> JobTypes]
  BY JobStep DEF ChargeInv
<1> QED BY <1>1, NothingOwed DEF ChargeInv, Types

LEMMA SweepStep ==
    ASSUME ChargeInv, NEW w \in Workers, Sweep(w)
    PROVE  ChargeInv'
<1> DEFINE j == [job[w] EXCEPT !.pc = "fetch"]
<1>1. j \in JobTypes /\ j.pc = "fetch"
  BY DEF ChargeInv, Types, JobTypes
<1>2. job[w].pc = "idle" /\ job' = [job EXCEPT ![w] = j]
  BY DEF Sweep
<1>3. status' \in Statuses
  BY DEF Sweep, ChargeInv, Types, Statuses
<1>4. row' \in [Runs -> RowStatuses]
  BY DEF Sweep, Swept, ChargeInv, Types, RowStatuses, Outcomes
<1>5. due' \subseteq Runs
  BY DEF Sweep, ChargeInv, Types
<1> QED BY <1>1, <1>2, <1>3, <1>4, <1>5, QuietStep DEF Sweep, past

\* Steps that change nothing but the worker's own job.
LEMMA OwnStep ==
    ASSUME ChargeInv, NEW w \in Workers, NEW j \in JobTypes, job' = [job EXCEPT ![w] = j],
           job[w].pc # "call", j.pc # "call", UNCHANGED <<db, run, desk, past>>
    PROVE  ChargeInv'
<1>1. status' \in Statuses /\ row' \in [Runs -> RowStatuses] /\ due' \subseteq Runs
  BY DEF ChargeInv, Types, db
<1> QED BY <1>1, QuietStep DEF db, past

LEMMA FetchStep ==
    ASSUME ChargeInv, NEW w \in Workers, Fetch(w)
    PROVE  ChargeInv'
<1> DEFINE found == {r \in due : row[r] = "pending" /\ Free(w, {r})}
           j     == [job[w] EXCEPT !.pc = "next", !.left = found, !.locked = found]
<1>1. found \subseteq Runs
  BY DEF ChargeInv, Types
<1> HIDE DEF found
<1>2. j \in JobTypes /\ j.pc = "next"
  BY ZenonT(60), <1>1 DEF ChargeInv, Types, JobTypes
<1>3. job[w].pc = "fetch" /\ job' = [job EXCEPT ![w] = j]
  BY DEF Fetch, found
<1> QED BY <1>2, <1>3, OwnStep DEF Fetch

LEMMA SkipStep ==
    ASSUME ChargeInv, NEW w \in Workers, NEW r \in Runs, Skip(w, r)
    PROVE  ChargeInv'
<1> DEFINE j == [job[w] EXCEPT !.left = @ \ {r}]
<1>1. j \in JobTypes /\ j.pc = job[w].pc
  BY SMTT(60) DEF ChargeInv, Types, JobTypes
<1>2. job[w].pc = "next" /\ job' = [job EXCEPT ![w] = j]
  BY DEF Skip
<1> QED BY <1>1, <1>2, OwnStep DEF Skip

LEMMA DropStep ==
    ASSUME ChargeInv, NEW w \in Workers, NEW r \in Runs, Drop(w, r)
    PROVE  ChargeInv'
<1> DEFINE j == [job[w] EXCEPT !.left = @ \ {r}, !.mark = "none", !.out[r] = "cancelled"]
<1>0. job[w] \in JobTypes /\ "cancelled" \in Writes
  BY DEF ChargeInv, Types, Writes, Outcomes
<1>1. j \in JobTypes /\ j.pc = job[w].pc
  BY <1>0 DEF JobTypes
<1>2. job[w].pc = "next" /\ job' = [job EXCEPT ![w] = j]
  BY DEF Drop
<1> QED BY <1>1, <1>2, OwnStep DEF Drop

LEMMA LookStep ==
    ASSUME ChargeInv, NEW w \in Workers, NEW r \in Runs, Look(w, r)
    PROVE  ChargeInv'
<1> DEFINE j == [job[w] EXCEPT !.pc = "claim", !.left = @ \ {r}, !.at = r, !.kind = kind,
                               !.status = status, !.seen = attempts[r], !.mark = "none"]
<1>1. j \in JobTypes /\ j.pc = "claim"
  BY ZenonT(60) DEF ChargeInv, Types, JobTypes
<1>2. job[w].pc = "next" /\ job' = [job EXCEPT ![w] = j]
  BY DEF Look
<1> QED BY <1>1, <1>2, OwnStep DEF Look

LEMMA DeferStep ==
    ASSUME ChargeInv, NEW w \in Workers, Defer(w)
    PROVE  ChargeInv'
<1> DEFINE j == [job[w] EXCEPT !.pc = "next", !.out[job[w].at] = "later"]
<1>1. j \in JobTypes /\ j.pc = "next"
  BY ZenonT(60) DEF ChargeInv, Types, JobTypes, Writes
<1>2. job[w].pc = "claim" /\ job' = [job EXCEPT ![w] = j]
  BY DEF Defer
<1> QED BY <1>1, <1>2, OwnStep DEF Defer

LEMMA LoseStep ==
    ASSUME ChargeInv, NEW w \in Workers, Lose(w)
    PROVE  ChargeInv'
<1> DEFINE j == [job[w] EXCEPT !.pc = "next", !.locked = {}, !.out = Unwritten, !.mark = "none"]
<1>1. j \in JobTypes /\ j.pc = "next"
  BY Idle DEF ChargeInv, Types, JobTypes
<1>2. job[w].pc = "claim" /\ job' = [job EXCEPT ![w] = j]
  BY DEF Lose
<1> QED BY <1>1, <1>2, OwnStep DEF Lose

LEMMA FinishStep ==
    ASSUME ChargeInv, NEW w \in Workers, Finish(w)
    PROVE  ChargeInv'
<1>1. job[w] \in JobTypes
  BY DEF ChargeInv, Types
<1>2. row' \in [Runs -> RowStatuses]
  BY <1>1, Writing DEF Finish, ChargeInv, JobTypes
<1>3. due' \subseteq Runs
  BY DEF Finish, Postponed, ChargeInv, Types
<1>4. status' \in Statuses
  BY <1>1 DEF Finish, JobTypes, ChargeInv, Types, Statuses
<1> QED BY <1>2, <1>3, <1>4, Idle, QuietStep DEF Finish, past

\* The conditional UPDATE of last_dispatch_at is what a claim pays with.
LEMMA ClaimStep ==
    ASSUME ChargeInv, NEW w \in Workers, Claim(w)
    PROVE  ChargeInv'
<1> DEFINE j == [job[w] EXCEPT !.pc = "call", !.locked = {}, !.out = Unwritten]
<1>1. job[w] \in JobTypes
  BY DEF ChargeInv, Types
<1>2. j \in JobTypes /\ j.pc = "call" /\ j.kind = job[w].kind
  BY <1>1, Idle DEF JobTypes
<1>3. job[w].pc = "claim" /\ job' = [job EXCEPT ![w] = j]
  BY DEF Claim
<1>4. row' \in [Runs -> RowStatuses]
  <2>1. Flushed(job[w].out) \in [Runs -> RowStatuses]
    BY <1>1, Writing DEF ChargeInv, JobTypes
  <2> QED BY <2>1 DEF Claim, RowStatuses
<1>5. due' \subseteq Runs /\ attempts' \in [Runs -> Nat] /\ recent' \in BOOLEAN
  <2>1. due' \subseteq Runs
    BY DEF Claim, Postponed, ChargeInv, Types
  <2>2. job[w].seen + 1 \in Nat
    BY <1>1 DEF JobTypes
  <2>3. attempts' \in [Runs -> Nat]
    BY <2>2 DEF Claim, ChargeInv, Types
  <2>4. recent' \in BOOLEAN
    BY DEF Claim
  <2> QED BY <2>1, <2>3, <2>4
<1>6. /\ job' \in [Workers -> JobTypes]
      /\ OwedTests' = OwedTests
      /\ job[w].kind = "notify" => OwedCalls' = OwedCalls \union {w}
      /\ job[w].kind # "notify" => OwedCalls' = OwedCalls
  <2>1. UNCHANGED desk /\ Types
    BY DEF Claim, ChargeInv
  <2> HIDE DEF j
  <2> QED BY ZenonT(60), <1>2, <1>3, <2>1, JobStep
<1>7. Types'
  BY <1>4, <1>5, <1>6 DEF Claim, past, ChargeInv, Types
<1>8. ChargesCovered'
  <2>1. CASE job[w].kind = "notify"
    BY <1>6, <2>1, CallReserved DEF Claim, Reserved, past, ChargeInv, Types
  <2>2. CASE job[w].kind # "notify"
    BY <1>6, <2>2, NothingOwed DEF Claim, past, ChargeInv, Types
  <2> QED BY <2>1, <2>2
<1> QED BY <1>7, <1>8 DEF ChargeInv

LEMMA CallStep ==
    ASSUME ChargeInv, NEW w \in Workers, NEW reply \in Replies, Call(w, reply)
    PROVE  ChargeInv'
<1> DEFINE o == OutcomeOf(w, reply)
           m == Mark(o, job[w].status)
           j == [job[w] EXCEPT !.pc = "next", !.out[job[w].at] = o, !.mark = m]
<1>1. job[w] \in JobTypes
  BY DEF ChargeInv, Types
<1>2. o \in Writes /\ m \in {"none", "active", "error"}
  BY DEF OutcomeOf, Writes, Outcomes, Mark
<1> HIDE DEF o, m
<1>3. j \in JobTypes /\ j.pc = "next"
  BY <1>1, <1>2 DEF JobTypes
<1>4. job[w].pc = "call" /\ job' = [job EXCEPT ![w] = j]
  BY DEF Call, o, m
<1>5. /\ job' \in [Workers -> JobTypes]
      /\ OwedTests' = OwedTests
      /\ OwedCalls' = OwedCalls \ {w}
      /\ w \in OwedCalls <=> job[w].kind = "notify"
  BY <1>3, <1>4, JobStep DEF Call, ChargeInv, OwedCalls
<1>6. charges' = charges + Paid(job[w].kind) /\ UNCHANGED <<recent, minutes>>
  BY DEF Call, db
<1>7. Types'
  BY <1>5, <1>6 DEF Call, db, Paid, ChargeInv, Types
<1>8. ChargesCovered'
  <2>1. CASE job[w].kind = "notify"
    BY <1>5, <1>6, <2>1, CallPaid DEF Paid
  <2>2. CASE job[w].kind # "notify"
    BY <1>5, <1>6, <2>2, NothingOwed DEF Paid, ChargeInv, Types
  <2> QED BY <2>1, <2>2
<1> QED BY <1>7, <1>8 DEF ChargeInv

LEMMA CrashStep ==
    ASSUME ChargeInv, NEW w \in Workers, Crash(w)
    PROVE  ChargeInv'
<1>1. job' \in [Workers -> JobTypes] /\ OwedTests' = OwedTests /\ OwedCalls' \subseteq OwedCalls
  BY Idle, JobStep DEF Crash, ChargeInv
<1> QED BY <1>1, OwedLost DEF Crash, db, ChargeInv, Types

-----------------------------------------------------------------------------
(* The Human's requests, and time.                                         *)

LEMMA HumanStep ==
    ASSUME ChargeInv, Human
    PROVE  ChargeInv'
<1>1. ASSUME NEW k \in Kinds, Configure(k) PROVE ChargeInv'
  <2>1. OwedCalls' = OwedCalls /\ OwedTests' = OwedTests
    BY <1>1 DEF Configure, OwedCalls, OwedTests
  <2>2. row' \in [Runs -> RowStatuses]
    BY <1>1 DEF Configure, ChargeInv, Types, RowStatuses, Outcomes
  <2>3. due' \subseteq Runs
    BY <1>1 DEF Configure, Missed, ChargeInv, Types
  <2>4. Types'
    BY <1>1, <2>2, <2>3 DEF Configure, ChargeInv, Types, Statuses
  <2> QED BY <1>1, <2>1, <2>4, NothingOwed DEF Configure, ChargeInv
<1>2. ASSUME NEW d \in Desks, TestBegin(d) PROVE ChargeInv'
  <2> DEFINE t == [pc |-> "testing", kind |-> kind, status |-> status]
  <2>1. t \in DeskTypes
    BY DEF DeskTypes, ChargeInv, Types
  <2>2. /\ desk' \in [Desks -> DeskTypes]
        /\ OwedCalls' = OwedCalls
        /\ kind = "notify" => OwedTests' = OwedTests \union {d}
        /\ kind # "notify" => OwedTests' = OwedTests
    BY <1>2, <2>1, Idle, DeskStep DEF TestBegin, ChargeInv
  <2>3. Types'
    BY <1>2, <2>2 DEF TestBegin, past, ChargeInv, Types
  <2>4. CASE kind = "notify"
    BY <1>2, <2>2, <2>3, <2>4, TestReserved DEF TestBegin, Reserved, past, ChargeInv, Types
  <2>5. CASE kind # "notify"
    BY <1>2, <2>2, <2>3, <2>5, NothingOwed DEF TestBegin, past, ChargeInv, Types
  <2> QED BY <2>4, <2>5
<1>3. ASSUME NEW d \in Desks, NEW reply \in Replies, TestEnd(d, reply) PROVE ChargeInv'
  <2>1. /\ desk' \in [Desks -> DeskTypes]
        /\ OwedCalls' = OwedCalls /\ OwedTests' = OwedTests \ {d}
        /\ d \in OwedTests <=> desk[d].kind = "notify"
    BY <1>3, Idle, DeskStep DEF TestEnd, ChargeInv, OwedTests
  <2>2. charges' = charges + Paid(desk[d].kind) /\ UNCHANGED <<recent, minutes>>
    BY <1>3 DEF TestEnd
  <2>3. status' \in Statuses
    BY <1>3 DEF TestEnd, Mark, ChargeInv, Types, Statuses
  <2>4. Types'
    BY <1>3, <2>1, <2>2, <2>3 DEF TestEnd, Paid, ChargeInv, Types
  <2>5. CASE desk[d].kind = "notify"
    BY <2>1, <2>2, <2>4, <2>5, TestPaid DEF Paid, ChargeInv
  <2>6. CASE desk[d].kind # "notify"
    BY <2>1, <2>2, <2>4, <2>6, NothingOwed DEF Paid, ChargeInv, Types
  <2> QED BY <2>5, <2>6
<1>4. ASSUME NEW d \in Desks, Abandon(d) PROVE ChargeInv'
  <2>1. desk' \in [Desks -> DeskTypes] /\ OwedCalls' = OwedCalls /\ OwedTests' \subseteq OwedTests
    BY <1>4, Idle, DeskStep DEF Abandon, ChargeInv
  <2> QED BY <1>4, <2>1, OwedLost DEF Abandon, db, ChargeInv, Types
<1>5. ASSUME NEW d \in Desks, DisableRead(d) PROVE ChargeInv'
  <2> DEFINE t == [pc |-> "disabling", rows |-> {r \in Runs : row[r] \in {"pending", "sending"}}]
  <2>1. t \in DeskTypes
    BY DEF DeskTypes
  <2>2. desk' \in [Desks -> DeskTypes] /\ OwedCalls' = OwedCalls /\ OwedTests' = OwedTests
    BY <1>5, <2>1, Idle, DeskStep DEF DisableRead, ChargeInv
  <2> QED BY <1>5, <2>2, NothingOwed DEF DisableRead, db, past, ChargeInv, Types
<1>6. ASSUME NEW d \in Desks, DisableCommit(d) PROVE ChargeInv'
  <2>1. /\ desk' \in [Desks -> DeskTypes]
        /\ OwedCalls' = OwedCalls /\ OwedTests' = OwedTests
    BY <1>6, Idle, DeskStep DEF DisableCommit, ChargeInv
  <2>2. row' \in [Runs -> RowStatuses] /\ status' \in Statuses
    BY <1>6 DEF DisableCommit, ChargeInv, Types, RowStatuses, Outcomes, Statuses
  <2> QED BY <1>6, <2>1, <2>2, NothingOwed DEF DisableCommit, past, ChargeInv, Types
<1> QED BY <1>1, <1>2, <1>3, <1>4, <1>5, <1>6 DEF Human

LEMMA TimeStep ==
    ASSUME ChargeInv,
           Minute \/ \E r \in Runs : QueueRun(r) \/ TakeRun(r) \/ ComesDue(r) \/ GetsStuck(r)
    PROVE  ChargeInv'
<1>1. OwedCalls' = OwedCalls /\ OwedTests' = OwedTests
  BY DEF Minute, QueueRun, TakeRun, ComesDue, GetsStuck, OwedCalls, OwedTests
<1>2. ASSUME NEW r \in Runs, QueueRun(r) \/ TakeRun(r) \/ ComesDue(r) \/ GetsStuck(r)
      PROVE  row' \in [Runs -> RowStatuses] /\ due' \subseteq Runs
  <2>1. CASE QueueRun(r)
    BY <2>1 DEF QueueRun, ChargeInv, Types, RowStatuses
  <2>2. CASE ComesDue(r)
    BY <2>2 DEF ComesDue, ChargeInv, Types
  <2>3. CASE TakeRun(r) \/ GetsStuck(r)
    BY <2>3 DEF TakeRun, GetsStuck, db, ChargeInv, Types
  <2> QED BY <1>2, <2>1, <2>2, <2>3
<1>3. CASE Minute
  <2>1. charges + Cardinality(OwedCalls) + Cardinality(OwedTests) <= minutes + 1
    BY OwedFinite DEF ChargeInv, Types, ChargesCovered
  <2>2. ChargesCovered'
    BY <1>1, <1>3, <2>1, OwedFinite DEF Minute, ChargeInv, Types, ChargesCovered
  <2>3. minutes' \in Nat /\ recent' = FALSE
    BY <1>3 DEF Minute, ChargeInv, Types
  <2>4. Types'
    BY <1>3, <2>3 DEF Minute, ChargeInv, Types
  <2> QED BY <2>2, <2>4 DEF ChargeInv
<1>4. CASE \E r \in Runs : QueueRun(r) \/ TakeRun(r) \/ ComesDue(r) \/ GetsStuck(r)
  BY <1>1, <1>2, <1>4, NothingOwed
     DEF QueueRun, TakeRun, ComesDue, GetsStuck, db, past, ChargeInv, Types
<1> QED BY <1>3, <1>4

LEMMA NextChargeInv == ChargeInv /\ [Next]_vars => ChargeInv'
<1> SUFFICES ASSUME ChargeInv, [Next]_vars PROVE ChargeInv'
  OBVIOUS
<1>1. ASSUME NEW w \in Workers, Dispatch(w) PROVE ChargeInv'
  BY <1>1, SweepStep, FetchStep, SkipStep, DropStep, LookStep, DeferStep, ClaimStep, LoseStep,
     CallStep, FinishStep DEF Dispatch
<1>2. CASE UNCHANGED vars
  <2>1. OwedCalls' = OwedCalls /\ OwedTests' = OwedTests
    BY <1>2 DEF vars, OwedCalls, OwedTests
  <2> QED BY <1>2, <2>1, NothingOwed DEF vars, db, past, ChargeInv, Types
<1> QED BY <1>1, <1>2, CrashStep, HumanStep, TimeStep DEF Next

\* Whatever the workers, the Human's tests and restarts do, a notification
\* channel makes at most one call in every minute (_reserve_notification_send).
THEOREM ChargedOnceAMinute == Spec => []OneChargePerMinute
<1>1. ChargeInv => OneChargePerMinute
  BY OwedFinite DEF ChargeInv, Types, ChargesCovered, OneChargePerMinute
<1> QED BY <1>1, InitChargeInv, NextChargeInv, PTL DEF Spec

-----------------------------------------------------------------------------
(* Outcomes: kept in a session first, written by a later commit.           *)

KeptWasAccepted ==
    \A w \in Workers, r \in Runs : job[w].out[r] = "delivered" => r \in accepted

OutcomeInv == Types /\ KeptWasAccepted /\ DeliveredWasAccepted

\* Nothing becomes delivered but by writing what a session kept, and nothing is
\* kept as delivered but an accepted call.
LEMMA OutcomeStep ==
    ASSUME OutcomeInv, Types', accepted \subseteq accepted',
           \A r \in Runs : row'[r] = "delivered" =>
               row[r] = "delivered" \/ \E w \in Workers : job[w].out[r] = "delivered",
           \A w \in Workers, r \in Runs : job'[w].out[r] = "delivered" =>
               job[w].out[r] = "delivered" \/ r \in accepted'
    PROVE  OutcomeInv'
BY DEF OutcomeInv, KeptWasAccepted, DeliveredWasAccepted

LEMMA WorkerOutcomes ==
    ASSUME OutcomeInv, Types', NEW w \in Workers, Dispatch(w) \/ Crash(w)
    PROVE  OutcomeInv'
<1>1. job[w] \in JobTypes /\ job[w].out \in [Runs -> Writes] /\ job \in [Workers -> JobTypes]
  BY DEF OutcomeInv, Types, JobTypes
<1>2. \A r \in Runs : Unwritten[r] # "delivered" /\ IdleJob.out[r] # "delivered"
  BY DEF Unwritten, IdleJob
<1>3. \A r \in Runs : Flushed(job[w].out)[r] = "delivered" =>
         row[r] = "delivered" \/ job[w].out[r] = "delivered"
  BY <1>1 DEF Flushed, Outcomes, Writes
<1>4. CASE Sweep(w)
  <2>1. \A r \in Runs : row'[r] = "delivered" => row[r] = "delivered"
    BY <1>4 DEF Sweep, Swept
  <2>2. \A v \in Workers : job'[v].out = job[v].out
    BY <1>1, <1>4 DEF Sweep, JobTypes
  <2> QED BY <1>4, <2>1, <2>2, OutcomeStep DEF Sweep, past
<1>5. CASE Fetch(w)
  <2>1. \A v \in Workers : job'[v].out = job[v].out
    BY <1>1, <1>5 DEF Fetch, JobTypes
  <2> QED BY <1>5, <2>1, OutcomeStep DEF Fetch, db, past
<1>6. ASSUME NEW r \in Runs, Skip(w, r) \/ Look(w, r) PROVE OutcomeInv'
  <2>1. CASE Skip(w, r)
    <3>1. \A v \in Workers : job'[v].out = job[v].out
      BY <1>1, <2>1 DEF Skip, JobTypes
    <3> QED BY <2>1, <3>1, OutcomeStep DEF Skip, db, past
  <2>2. CASE Look(w, r)
    <3>1. \A v \in Workers : job'[v].out = job[v].out
      BY <1>1, <2>2 DEF Look, JobTypes
    <3> QED BY <2>2, <3>1, OutcomeStep DEF Look, db, past
  <2> QED BY <1>6, <2>1, <2>2
<1>7. ASSUME NEW r \in Runs, Drop(w, r) PROVE OutcomeInv'
  <2>1. \A v \in Workers, q \in Runs : job'[v].out[q] = "delivered" => job[v].out[q] = "delivered"
    BY <1>1, <1>7 DEF Drop, JobTypes
  <2> QED BY <1>7, <2>1, OutcomeStep DEF Drop, db, past
<1>8. CASE Defer(w)
  <2>1. \A v \in Workers, q \in Runs : job'[v].out[q] = "delivered" => job[v].out[q] = "delivered"
    BY <1>1, <1>8 DEF Defer, JobTypes
  <2> QED BY <1>8, <2>1, OutcomeStep DEF Defer, db, past
<1>9. CASE Lose(w)
  <2>1. \A v \in Workers, q \in Runs : job'[v].out[q] = "delivered" => job[v].out[q] = "delivered"
    BY <1>1, <1>2, <1>9 DEF Lose, JobTypes
  <2> QED BY <1>9, <2>1, OutcomeStep DEF Lose, db, past
<1>10. CASE Claim(w)
  <2>1. \A v \in Workers, q \in Runs : job'[v].out[q] = "delivered" => job[v].out[q] = "delivered"
    BY <1>1, <1>2, <1>10 DEF Claim, JobTypes
  <2>2. \A r \in Runs : row'[r] = "delivered" => Flushed(job[w].out)[r] = "delivered"
    <3>1. Flushed(job[w].out) \in [Runs -> RowStatuses]
      BY <1>1, Writing DEF OutcomeInv
    <3> QED BY <1>10, <3>1 DEF Claim
  <2> QED BY <1>3, <1>10, <2>1, <2>2, OutcomeStep DEF Claim, past
<1>11. ASSUME NEW reply \in Replies, Call(w, reply) PROVE OutcomeInv'
  <2>1. OutcomeOf(w, reply) = "delivered" => job[w].at \in accepted'
    BY <1>11 DEF Call, OutcomeOf
  <2>2. \A v \in Workers, q \in Runs : job'[v].out[q] = "delivered" =>
           job[v].out[q] = "delivered" \/ q \in accepted'
    BY <1>1, <1>11, <2>1 DEF Call, JobTypes
  <2>3. accepted \subseteq accepted'
    BY <1>11 DEF Call
  <2> QED BY <1>11, <2>2, <2>3, OutcomeStep DEF Call, db
<1>12. CASE Finish(w)
  <2>1. \A v \in Workers, q \in Runs : job'[v].out[q] = "delivered" => job[v].out[q] = "delivered"
    BY <1>1, <1>2, <1>12 DEF Finish
  <2> QED BY <1>3, <1>12, <2>1, OutcomeStep DEF Finish, past
<1>13. CASE Crash(w)
  <2>1. \A v \in Workers, q \in Runs : job'[v].out[q] = "delivered" => job[v].out[q] = "delivered"
    BY <1>1, <1>2, <1>13 DEF Crash
  <2> QED BY <1>13, <2>1, OutcomeStep DEF Crash, db
<1> QED BY <1>4, <1>5, <1>6, <1>7, <1>8, <1>9, <1>10, <1>11, <1>12, <1>13 DEF Dispatch

LEMMA OtherOutcomes ==
    ASSUME OutcomeInv, Types',
           \/ Human \/ Minute \/ UNCHANGED vars
           \/ \E r \in Runs : QueueRun(r) \/ TakeRun(r) \/ ComesDue(r) \/ GetsStuck(r)
    PROVE  OutcomeInv'
<1>1. UNCHANGED <<job, accepted>>
  BY DEF Human, Configure, TestBegin, TestEnd, Abandon, DisableRead, DisableCommit,
         Minute, QueueRun, TakeRun, ComesDue, GetsStuck, vars, db, past
<1>2. \A r \in Runs : row'[r] = "delivered" => row[r] = "delivered"
  <2>1. CASE \E k \in Kinds : Configure(k)
    BY <2>1 DEF Configure
  <2>2. CASE \E d \in Desks : DisableCommit(d)
    BY <2>2 DEF DisableCommit
  <2>3. CASE \E r \in Runs : QueueRun(r)
    BY <2>3 DEF QueueRun, OutcomeInv, Types
  <2>4. CASE UNCHANGED row
    BY <2>4
  <2> QED BY <2>1, <2>2, <2>3, <2>4
          DEF Human, TestBegin, TestEnd, Abandon, DisableRead, Minute, TakeRun, ComesDue,
              GetsStuck, vars, db
<1> QED BY <1>1, <1>2, OutcomeStep

LEMMA InitOutcomeInv == Init => OutcomeInv
BY InitChargeInv DEF ChargeInv, Init, IdleJob, Unwritten, OutcomeInv, KeptWasAccepted,
                     DeliveredWasAccepted

LEMMA NextOutcomeInv == OutcomeInv /\ Types' /\ [Next]_vars => OutcomeInv'
BY WorkerOutcomes, OtherOutcomes DEF Next

\* No delivery is ever recorded as delivered unless its endpoint accepted a
\* call, with outcomes that wait in a session for the next commit included.
THEOREM DeliveredMeansAccepted == Spec => []DeliveredWasAccepted
<1>1. ChargeInv => Types
  BY DEF ChargeInv
<1>2. OutcomeInv => DeliveredWasAccepted
  BY DEF OutcomeInv
<1> QED BY <1>1, <1>2, InitChargeInv, NextChargeInv, InitOutcomeInv, NextOutcomeInv, PTL DEF Spec
-----------------------------------------------------------------------------
(* One notification a run, of an Agent whose channel notifies a Human.     *)

NotifyOnly == Kinds \subseteq {"notify"}

\* Before the Human configures the channel nothing is dispatched.
NotConfiguredYet ==
    kind = "none" =>
        /\ status = "none"
        /\ \A r \in Runs : row[r] = "none"
        /\ \A w \in Workers : /\ job[w].out = Unwritten /\ job[w].mark = "none"
                              /\ job[w].pc \notin {"claim", "call"}
        /\ \A d \in Desks : desk[d] = IdleDesk

\* A notification is never kept for a retry, and is of a run that was queued.
NotifyJobs ==
    \A w \in Workers :
        /\ \A r \in Runs : job[w].out[r] # "retry"
        /\ job[w].pc \in {"claim", "call"} =>
              job[w].kind = "notify" /\ job[w].at \in Runs /\ run[job[w].at] # "none"

Calling(w, r) == job[w].pc = "call" /\ job[w].at = r
Unsent(r) == calls[r] = 0 /\ \A w \in Workers : ~Calling(w, r)

\* A run whose row can still be claimed was neither sent nor is it being sent,
\* and the worker that is sending one is alone with it.
SentOnce ==
    \A r \in Runs :
        /\ calls[r] \in {0, 1}
        /\ row[r] = "pending" \/ run[r] = "none" => Unsent(r)
        /\ \A w \in Workers : Calling(w, r) => calls[r] = 0
        /\ \A v, w \in Workers : Calling(v, r) /\ Calling(w, r) => v = w

CountTypes ==
    /\ calls \in [Runs -> Nat] /\ run \in [Runs -> {"none", "queued", "taken"}]
    /\ stuck \subseteq Runs

NotifyInv ==
    /\ Types /\ CountTypes
    /\ NotConfiguredYet /\ NotifyJobs /\ SentOnce

\* Steps after which no more rows are pending, no more runs are unqueued, and
\* no more workers are about to call.
LEMMA CountTypesKept == Types /\ CountTypes /\ [Next]_vars => CountTypes'
<1> SUFFICES ASSUME Types, CountTypes, [Next]_vars PROVE CountTypes'
  OBVIOUS
<1>1. ASSUME NEW w \in Workers, Dispatch(w) \/ Crash(w) PROVE CountTypes'
  <2>1. stuck' \subseteq Runs /\ UNCHANGED run
    BY <1>1 DEF Dispatch, Sweep, Fetch, Skip, Drop, Look, Defer, Claim, Lose, Call, Finish,
                Crash, db, CountTypes
  <2>2. CASE UNCHANGED calls
    BY <2>1, <2>2 DEF CountTypes
  <2>3. ASSUME NEW reply \in Replies, Call(w, reply) PROVE calls' \in [Runs -> Nat]
    <3>1. CASE job[w].at \in Runs
      BY <2>3, <3>1 DEF Call, CountTypes
    <3>2. CASE job[w].at \notin Runs
      BY <2>3, <3>2 DEF Call, CountTypes
    <3> QED BY <3>1, <3>2
  <2> QED BY <1>1, <2>1, <2>2, <2>3
          DEF Dispatch, Sweep, Fetch, Skip, Drop, Look, Defer, Claim, Lose, Finish, Crash, past,
              CountTypes
<1>2. ASSUME NEW r \in Runs, QueueRun(r) \/ TakeRun(r) \/ ComesDue(r) \/ GetsStuck(r)
      PROVE  CountTypes'
  BY <1>2 DEF QueueRun, TakeRun, ComesDue, GetsStuck, db, past, CountTypes
<1>3. CASE Human \/ Minute \/ UNCHANGED vars
  BY <1>3 DEF Human, Configure, TestBegin, TestEnd, Abandon, DisableRead, DisableCommit, Minute,
              vars, db, past, CountTypes
<1> QED BY <1>1, <1>2, <1>3 DEF Next

LEMMA SentOnceKept ==
    ASSUME SentOnce, UNCHANGED calls,
           \A r \in Runs : row'[r] = "pending" => row[r] = "pending" \/ Unsent(r),
           \A r \in Runs : run'[r] = "none" => run[r] = "none",
           \A w \in Workers : job'[w].pc = "call" =>
               job[w].pc = "call" /\ job'[w].at = job[w].at
    PROVE  SentOnce'
<1>1. \A w \in Workers, r \in Runs : Calling(w, r)' => Calling(w, r)
  BY DEF Calling
<1>2. \A r \in Runs : Unsent(r) => Unsent(r)'
  BY <1>1 DEF Unsent
<1> QED BY <1>1, <1>2 DEF SentOnce

\* What a session writes is an outcome.
LEMMA FlushedOutcomes ==
    ASSUME NotifyInv, NEW w \in Workers, NEW r \in Runs, Flushed(job[w].out)[r] = "pending"
    PROVE  row[r] = "pending"
<1>1. job[w].out \in [Runs -> Writes] /\ job[w].out[r] # "retry"
  BY DEF NotifyInv, Types, JobTypes, NotifyJobs
<1> QED BY <1>1 DEF Flushed, Writes, Outcomes

\* A step of one worker's iteration that claims nothing and calls nothing.
LEMMA QuietNotify ==
    ASSUME NotifyInv, Types', CountTypes', NEW w \in Workers, NEW j \in JobTypes,
           job' = [job EXCEPT ![w] = j], UNCHANGED <<kind, run, desk, calls, stuck>>,
           kind = "none" => UNCHANGED <<status, row>> /\ j.out = Unwritten /\ j.mark = "none",
           \A r \in Runs : row'[r] = "pending" => row[r] = "pending",
           \A r \in Runs : j.out[r] # "retry",
           j.pc # "call",
           j.pc = "claim" => /\ j.kind = "notify" /\ j.at \in Runs /\ run[j.at] # "none"
                             /\ kind # "none"
    PROVE  NotifyInv'
<1>1. job'[w] = j /\ \A v \in Workers : v # w => job'[v] = job[v]
  BY DEF NotifyInv, Types
<1>2. \A v \in Workers : job'[v].pc = "call" => job[v].pc = "call" /\ job'[v].at = job[v].at
  BY <1>1
<1>3. SentOnce'
  BY <1>2, SentOnceKept DEF NotifyInv
<1>4. NotifyJobs'
  BY <1>1 DEF NotifyInv, NotifyJobs
<1>5. NotConfiguredYet'
  BY <1>1 DEF NotifyInv, NotConfiguredYet
<1> QED BY <1>3, <1>4, <1>5 DEF NotifyInv

LEMMA OwnNotify ==
    ASSUME NotifyInv, Types', CountTypes', NEW w \in Workers, NEW j \in JobTypes,
           job' = [job EXCEPT ![w] = j], UNCHANGED <<db, run, desk, past>>,
           kind = "none" => j.out = Unwritten /\ j.mark = "none",
           \A r \in Runs : j.out[r] # "retry",
           j.pc # "call",
           j.pc = "claim" => /\ j.kind = "notify" /\ j.at \in Runs /\ run[j.at] # "none"
                             /\ kind # "none"
    PROVE  NotifyInv'
<1>1. /\ UNCHANGED <<kind, run, desk, calls, stuck>> /\ UNCHANGED <<status, row>>
      /\ \A r \in Runs : row'[r] = "pending" => row[r] = "pending"
  BY DEF db, past
<1> QED BY <1>1, QuietNotify

LEMMA WorkerNotify ==
    ASSUME NotifyInv, Types', CountTypes', NEW w \in Workers, Dispatch(w) \/ Crash(w), NotifyOnly
    PROVE  NotifyInv'
<1>1. job[w] \in JobTypes /\ job \in [Workers -> JobTypes] /\ job'[w] \in JobTypes
  BY DEF NotifyInv, Types
<1>2. /\ \A r \in Runs : Unwritten[r] # "retry" /\ IdleJob.out[r] # "retry"
      /\ IdleJob.out = Unwritten /\ IdleJob.mark = "none" /\ IdleJob.pc = "idle"
  BY DEF Unwritten, IdleJob
<1>3. kind \in {"notify", "none"}
  BY DEF NotifyInv, Types, NotifyOnly
<1>4. /\ \A r \in Runs : job[w].out[r] # "retry"
      /\ job[w].pc \in {"claim", "call"} => /\ job[w].kind = "notify" /\ job[w].at \in Runs
                                            /\ run[job[w].at] # "none" /\ kind # "none"
      /\ kind = "none" => /\ job[w].out = Unwritten /\ job[w].mark = "none" /\ status = "none"
                          /\ \A r \in Runs : row[r] = "none"
  BY DEF NotifyInv, NotifyJobs, NotConfiguredYet
<1>5. CASE Sweep(w)
  <2> DEFINE j == [job[w] EXCEPT !.pc = "fetch"]
  <2>1. /\ j \in JobTypes /\ j.pc = "fetch" /\ j.out = job[w].out /\ j.mark = job[w].mark
        /\ job' = [job EXCEPT ![w] = j]
    BY <1>1, <1>5 DEF Sweep, JobTypes
  <2> HIDE DEF j
  <2>2. \A r \in Runs : row'[r] = "pending" => row[r] = "pending"
    BY <1>5 DEF Sweep, Swept
  <2>3. kind = "none" => UNCHANGED <<status, row>>
    <3>1. row \in [Runs -> RowStatuses]
      BY DEF NotifyInv, Types
    <3>2. kind = "none" => Unknown = {}
      BY <1>4 DEF Unknown, NotifyInv, CountTypes
    <3> QED BY <1>4, <1>5, <3>1, <3>2 DEF Sweep, Swept
  <2>7. /\ kind = "none" => j.out = Unwritten /\ j.mark = "none"
        /\ \A q \in Runs : j.out[q] # "retry"
    BY <1>4, <2>1
  <2>8. UNCHANGED <<kind, run, desk, calls, stuck>>
    BY <1>5 DEF Sweep, past
  <2> QED BY <2>1, <2>2, <2>3, <2>7, <2>8, QuietNotify
<1>6. CASE Fetch(w)
  <2> DEFINE f == {r \in due : row[r] = "pending" /\ Free(w, {r})}
             j == [job[w] EXCEPT !.pc = "next", !.left = f, !.locked = f]
  <2>0. f \subseteq Runs
    BY DEF NotifyInv, Types
  <2>1. job' = [job EXCEPT ![w] = j]
    BY <1>6 DEF Fetch
  <2> HIDE DEF f
  <2>2. j \in JobTypes /\ j.pc = "next" /\ j.out = job[w].out /\ j.mark = job[w].mark
    BY <1>1, <2>0 DEF JobTypes
  <2> HIDE DEF j
  <2>7. /\ kind = "none" => j.out = Unwritten /\ j.mark = "none"
        /\ \A q \in Runs : j.out[q] # "retry"
    BY <1>4, <2>2
  <2>8. UNCHANGED <<db, run, desk, past>>
    BY <1>6 DEF Fetch
  <2> QED BY <2>1, <2>2, <2>7, <2>8, OwnNotify
<1>7. ASSUME NEW r \in Runs, Skip(w, r) PROVE NotifyInv'
  <2> DEFINE j == [job[w] EXCEPT !.left = @ \ {r}]
  <2>1. /\ j \in JobTypes /\ j.pc = "next" /\ j.out = job[w].out /\ j.mark = job[w].mark
        /\ job' = [job EXCEPT ![w] = j]
    BY <1>1, <1>7 DEF Skip, JobTypes
  <2> HIDE DEF j
  <2>7. /\ kind = "none" => j.out = Unwritten /\ j.mark = "none"
        /\ \A q \in Runs : j.out[q] # "retry"
    BY <1>4, <2>1
  <2>8. UNCHANGED <<db, run, desk, past>>
    BY <1>7 DEF Skip
  <2> QED BY <2>1, <2>7, <2>8, OwnNotify
<1>8. ASSUME NEW r \in Runs, Drop(w, r) PROVE NotifyInv'
  <2> DEFINE j == [job[w] EXCEPT !.left = @ \ {r}, !.mark = "none", !.out[r] = "cancelled"]
  <2>0. "cancelled" \in Writes
    BY DEF Writes, Outcomes
  <2>1. /\ j \in JobTypes /\ j.pc = "next" /\ job' = [job EXCEPT ![w] = j]
        /\ \A q \in Runs : j.out[q] # "retry"
    BY ZenonT(60), <1>1, <1>4, <1>8, <2>0 DEF Drop, JobTypes
  <2>2. kind # "none"
    BY <1>4, <1>8 DEF Drop
  <2> HIDE DEF j
  <2> QED BY <1>4, <1>8, <2>1, <2>2, OwnNotify DEF Drop
<1>9. ASSUME NEW r \in Runs, Look(w, r) PROVE NotifyInv'
  <2> DEFINE j == [job[w] EXCEPT !.pc = "claim", !.left = @ \ {r}, !.at = r, !.kind = kind,
                                 !.status = status, !.seen = attempts[r], !.mark = "none"]
  <2>0. job' = [job EXCEPT ![w] = j]
    BY <1>9 DEF Look
  <2>1. /\ j \in JobTypes /\ j.pc = "claim" /\ j.kind = kind /\ j.at = r
        /\ j.out = job[w].out
    BY <1>1 DEF JobTypes, NotifyInv, Types
  <2>2. kind = "notify" /\ run[r] # "none"
    BY <1>3, <1>4, <1>9 DEF Look
  <2> HIDE DEF j
  <2>7. /\ kind = "none" => j.out = Unwritten /\ j.mark = "none"
        /\ \A q \in Runs : j.out[q] # "retry"
    BY <1>4, <2>1, <2>2
  <2>8. UNCHANGED <<db, run, desk, past>>
    BY <1>9 DEF Look
  <2> QED BY <2>0, <2>1, <2>2, <2>7, <2>8, OwnNotify
<1>10. CASE Defer(w)
  <2> DEFINE j == [job[w] EXCEPT !.pc = "next", !.out[job[w].at] = "later"]
  <2>1. /\ j \in JobTypes /\ j.pc = "next" /\ job' = [job EXCEPT ![w] = j]
        /\ \A q \in Runs : j.out[q] # "retry"
    BY ZenonT(60), <1>1, <1>4, <1>10 DEF Defer, JobTypes, Writes
  <2>2. kind # "none"
    BY <1>4, <1>10 DEF Defer
  <2> HIDE DEF j
  <2> QED BY <1>4, <1>10, <2>1, <2>2, OwnNotify DEF Defer
<1>11. CASE Lose(w)
  <2> DEFINE j == [job[w] EXCEPT !.pc = "next", !.locked = {}, !.out = Unwritten, !.mark = "none"]
  <2>1. /\ j \in JobTypes /\ j.pc = "next" /\ job' = [job EXCEPT ![w] = j] /\ j.out = Unwritten
        /\ j.mark = "none"
    BY ZenonT(60), <1>1, <1>11, Idle DEF Lose, JobTypes
  <2> HIDE DEF j
  <2>7. /\ kind = "none" => j.out = Unwritten /\ j.mark = "none"
        /\ \A q \in Runs : j.out[q] # "retry"
    BY <1>2, <2>1
  <2>8. UNCHANGED <<db, run, desk, past>>
    BY <1>11 DEF Lose
  <2> QED BY <2>1, <2>7, <2>8, OwnNotify
<1>12. CASE Finish(w)
  <2>1. \A r \in Runs : row'[r] = "pending" => row[r] = "pending"
    BY <1>12, FlushedOutcomes DEF Finish
  <2>2. kind = "none" => UNCHANGED <<status, row>>
    <3>1. row \in [Runs -> RowStatuses]
      BY DEF NotifyInv, Types
    <3>2. ASSUME kind = "none" PROVE Flushed(job[w].out) = row
      BY <1>4, <3>1, <3>2 DEF Flushed, Unwritten
    <3> QED BY <1>4, <1>12, <3>2 DEF Finish
  <2> QED BY <1>2, <1>12, <2>1, <2>2, Idle, QuietNotify DEF Finish, past
<1>13. CASE Crash(w)
  BY <1>2, <1>13, Idle, QuietNotify DEF Crash, db
<1>14. CASE Claim(w)
  <2> DEFINE r == job[w].at
             j == [job[w] EXCEPT !.pc = "call", !.locked = {}, !.out = Unwritten]
  <2>1. /\ j.pc = "call" /\ j.kind = "notify" /\ j.at = r /\ j.out = Unwritten
        /\ job' = [job EXCEPT ![w] = j]
    BY ZenonT(60), <1>1, <1>4, <1>14 DEF Claim, JobTypes
  <2>2. r \in Runs /\ run[r] # "none" /\ kind # "none" /\ row[r] = "pending" /\ Unsent(r)
    BY <1>4, <1>14 DEF Claim, StillPending, NotifyInv, SentOnce
  <2>3. row'[r] = "sending" /\ \A q \in Runs : row'[q] = "pending" => row[q] = "pending" /\ q # r
    <3>1. Flushed(job[w].out) \in [Runs -> RowStatuses]
      BY <1>1, Writing DEF NotifyInv, JobTypes
    <3>2. /\ row'[r] = "sending"
          /\ \A q \in Runs : q # r => row'[q] = Flushed(job[w].out)[q]
      BY <1>14, <2>2, <3>1 DEF Claim
    <3> QED BY <3>2, FlushedOutcomes
  <2> HIDE DEF j
  <2>4. job'[w] = j /\ \A v \in Workers : v # w => job'[v] = job[v]
    BY <1>1, <2>1
  <2>5. UNCHANGED <<kind, run, calls>>
    BY <1>14 DEF Claim, past
  <2>6. \A v \in Workers, q \in Runs : Calling(v, q)' <=>
         (Calling(v, q) /\ v # w) \/ (v = w /\ q = r)
    BY <2>1, <2>4 DEF Calling
  <2>7. \A q \in Runs : Unsent(q)' <=> Unsent(q) /\ q # r
    <3>1. ~Calling(w, r)
      BY <2>2 DEF Unsent
    <3>2. \A q \in Runs : q # r => ~Calling(w, q)
      BY DEF Calling
    <3> QED BY <2>5, <2>6, <3>1, <3>2 DEF Unsent
  <2>8. SentOnce'
    <3>1. \A v \in Workers : ~Calling(v, r)
      BY <2>2 DEF Unsent
    <3> QED BY <2>2, <2>3, <2>5, <2>6, <2>7, <3>1 DEF SentOnce, NotifyInv, Unsent
  <2>9. NotifyJobs'
    BY <1>2, <2>1, <2>2, <2>4, <2>5 DEF NotifyInv, NotifyJobs
  <2>10. NotConfiguredYet'
    BY <2>2, <2>5 DEF NotConfiguredYet
  <2> QED BY <2>5, <2>8, <2>9, <2>10 DEF NotifyInv
<1>15. ASSUME NEW reply \in Replies, Call(w, reply) PROVE NotifyInv'
  <2> PICK r \in Runs : r = job[w].at
    BY <1>4, <1>15 DEF Call
  <2> DEFINE o == OutcomeOf(w, reply)
             j == [job[w] EXCEPT !.pc = "next", !.out[r] = o, !.mark = Mark(o, job[w].status)]
  <2>1. r \in Runs /\ run[r] # "none" /\ kind # "none" /\ job[w].kind = "notify"
    BY <1>4, <1>15 DEF Call
  <2>2. o # "retry"
    BY <2>1 DEF OutcomeOf, GivesUp
  <2>3. job' = [job EXCEPT ![w] = j] /\ calls' = [calls EXCEPT ![r] = @ + 1]
    BY <1>15 DEF Call
  <2> HIDE DEF o
  <2>4. j.pc = "next" /\ \A q \in Runs : j.out[q] # "retry"
    BY <1>1, <1>4, <2>2 DEF JobTypes
  <2> HIDE DEF j
  <2>5. job'[w] = j /\ \A v \in Workers : v # w => job'[v] = job[v]
    BY <1>1, <2>3
  <2>6. UNCHANGED <<kind, row, run>> /\ Calling(w, r)
    BY <1>15 DEF Call, db, Calling
  <2>7. /\ calls' \in [Runs -> Nat] /\ calls'[r] = calls[r] + 1
        /\ \A q \in Runs : q # r => calls'[q] = calls[q]
    BY <2>1, <2>3 DEF NotifyInv, CountTypes
  <2>8. calls[r] = 0 /\ row[r] # "pending" /\ \A v \in Workers : Calling(v, r) => v = w
    BY <2>1, <2>6 DEF NotifyInv, SentOnce, Unsent
  <2>9. \A v \in Workers, q \in Runs : Calling(v, q)' => Calling(v, q) /\ v # w
    BY <2>4, <2>5 DEF Calling
  <2>10. \A q \in Runs : q # r => (Unsent(q) => Unsent(q)')
    BY <2>7, <2>9 DEF Unsent
  <2>11. SentOnce'
    <3>1. ASSUME NEW q \in Runs, q # r
          PROVE  /\ calls'[q] \in {0, 1}
                 /\ row'[q] = "pending" \/ run'[q] = "none" => Unsent(q)'
                 /\ \A v \in Workers : Calling(v, q)' => calls'[q] = 0
                 /\ \A v, u \in Workers : Calling(v, q)' /\ Calling(u, q)' => v = u
      BY <2>6, <2>7, <2>9, <2>10, <3>1 DEF NotifyInv, SentOnce
    <3>2. /\ calls'[r] \in {0, 1}
          /\ row'[r] # "pending" /\ run'[r] # "none"
          /\ \A v \in Workers : ~Calling(v, r)'
      <4>1. calls'[r] = 1 /\ row'[r] # "pending" /\ run'[r] # "none"
        BY <2>1, <2>6, <2>7, <2>8
      <4>2. \A v \in Workers : ~Calling(v, r)'
        BY <2>1, <2>8, <2>9
      <4> QED BY <4>1, <4>2
    <3> QED BY <3>1, <3>2 DEF SentOnce
  <2>12. NotifyJobs'
    BY <2>4, <2>5, <2>6 DEF NotifyInv, NotifyJobs
  <2>13. NotConfiguredYet'
    BY <2>1, <2>6 DEF NotConfiguredYet
  <2> QED BY <2>7, <2>11, <2>12, <2>13 DEF NotifyInv
<1> QED BY <1>5, <1>6, <1>7, <1>8, <1>9, <1>10, <1>11, <1>12, <1>13, <1>14, <1>15 DEF Dispatch

LEMMA OtherNotify ==
    ASSUME NotifyInv, Types', CountTypes', NotifyOnly,
           \/ Human \/ Minute \/ UNCHANGED vars
           \/ \E r \in Runs : QueueRun(r) \/ TakeRun(r) \/ ComesDue(r) \/ GetsStuck(r)
    PROVE  NotifyInv'
<1>1. UNCHANGED <<job, calls>>
  BY DEF Human, Configure, TestBegin, TestEnd, Abandon, DisableRead, DisableCommit,
         Minute, QueueRun, TakeRun, ComesDue, GetsStuck, vars, db, past
<1>2. \A r \in Runs : row'[r] = "pending" => row[r] = "pending" \/ Unsent(r)
  <2>1. CASE \E k \in Kinds : Configure(k)
    BY <2>1 DEF Configure, NotifyOnly, Pending
  <2>2. CASE \E d \in Desks : DisableCommit(d)
    BY <2>2 DEF DisableCommit
  <2>3. CASE \E r \in Runs : QueueRun(r)
    BY <2>3 DEF QueueRun, NotifyInv, Types, SentOnce
  <2>4. CASE UNCHANGED row
    BY <2>4
  <2> QED BY <2>1, <2>2, <2>3, <2>4
          DEF Human, TestBegin, TestEnd, Abandon, DisableRead, Minute, TakeRun, ComesDue,
              GetsStuck, vars, db
<1>3. \A r \in Runs : run'[r] = "none" => run[r] = "none"
  <2>1. CASE \E r \in Runs : QueueRun(r) \/ TakeRun(r)
    <3> PICK r \in Runs : run' = [run EXCEPT ![r] = "queued"] \/ run' = [run EXCEPT ![r] = "taken"]
      BY <2>1 DEF QueueRun, TakeRun
    <3>1. ASSUME NEW q \in Runs, run'[q] = "none" PROVE run[q] = "none"
      BY <3>1 DEF NotifyInv, CountTypes
    <3> QED BY <3>1
  <2>2. CASE UNCHANGED run
    BY <2>2
  <2> QED BY <2>1, <2>2
          DEF Human, Configure, TestBegin, TestEnd, Abandon, DisableRead, DisableCommit, Minute,
              ComesDue, GetsStuck, vars, db
<1>4. SentOnce'
  BY <1>1, <1>2, <1>3, SentOnceKept DEF NotifyInv
<1>5. NotifyJobs'
  BY <1>1, <1>3 DEF NotifyInv, NotifyJobs, Types, JobTypes
<1>6. NotConfiguredYet'
  <2>1. CASE kind' = "none"
    <3>1. kind = "none"
      <4>1. CASE \E k \in Kinds : Configure(k)
        BY <2>1, <4>1 DEF Configure
      <4>2. CASE UNCHANGED kind
        BY <2>1, <4>2
      <4> QED BY <4>1, <4>2
              DEF Human, TestBegin, TestEnd, Abandon, DisableRead, DisableCommit, Minute,
                  QueueRun, TakeRun, ComesDue, GetsStuck, vars, db
    <3>2. /\ status = "none" /\ \A d \in Desks : desk[d] = IdleDesk
          /\ \A r \in Runs : row[r] = "none"
      BY <3>1 DEF NotifyInv, NotConfiguredYet
    <3>3. ~Human
      <4>1. \A k \in Kinds : k # "none"
        BY DEF NotifyOnly
      <4>2. \A k \in Kinds : ~Configure(k)
        BY <2>1, <4>1 DEF Configure
      <4> QED BY <3>2, <4>2
              DEF Human, TestBegin, TestEnd, Abandon, DisableRead, DisableCommit, IdleDesk
    <3>4. UNCHANGED <<status, desk, row>>
      BY <3>2, <3>3 DEF Minute, QueueRun, Wakes, TakeRun, ComesDue, GetsStuck, vars, db
    <3> QED BY <1>1, <3>1, <3>4 DEF NotifyInv, NotConfiguredYet
  <2> QED BY <2>1 DEF NotConfiguredYet
<1> QED BY <1>4, <1>5, <1>6 DEF NotifyInv

LEMMA InitNotifyInv == Init => NotifyInv
<1> SUFFICES ASSUME Init PROVE NotifyInv
  OBVIOUS
<1>1. Types /\ CountTypes
  BY InitChargeInv DEF ChargeInv, Init, CountTypes
<1>2. NotConfiguredYet
  BY DEF Init, NotConfiguredYet, IdleJob
<1>3. NotifyJobs
  BY DEF Init, NotifyJobs, IdleJob, Unwritten
<1>4. SentOnce
  BY DEF Init, SentOnce, Unsent, Calling, IdleJob
<1> QED BY <1>1, <1>2, <1>3, <1>4 DEF NotifyInv

LEMMA NextNotifyInv == NotifyOnly /\ NotifyInv /\ Types' /\ [Next]_vars => NotifyInv'
<1> SUFFICES ASSUME NotifyOnly, NotifyInv, Types', [Next]_vars PROVE NotifyInv'
  OBVIOUS
<1>1. CountTypes'
  BY CountTypesKept DEF NotifyInv
<1> QED BY <1>1, WorkerNotify, OtherNotify DEF Next

\* Two workers, crashes, lost outcomes and reconfigurations never notify a
\* Human twice of the same run, as long as the Agent's channel is of the kind
\* that notifies (an aily channel retries, dispatch_pending_wakes).
THEOREM NotifiedAtMostOnce == ASSUME NotifyOnly PROVE Spec => []NotifiedOnce
<1>1. ChargeInv => Types
  BY DEF ChargeInv
<1>2. NotifyInv => NotifiedOnce
  BY DEF NotifyInv, SentOnce, NotifiedOnce
<1>3. NotifyInv /\ Types' /\ [Next]_vars => NotifyInv'
  BY NextNotifyInv
<1> QED BY <1>1, <1>2, <1>3, InitChargeInv, NextChargeInv, InitNotifyInv, PTL DEF Spec
=============================================================================

-------------------------------- MODULE Orbit --------------------------------
(***************************************************************************)
(* What a Human sees of the Agents' messages: the views of Orbit in         *)
(* control/service.py, and the marks the Human leaves on a thread.          *)
(*                                                                         *)
(* A view is put together by several SELECTs of one READ COMMITTED          *)
(* transaction: ownerships, grants, messages, replies, the Human's own rows.*)
(* Messages are stamped before they commit, so they do not appear in order. *)
(* Control says how access changes; here any change may come at any time.   *)
(***************************************************************************)
EXTENDS Naturals, Sequences, FiniteSets, FiniteSetsExt

CONSTANTS
  Party,        \* the Agents that write to each other
  ViewRoles,    \* the roles of a grant
  Results,      \* result messages, by the status in their payload
  Threads,
  TaskThreads,  \* the main threads of Tasks
  Tabs,         \* requests of the Human at once
  MaxMessages,  \* bound on the messages written
  MaxTurns,     \* bound on messages, changes of access and marks
  NoThread

ASSUME OrbitAssumption ==
  /\ ViewRoles \subseteq {"operator", "viewer", "auditor"}
  /\ Results \subseteq {"completed", "partial", "failed", "cancelled"}
  /\ TaskThreads \in SUBSET Threads /\ NoThread \notin Threads
  /\ MaxMessages \in Nat \ {0} /\ MaxTurns \in Nat

VARIABLES
  log,        \* the messages, in the order of Message.created_at
  committed,  \* the positions whose transaction committed
  own,        \* AgentOwnership of the Human
  role,       \* HumanAgentGrant.role of the Human
  member,     \* the Task threads in whose Task the Human is an active member
  viewed,     \* HumanThreadView.viewed_through_message_id
  archived,   \* HumanThreadArchive
  tab,        \* the Human's requests in flight
  turns       \* those there were (auxiliary)

humanRows == <<viewed, archived>>
accessRows == <<own, role, member, turns>>
orbitVars == <<log, committed, accessRows, humanRows, tab>>

Positions == 1 .. MaxMessages
Marks == {"view", "archive", "restore"}
Closed == [op |-> "closed", t |-> NoThread, at |-> 0, step |-> "", own |-> {},
           role |-> [a \in Party |-> "none"], rows |-> {}, there |-> FALSE, floor |-> [i \in Positions |-> "nothing"],
           held |-> [a \in Party |-> {}], was |-> {}]

Message(a, b, t, kind, reply, task) ==
  [from |-> a, to |-> b, t |-> t, kind |-> kind, reply |-> reply, task |-> task]

Kinds == {"message", "task"} \cup Results
Messages == [from : Party, to : Party, t : Threads, kind : Kinds,
             reply : Positions \cup {0}, task : BOOLEAN]
Roles == ViewRoles \cup {"none"}
Lookups ==
  [op : {"closed", "list", "thread", "file"} \cup Marks, t : Threads \cup {NoThread},
   at : Positions \cup {0}, step : {"", "grants", "rows", "answer", "write"},
   own : SUBSET Party, role : [Party -> Roles], rows : SUBSET Positions, there : BOOLEAN,
   floor : [Positions -> {"nothing", "pending", "handled"} \cup Results],
   held : [Party -> SUBSET (Roles \cup {"owner"})], was : SUBSET TaskThreads]

OrbitTypeOK ==
  /\ log \in Seq(Messages) /\ Len(log) <= MaxMessages /\ committed \subseteq DOMAIN log
  /\ own \subseteq Party /\ role \in [Party -> Roles] /\ member \subseteq TaskThreads
  /\ viewed \in [Threads -> Positions \cup {0}] /\ archived \subseteq Threads
  /\ tab \in [Tabs -> Lookups]
  /\ turns \in Nat

\* Either nothing was written yet, or one task was delivered.
OrbitInit ==
  /\ \/ log = << >>
     \/ \E a, b \in Party, t \in Threads \ TaskThreads :
          a # b /\ log = <<Message(a, b, t, "task", 0, FALSE)>>
  /\ committed = DOMAIN log
  /\ own \in SUBSET Party
  /\ role \in [Party -> ViewRoles \cup {"none"}]
  /\ \A a \in own : role[a] = "none"
  /\ member \in SUBSET TaskThreads
  /\ viewed = [t \in Threads |-> 0] /\ archived = {}
  /\ tab = [w \in Tabs |-> Closed]
  /\ turns = 0

-----------------------------------------------------------------------------
(* The Agents.  A message is stamped, and commits later or never; each has  *)
(* an attachment.                                                          *)

Ends(i) == {log[i].from, log[i].to}

Write(a, b, t, kind, reply, task) ==
  /\ Len(log) < MaxMessages /\ turns < MaxTurns
  /\ log' = Append(log, Message(a, b, t, kind, reply, task))
  /\ turns' = turns + 1
  /\ UNCHANGED <<committed, own, role, member, humanRows, tab>>

\* send_message: every direct message opens a thread.
OpenThread(a, b, kind) ==
  \E t \in Threads \ TaskThreads :
    /\ \A i \in DOMAIN log : log[i].t # t
    /\ Write(a, b, t, kind, 0, FALSE)

\* _legacy_task_delivery: a Task's message as it is delivered to one Agent.
Bridge(a, b, t) == Write(a, b, t, "message", 0, TRUE)

\* get_visible_message: unless the Human who owns the Agent archived the thread.
VisibleTo(a, i) == /\ i \in committed /\ a \in Ends(i)
                   /\ ~(a \in own /\ log[i].t \in archived)

\* reply_to_message: between the same two Agents, in the same thread; only a
\* task has a result.
ReplyTo(a, i, kind) ==
  /\ VisibleTo(a, i)
  /\ kind \in Results => log[i].kind = "task"
  /\ \E b \in Ends(i) \ {a} : Write(a, b, log[i].t, kind, i, FALSE)

Appear(i) ==
  /\ i \in DOMAIN log \ committed
  /\ committed' = committed \cup {i}
  /\ UNCHANGED <<log, accessRows, humanRows, tab>>

-----------------------------------------------------------------------------
(* Access.  Lookups in flight remember, as a history, what was held.      *)

Holding(o, r) == [a \in Party |-> IF a \in o THEN {"owner"} ELSE {r[a]}]

Remember(o, r, m) ==
  tab' = [w \in Tabs |->
            IF tab[w].op = "closed" THEN tab[w]
            ELSE [tab[w] EXCEPT !.held = [a \in Party |-> @[a] \cup Holding(o, r)[a]],
                                !.was = @ \cup m]]

ChangeAccess(a, r) ==
  /\ turns < MaxTurns
  /\ own' = IF r = "owner" THEN own \cup {a} ELSE own \ {a}
  /\ role' = [role EXCEPT ![a] = IF r = "owner" THEN "none" ELSE r]
  /\ turns' = turns + 1
  /\ Remember(own', role', member)
  /\ UNCHANGED <<log, committed, member, humanRows>>

ChangeMembership(t) ==
  /\ turns < MaxTurns
  /\ member' = IF t \in member THEN member \ {t} ELSE member \cup {t}
  /\ turns' = turns + 1
  /\ Remember(own, role, member')
  /\ UNCHANGED <<log, committed, own, role, humanRows>>

-----------------------------------------------------------------------------
(* What a request makes of the rows it has read.                           *)

\* list_agent_access: the stronger of an Agent's two entries.
RoleRead(q, a) == IF a \in q.own THEN "owner" ELSE q.role[a]

Readable(q, i) == \E a \in Ends(i) : RoleRead(q, a) # "none"

ContentReadable(q, i) == Readable(q, i)

\* _content_allowed
ContentAllowed(q, i) == \E a \in Ends(i) : RoleRead(q, a) \notin {"none", "auditor"}

\* The replies of somebody else.
Replies(i) == {j \in committed : log[j].reply = i /\ log[j].from # log[i].from}

LastReply(i) == Max(Replies(i) \cup {0})

\* _responses_for_tasks: the last result, or else the last reply; 0: none.
Response(i) ==
  LET results == {j \in Replies(i) : log[j].kind \in Results} IN
  IF results # {} THEN Max(results) ELSE LastReply(i)

\* _work_state_for, of a task; a plain reply counts as its completion.
WorkStateFor(i) ==
  LET r == Response(i) IN
  IF r = 0 THEN "pending" ELSE IF log[r].kind \in Results THEN log[r].kind ELSE "handled"

States == [i \in Positions |-> IF i \in committed /\ log[i].kind = "task" THEN WorkStateFor(i) ELSE "nothing"]

InThread(q, t) == {i \in q.rows : log[i].t = t}
Latest(q, t) == Max(InThread(q, t))

\* list_orbit_threads: the threads of one of the two lists.
Listed(q, archive) == {t \in {log[i].t : i \in q.rows} : t \in archived <=> archive}

\* A thread's summary shows its latest content, and a search looks into every
\* content of the thread that is allowed.
Searched(q, t) == {i \in InThread(q, t) : ContentAllowed(q, i)}

\* _orbit_message, list_orbit_threads, list_orbit_tasks: the messages whose
\* content the answer holds.  A task's row also has its result's summary.
Contents(q, view) ==
  LET open == {i \in q.rows : ContentAllowed(q, i)}
      asked == {i \in open : log[i].kind = "task"} IN
  CASE view \in {"messages", "thread"} -> open
    [] view = "threads" -> UNION {Searched(q, t) : t \in Listed(q, FALSE)}
    [] view = "archive" -> UNION {Searched(q, t) : t \in Listed(q, TRUE)}
    [] view = "tasks" -> asked \cup {j \in committed : log[j].kind \in Results
                                                    /\ \E i \in asked : j = Response(i)}
    [] view = "file" -> {q.at}

\* Which list it is decides only what is made of the same rows.
Views(q) == IF q.op = "list" THEN {"messages", "tasks", "threads", "archive"} ELSE {q.op}

\* The tasks whose state the answer says.
Tasks(q) == {i \in q.rows : log[i].kind = "task"}

-----------------------------------------------------------------------------
(* The Human's requests, statement by statement.                           *)

\* A request begins with its first SELECT: the ownerships ...
Ask(w, op, t, at, step) ==
  /\ tab[w].op = "closed"
  /\ tab' = [tab EXCEPT ![w] =
       [Closed EXCEPT !.op = op, !.t = t, !.at = at, !.step = step, !.own = own,
                      !.floor = States, !.held = Holding(own, role), !.was = member]]
  /\ UNCHANGED <<log, committed, accessRows, humanRows>>

AskView(w) ==
  \/ Ask(w, "list", NoThread, 0, "grants")
  \/ \E t \in Threads : Ask(w, "thread", t, 0, "grants")

\* get_orbit_attachment: ... or the membership, which a Task's attachment follows.
AskFile(w) ==
  \E i \in committed :
    /\ log[i].task => log[i].t \in member
    /\ Ask(w, "file", log[i].t, i, IF log[i].task THEN "answer" ELSE "grants")

Read(w, step, q) ==
  /\ tab[w].step = step /\ tab' = [tab EXCEPT ![w] = q]
  /\ UNCHANGED <<log, committed, accessRows, humanRows>>

Refuse(w, q) ==
  /\ tab' = [tab EXCEPT ![w] = Closed]
  /\ UNCHANGED <<log, committed, accessRows, humanRows>>

ReadGrants(w) == Read(w, "grants", [tab[w] EXCEPT !.role = role, !.step = "rows"])

\* _message_rows and _task_rows; a thread nobody may see is not found.
Found(q) ==
  {i \in committed : /\ Readable(q, i)
                     /\ q.t # NoThread => log[i].t = q.t
                     /\ q.op = "file" => i = q.at}

ReadRows(w) ==
  LET q == tab[w]  found == Found(q) IN
  /\ q.step = "rows"
  /\ IF \/ q.t # NoThread /\ found = {}
        \/ q.op = "file" /\ ~ContentAllowed(q, q.at)
     THEN Refuse(w, q)
     ELSE Read(w, "rows", [q EXCEPT !.rows = found, !.step = "answer"])

\* A mark is made on a thread that was found; session.get of its row, first.
ReadOwnRow(w, mark) ==
  LET q == tab[w]
      there == IF mark = "view" THEN viewed[q.t] # 0 ELSE q.t \in archived
  IN /\ q.op = "thread" /\ turns < MaxTurns
     /\ Read(w, "answer", [q EXCEPT !.op = mark, !.there = there, !.at = Latest(q, q.t),
                                    !.step = "write"])

Finished(w) == tab' = [tab EXCEPT ![w] = Closed]

\* The answer of a view, which reads the replies and the Human's rows last.
Answered(w) ==
  LET q == tab[w] IN
  /\ q.step = "answer"
  /\ Finished(w)
  /\ UNCHANGED <<log, committed, accessRows, humanRows>>

\* mark_orbit_thread_viewed: two that insert the row meet its primary key.
MarkViewed(w) ==
  LET q == tab[w] IN
  /\ q.step = "write" /\ q.op = "view"
  /\ viewed' = IF ~q.there /\ viewed[q.t] # 0 THEN viewed ELSE [viewed EXCEPT ![q.t] = q.at]
  /\ Finished(w)
  /\ turns' = turns + 1
  /\ UNCHANGED <<log, committed, own, role, member, archived>>

\* archive_orbit_thread, restore_orbit_thread
Archive(w) ==
  /\ tab[w].step = "write" /\ tab[w].op = "archive"
  /\ archived' = IF tab[w].there THEN archived ELSE archived \cup {tab[w].t}
  /\ Finished(w)
  /\ turns' = turns + 1
  /\ UNCHANGED <<log, committed, own, role, member, viewed>>

Restore(w) ==
  /\ tab[w].step = "write" /\ tab[w].op = "restore"
  /\ archived' = IF tab[w].there THEN archived \ {tab[w].t} ELSE archived
  /\ Finished(w)
  /\ turns' = turns + 1
  /\ UNCHANGED <<log, committed, own, role, member, viewed>>

-----------------------------------------------------------------------------
OrbitNext ==
  \/ \E a, b \in Party :
       a # b /\
         (\/ \E kind \in {"message", "task"} : OpenThread(a, b, kind)
          \/ \E t \in TaskThreads : Bridge(a, b, t))
  \/ \E a \in Party, i \in Positions, kind \in {"message"} \cup Results :
       ReplyTo(a, i, kind)
  \/ \E i \in Positions : Appear(i)
  \/ \E a \in Party, r \in ViewRoles \cup {"owner", "none"} : ChangeAccess(a, r)
  \/ \E t \in TaskThreads : ChangeMembership(t)
  \/ \E w \in Tabs :
       \/ AskView(w) \/ AskFile(w) \/ ReadGrants(w)
       \/ ReadRows(w) \/ (\E mark \in Marks : ReadOwnRow(w, mark)) \/ Answered(w)
       \/ MarkViewed(w) \/ Archive(w) \/ Restore(w)

OrbitSpec == OrbitInit /\ [][OrbitNext]_orbitVars

-----------------------------------------------------------------------------
(* Properties.                                                             *)

\* "auditors receive metadata with message bodies redacted" (SECURITY.md:80): a
\* content that an answer is about to hold, in whatever list, summary, search or
\* download, is of a message over one of whose ends the Human held more than an
\* auditor's role while the request ran, or of a Task that had the Human as a member.
ShownToHolders ==
  \A w \in Tabs : tab[w].step = "answer" =>
    \A view \in Views(tab[w]) : \A i \in Contents(tab[w], view) :
      \/ \E a \in Ends(i) : tab[w].held[a] \ {"none", "auditor"} # {}
      \/ tab[w].op = "file" /\ log[i].task /\ log[i].t \in tab[w].was

\* "A structured result remains authoritative" (comment in _responses_for_tasks):
\* a view never says less of a task than the database did when its request began,
\* so no view takes back what an earlier one said, in whatever order replies are
\* stamped, commit and are read.
ResultsStand ==
  \A w \in Tabs : tab[w].step = "answer" /\ tab[w].op # "file" => \A i \in Tasks(tab[w]) :
    /\ tab[w].floor[i] \in Results => WorkStateFor(i) \in Results
    /\ tab[w].floor[i] = "handled" => WorkStateFor(i) # "pending"
=============================================================================

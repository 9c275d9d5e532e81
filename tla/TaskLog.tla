-------------------------------- MODULE TaskLog --------------------------------
(***************************************************************************)
(* The activity log of one Task: who publishes to it and to whom            *)
(* (tasks/service.py, tasks/preferences.py), the friendships an invitation  *)
(* needs, and a host that follows the log with a saved cursor               *)
(* (agentpost_sdk/task_polling.py).                                         *)
(*                                                                         *)
(* The activities one commit publishes are one entry of the log.  A writer  *)
(* holds the Task's row from the moment it draws a sequence number until it *)
(* commits; what it read before taking the row may have changed.            *)
(***************************************************************************)
EXTENDS Naturals, FiniteSets, FiniteSetsExt

CONSTANTS
  Humans, Agents,
  HumanOf,   \* Agents -> Humans: AgentOwnership
  Native,    \* Agents whose connector reads Task messages itself
  Founder,   \* owner of the Task
  Keys,      \* Idempotency-Keys of messages
  Bodies,
  Sessions,  \* requests in flight at once
  Readers,   \* Agents whose host polls the log
  PageSize,
  MaxLog,    \* entries published
  NoSession, NoAgent, NoHuman, NoKey, NoBody

ASSUME LogAssumption ==
  /\ HumanOf \in [Agents -> Humans] /\ Founder \in Humans
  /\ Readers \subseteq Agents /\ Native \subseteq Agents
  /\ PageSize \in Nat \ {0} /\ MaxLog \in Nat \ {0}
  /\ NoSession \notin Sessions /\ NoAgent \notin Agents /\ NoHuman \notin Humans
  /\ NoKey \notin Keys /\ NoBody \notin Bodies

VARIABLES
  friend,  \* Friendship of the Founder with each other Human: status, requester
  member,  \* TaskMembership.status
  mail,    \* TaskMembership.email_notification_status
  part,    \* active TaskAgentParticipants
  log,     \* published activities
  row,     \* the request that holds the Task's row
  tx,      \* requests in flight
  told,    \* message requests that were answered with an activity
  host     \* what the poller of each reader holds

vars == <<friend, member, mail, part, log, row, tx, told, host>>

Others == Humans \ {Founder}
AgentsOf(h) == {a \in Agents : HumanOf[a] = h}
\* A declined or removed row answers like none: it may be requested again.
FriendStatuses == {"none", "pending", "accepted"}
NotFriends == [status |-> "none", by |-> NoHuman]
Kinds == {"created", "member_added", "member_joined", "member_declined",
          "agents_selected", "member_left", "email_sent", "email_failed",
          "task_message"}
Seqs == 0..MaxLog
Entry == [seq : Seqs, kind : Kinds, h : Humans \cup {NoHuman}, agents : SUBSET Agents,
          by : Agents \cup Humans \cup {NoAgent}, key : Keys \cup {NoKey},
          body : Bodies \cup {NoBody}, sender : Agents \cup {NoAgent}]
Idle == [op |-> "idle", h |-> NoHuman, agents |-> {}, by |-> NoAgent, key |-> NoKey,
         body |-> NoBody, sender |-> NoAgent, held |-> FALSE, seq |-> 0]
Requests == [op : {"idle", "mail"} \cup Kinds, h : Humans \cup {NoHuman},
             agents : SUBSET Agents, by : Agents \cup Humans \cup {NoAgent},
             key : Keys \cup {NoKey}, body : Bodies \cup {NoBody},
             sender : Agents \cup {NoAgent}, held : BOOLEAN, seq : Seqs]

TypeOK ==
  /\ friend \in [Others -> [status : FriendStatuses, by : Humans \cup {NoHuman}]]
  /\ member \in [Humans -> {"none", "invited", "active", "declined"}]
  /\ mail \in [Humans -> {"none", "pending", "sent", "failed"}]
  /\ part \in SUBSET Agents
  /\ log \in SUBSET Entry
  /\ row \in Sessions \cup {NoSession}
  /\ tx \in [Sessions -> Requests]
  /\ told \in SUBSET [by : Agents \cup Humans, key : Keys, body : Bodies]
  /\ host \in [Readers -> [saved : Seqs, from : Seqs, done : SUBSET Seqs,
                           items : SUBSET Seqs, next : Seqs]]

\* create_task has published its first entry; a membership of a Task made
\* before direct joining may still wait for its Human's answer.
Init ==
  /\ friend = [h \in Others |-> NotFriends]
  /\ member \in [Humans -> {"none", "invited", "active"}]
  /\ \A h \in Humans : member[h] = "active" <=> h = Founder
  /\ mail = [h \in Humans |-> "none"]
  /\ part \in SUBSET AgentsOf(Founder) /\ part # {}
  /\ log = {[seq |-> 1, kind |-> "created", h |-> Founder, agents |-> part,
             by |-> Founder, key |-> NoKey, body |-> NoBody, sender |-> NoAgent]}
  /\ row = NoSession
  /\ tx = [s \in Sessions |-> Idle]
  /\ told = {}
  /\ host = [r \in Readers |->
               [saved |-> 0, from |-> 0, done |-> {}, items |-> {}, next |-> 0]]

Last == Max({e.seq : e \in log})

-----------------------------------------------------------------------------
(* Friendships.  Each command locks the pair's row; a first request is      *)
(* inserted under the pair's unique constraint.                            *)

unchangedTask == UNCHANGED <<member, mail, part, log, row, tx, told, host>>

RequestFriendship(h, requester) ==
  /\ friend[h].status = "none"
  /\ friend' = [friend EXCEPT ![h] = [status |-> "pending", by |-> requester]]
  /\ unchangedTask

DecideFriendship(h, decider, accept) ==
  /\ friend[h].status = "pending" /\ friend[h].by # decider
  /\ friend' = [friend EXCEPT ![h] =
       IF accept THEN [status |-> "accepted", by |-> NoHuman] ELSE NotFriends]
  /\ unchangedTask

RemoveFriendship(h) ==
  /\ friend[h].status = "accepted"
  /\ friend' = [friend EXCEPT ![h] = NotFriends]
  /\ unchangedTask

-----------------------------------------------------------------------------
(* Writers.  _task_context(lock=True) and _add_activity take the Task's row *)
(* and keep it until the transaction ends.                                 *)

RowNeverHeld == TRUE
RowFree == row = NoSession
NextSeq == Last + 1

\* The request takes the row and draws its sequence number.
Hold(s, req) ==
  /\ RowFree /\ NextSeq <= MaxLog
  /\ row' = s
  /\ tx' = [tx EXCEPT ![s] = [req EXCEPT !.held = TRUE, !.seq = NextSeq]]
  /\ UNCHANGED <<friend, member, mail, part, log, told, host>>

EntryOf(s) ==
  LET t == tx[s] IN
  [seq |-> t.seq, kind |-> t.op, h |-> t.h, agents |-> t.agents, by |-> t.by,
   key |-> t.key, body |-> t.body, sender |-> t.sender]

\* The transaction commits and the row is released.
Publish(s, e) ==
  /\ tx[s].held
  /\ log' = log \cup {e}
  /\ row' = NoSession
  /\ UNCHANGED <<friend, host>>

\* Active Agents of Human h become exactly those of the entry.
SetAgents(h, agents) == part' = (part \ AgentsOf(h)) \cup agents

\* invite_task_members.  The friendship is read, not locked.
InviteBegin(s, h, a) ==
  /\ tx[s].op = "idle" /\ h \in Others /\ HumanOf[a] = h
  /\ friend[h].status = "accepted"
  /\ member[h] \notin {"active", "invited"}
  /\ Hold(s, [Idle EXCEPT !.op = "member_added", !.h = h, !.agents = {a}, !.by = Founder])

\* The members are committed first; their e-mails go out afterwards.
Invite(s) ==
  LET h == tx[s].h IN
  /\ tx[s].op = "member_added"
  /\ Publish(s, EntryOf(s))
  /\ member' = [member EXCEPT ![h] = "active"]
  /\ mail' = [mail EXCEPT ![h] = "pending"]
  /\ SetAgents(h, tx[s].agents)
  /\ tx' = [tx EXCEPT ![s] = [Idle EXCEPT !.op = "mail", !.h = h]]
  /\ UNCHANGED told

\* The outcome of an e-mail takes the row again to publish itself.
MailBegin(s, outcome) ==
  /\ tx[s].op = "mail"
  /\ Hold(s, [Idle EXCEPT !.op = outcome, !.h = tx[s].h])

NotifyMember(s) ==
  /\ tx[s].op \in {"email_sent", "email_failed"}
  /\ Publish(s, EntryOf(s))
  /\ mail' = [mail EXCEPT ![tx[s].h] =
                IF tx[s].op = "email_sent" THEN "sent" ELSE "failed"]
  /\ tx' = [tx EXCEPT ![s] = Idle]
  /\ UNCHANGED <<member, part, told>>

\* select_task_agents
SelectBegin(s, h, agents) ==
  /\ tx[s].op = "idle" /\ member[h] = "active"
  /\ agents # {} /\ agents \subseteq AgentsOf(h)
  /\ Hold(s, [Idle EXCEPT !.op = "agents_selected", !.h = h, !.agents = agents, !.by = h])

\* decide_task_invitation
AnswerBegin(s, h, agents) ==
  /\ tx[s].op = "idle" /\ member[h] = "invited"
  /\ agents \subseteq AgentsOf(h)
  /\ Hold(s, [Idle EXCEPT !.h = h, !.agents = agents, !.by = h,
       !.op = IF agents = {} THEN "member_declined" ELSE "member_joined"])

\* leave_task
LeaveBegin(s, h) ==
  /\ tx[s].op = "idle" /\ h # Founder /\ member[h] \in {"active", "invited"}
  /\ Hold(s, [Idle EXCEPT !.op = "member_left", !.h = h, !.by = h])

ChangeMember(s) ==
  LET h == tx[s].h IN
  /\ tx[s].op \in {"agents_selected", "member_joined", "member_declined", "member_left"}
  /\ Publish(s, EntryOf(s))
  /\ member' = [member EXCEPT ![h] =
       IF tx[s].op \in {"member_declined", "member_left"} THEN "declined" ELSE "active"]
  /\ SetAgents(h, tx[s].agents)
  /\ tx' = [tx EXCEPT ![s] = Idle]
  /\ UNCHANGED <<mail, told>>

-----------------------------------------------------------------------------
(* Messages.                                                               *)

Participates(a) == a \in part /\ member[HumanOf[a]] = "active"
Recorded(by, k) == {e \in log : e.by = by /\ e.key = k}
Request(by, k, b) == [by |-> by, key |-> k, body |-> b]

ReplayAnyBody(by, k, b) == told' = told \cup {Request(by, k, b)}
\* A key that is already recorded is answered from the record, or refused.
Replay(by, k, b) ==
  told' = IF \E e \in Recorded(by, k) : e.body = b
          THEN told \cup {Request(by, k, b)} ELSE told

\* send_task_message_by_agent looks for its key before it takes the row.
SendLook(s, a, k, b) ==
  /\ tx[s].op = "idle" /\ Participates(a)
  /\ IF Recorded(a, k) # {}
     THEN Replay(a, k, b) /\ UNCHANGED tx
     ELSE /\ tx' = [tx EXCEPT ![s] = [Idle EXCEPT !.op = "task_message", !.by = a,
                                                   !.key = k, !.body = b]]
          /\ UNCHANGED told
  /\ UNCHANGED <<friend, member, mail, part, log, row, host>>

SendHold(s) ==
  /\ tx[s].op = "task_message" /\ ~tx[s].held
  /\ Hold(s, tx[s])

\* send_task_message_by_human takes the row first.
HumanSendBegin(s, h, k, b) ==
  /\ tx[s].op = "idle" /\ member[h] = "active"
  /\ Hold(s, [Idle EXCEPT !.op = "task_message", !.by = h, !.key = k, !.body = b])

\* record_legacy_task_reply: an inbox reply to a forwarded message of Agent a
\* has no key of its own, and its parent's sender has the reply in its inbox.
ReplyLook(s, a, parent) ==
  /\ tx[s].op = "idle" /\ Participates(a)
  /\ parent \in log /\ parent.kind = "task_message"
  /\ a \in parent.agents \ Native
  /\ tx' = [tx EXCEPT ![s] = [Idle EXCEPT !.op = "task_message", !.by = a,
              !.sender = IF parent.by \in Agents THEN parent.by ELSE NoAgent]]
  /\ UNCHANGED <<friend, member, mail, part, log, row, told, host>>

\* _fanout_task_message: every active Agent but the author, and but the one
\* whose inbox got the reply, unless that reads the log itself.
Receives(agents, by, sender) == agents \ ({by} \cup ({sender} \ Native))
Fanout(s) == Receives(part, tx[s].by, tx[s].sender)

\* The key is unique for its author: the second request fails at its flush and
\* is answered like a replay.
Send(s) ==
  LET t == tx[s] IN
  /\ t.op = "task_message" /\ t.held
  /\ IF t.key \in Keys /\ Recorded(t.by, t.key) # {}
     THEN /\ Replay(t.by, t.key, t.body)
          /\ row' = NoSession
          /\ UNCHANGED <<friend, log, host>>
     ELSE /\ Publish(s, [EntryOf(s) EXCEPT !.agents =
                           IF t.by \in Agents THEN Fanout(s) ELSE {}])
          /\ told' = IF t.key \in Keys THEN told \cup {Request(t.by, t.key, t.body)}
                                       ELSE told
  /\ tx' = [tx EXCEPT ![s] = Idle]
  /\ UNCHANGED <<member, mail, part>>

\* A refusal or a lost process: rolled back, the row released.
Abort(s) ==
  /\ tx[s].op # "idle"
  /\ row' = IF tx[s].held THEN NoSession ELSE row
  /\ tx' = [tx EXCEPT ![s] = Idle]
  /\ UNCHANGED <<friend, member, mail, part, log, told, host>>

-----------------------------------------------------------------------------
(* TaskPoller: fetch a page after the cursor, consume its items, then save  *)
(* the cursor.  A host that starts from a briefing begins at the anchor the *)
(* briefing returns and leaves the history before it aside.                *)

unchangedServer == UNCHANGED <<friend, member, mail, part, log, row, tx, told>>

After(n) == {e.seq : e \in {x \in log : x.seq > n}}
\* read_agent_activity_page: the first PageSize entries after n
PageAfter(n) == {m \in After(n) : Cardinality({k \in After(n) : k < m}) < PageSize}
Position(r) == IF host[r].saved > 0 THEN host[r].saved ELSE host[r].from

\* get_agent_task_briefing without a cursor: more than a page of history is
\* omitted, up to the entry before the latest PageSize ones.
Brief(r) ==
  /\ Participates(r) /\ host[r].saved = 0 /\ host[r].items = {} /\ host[r].next = 0
  /\ Last > PageSize
  /\ host' = [host EXCEPT ![r].from = Max({n \in Seqs : Cardinality(After(n)) = PageSize})]
  /\ unchangedServer

Fetch(r) ==
  /\ Participates(r) /\ host[r].next = 0
  /\ LET page == PageAfter(Position(r)) IN
     /\ page # {}
     /\ host' = [host EXCEPT ![r].items = page, ![r].next = Max(page)]
  /\ unchangedServer

Consume(r) ==
  /\ host[r].items # {}
  /\ LET n == Min(host[r].items) IN
     host' = [host EXCEPT ![r].items = @ \ {n}, ![r].done = @ \cup {n}]
  /\ unchangedServer

PageFetched(r) == TRUE
PageConsumed(r) == host[r].items = {}

SaveCursor(r) ==
  /\ host[r].next # 0 /\ PageConsumed(r)
  /\ host' = [host EXCEPT ![r].saved = host[r].next, ![r].next = 0]
  /\ unchangedServer

\* The host stops: only the saved cursor and what was consumed remain.
Crash(r) ==
  /\ host[r].next # 0 \/ (host[r].saved = 0 /\ host[r].from # 0)
  /\ host' = [host EXCEPT ![r].items = {}, ![r].next = 0,
                          ![r].from = IF host[r].saved = 0 THEN 0 ELSE @]
  /\ unchangedServer

-----------------------------------------------------------------------------
Next ==
  \/ \E h \in Others :
       \/ \E x \in {h, Founder} :
            \/ RequestFriendship(h, x)
            \/ \E accept \in BOOLEAN : DecideFriendship(h, x, accept)
       \/ RemoveFriendship(h)
  \/ \E s \in Sessions :
       \/ \E h \in Humans :
            \/ \E a \in Agents : InviteBegin(s, h, a)
            \/ \E agents \in SUBSET Agents : SelectBegin(s, h, agents) \/ AnswerBegin(s, h, agents)
            \/ LeaveBegin(s, h)
            \/ \E k \in Keys, b \in Bodies : HumanSendBegin(s, h, k, b)
       \/ \E outcome \in {"email_sent", "email_failed"} : MailBegin(s, outcome)
       \/ \E a \in Agents :
            \/ \E k \in Keys, b \in Bodies : SendLook(s, a, k, b)
            \/ \E parent \in log : ReplyLook(s, a, parent)
       \/ Invite(s) \/ NotifyMember(s) \/ ChangeMember(s)
       \/ SendHold(s) \/ Send(s) \/ Abort(s)
  \/ \E r \in Readers :
       Brief(r) \/ Fetch(r) \/ Consume(r) \/ SaveCursor(r) \/ Crash(r)

Spec == Init /\ [][Next]_vars

-----------------------------------------------------------------------------
(* Properties.                                                             *)

\* A host that resumes from its saved cursor has consumed every entry up to it,
\* from where it began: no publication commits behind a cursor, and a crash
\* between consuming and saving only repeats entries.
NothingSkipped ==
  \A r \in Readers : \A e \in log :
    host[r].from < e.seq /\ e.seq <= host[r].saved => e.seq \in host[r].done

\* The entry that last decided which Agents of Human h take part, up to n.
Decides(e, h) == /\ e.h = h
                 /\ e.kind \notin {"email_sent", "email_failed"}
PartAt(n) ==
  {a \in Agents :
    LET mine == {e \in log : Decides(e, HumanOf[a]) /\ e.seq < n} IN
    \E e \in mine : /\ \A f \in mine : f.seq <= e.seq
                    /\ a \in e.agents}

\* The log explains the Task: replaying the membership entries gives the active
\* participants, and a message went to exactly those who took part when it was
\* published, whatever invitations, selections and departures it raced with.
LogExplains ==
  /\ part = PartAt(MaxLog + 1)
  /\ \A e \in log : e.kind = "task_message" /\ e.by \in Agents =>
       e.agents = Receives(PartAt(e.seq), e.by, e.sender)

\* A message request that was answered is in the log once, with its content,
\* however often and concurrently it was retried with its key.
AnsweredOnce ==
  \A q \in told : LET mine == Recorded(q.by, q.key) IN
    Cardinality(mine) = 1 /\ \A e \in mine : e.body = q.body
=============================================================================

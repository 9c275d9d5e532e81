------------------------------- MODULE Inbox -------------------------------
(***************************************************************************)
(* The inbox of one recipient Agent: sends and replies of other Agents,    *)
(* retried with their idempotency keys (agentpost/messaging/service.py),   *)
(* the access rules of the recipient (agentpost/access/service.py), the    *)
(* attachments a message takes with it (agentpost/attachments/service.py), *)
(* the notifications Task messages leave in legacy inboxes                 *)
(* (_fanout_task_message), and a reader that pages by cursor.              *)
(*                                                                         *)
(* A send locks the recipient's Agent row until it commits.  A fan-out     *)
(* locks its Task, and takes of the recipient's row only the share lock of *)
(* the foreign key, after inbox_seq has been drawn.                        *)
(***************************************************************************)
EXTENDS Integers

CONSTANTS
    Senders,   \* Agents that send to the recipient
    Keys,      \* Idempotency-Key values they use
    Files,     \* attachments uploaded and not yet bound
    NoFile,    \* stands for no attachment
    Uploader,  \* Attachment.uploader_agent_id of each
    Bodies,    \* request bodies: whether a reply, and the attachment
    Tasks,     \* Tasks whose messages reach the recipient's legacy connector
    Sessions,  \* concurrent database sessions
    MaxSeq     \* bound on deliveries.inbox_seq

ASSUME ConstantsAssumption ==
    /\ NoFile \notin Files
    /\ Uploader \in [Files -> Senders]
    /\ Bodies \subseteq [reply : BOOLEAN, file : Files \union {NoFile}]
    /\ MaxSeq \in Nat

VARIABLES
    seq,      \* last value drawn from the sequence of deliveries.inbox_seq
    box,      \* Delivery.delivery_status at each inbox_seq, "none" before the commit
    origin,   \* the request or the Task message of each Delivery
    record,   \* IdempotencyRecord: the inbox_seq of the message, 0 before the insert
    closed,   \* the recipient's own Agent row refuses every sender
    blocked,  \* senders that the recipient's access rules refuse
    tx,       \* the transaction each session has open
    cursor,   \* inbox_seq in the reader's next_cursor
    seen,     \* deliveries the reader was shown
    told,     \* history: requests answered with a message, and which
    failed    \* history: requests answered "attachment is not available"

server == <<seq, box, origin, record>>
policy == <<closed, blocked>>
reader == <<cursor, seen>>
heard  == <<told, failed>>
vars   == <<server, policy, tx, reader, heard>>

Positions == 1..MaxSeq
Ids       == Senders \X Keys
Requests  == [id : Ids, body : Bodies]
Bridges   == [task : Tasks, file : Files \union {NoFile}]
Nobody    == [by |-> "nobody"]
Statuses  == {"none", "delivered", "read", "acked"}

Idle   == [pc |-> "idle"]
SendTx == [pc : {"looked", "locked"}, request : Requests, closed : BOOLEAN]
FlushTx == [pc : {"flushed"}, request : Requests, seq : Positions]
FanTx  == [pc : {"waiting", "sharing"}, bridge : Bridges, seq : Positions]

TypeOK ==
    /\ seq \in 0..MaxSeq
    /\ box \in [Positions -> Statuses]
    /\ origin \in [Positions -> Requests \union Bridges \union {Nobody}]
    /\ record \in [Ids -> 0..MaxSeq]
    /\ closed \in BOOLEAN /\ blocked \subseteq Senders
    /\ tx \in [Sessions -> {Idle} \union SendTx \union FlushTx \union FanTx]
    /\ cursor \in 0..MaxSeq /\ seen \subseteq Positions
    /\ told \subseteq Requests \X Positions /\ failed \subseteq Requests

Init ==
    /\ seq = 0
    /\ box = [n \in Positions |-> "none"]
    /\ origin = [n \in Positions |-> Nobody]
    /\ record = [i \in Ids |-> 0]
    /\ closed = FALSE /\ blocked = {}
    /\ tx = [s \in Sessions |-> Idle]
    /\ cursor = 0 /\ seen = {}
    /\ told = {} /\ failed = {}

-----------------------------------------------------------------------------
\* Locks on the recipient's Agent row.
LockHeld == \E s \in Sessions : tx[s].pc \in {"locked", "flushed"}
Shared   == \E s \in Sessions : tx[s].pc = "sharing"

NeverHeld == TRUE               \* mutant: the row is read without a lock
LockFree  == ~LockHeld /\ ~Shared

Delivered == {n \in Positions : box[n] # "none"}
Direct    == {n \in Delivered : origin[n] \in Requests}
FileAt(n) == IF n \in Direct THEN origin[n].body.file ELSE origin[n].file

UnboundUnchecked(f) == TRUE     \* mutant: the attachment's state is not compared

\* The conditional UPDATE of bind_attachments, and the row lock it takes: a
\* send holds it only while it commits, a fan-out until it has its other locks.
Unbound(f) == f = NoFile \/ \A n \in Delivered : FileAt(n) # f

Fanning(s)     == tx[s].pc \in {"waiting", "sharing"}
FileUnlocked(f) == f = NoFile \/ \A s \in Sessions : Fanning(s) => tx[s].bridge.file # f

Own(request) == request.body.file \in {NoFile} \union {f \in Files : Uploader[f] = request.id[1]}
Binds(request) ==
    Own(request) /\ FileUnlocked(request.body.file) /\ Unbound(request.body.file)

PutAccepted(n, o) ==            \* mutant: the status before delivery is kept
    box' = [box EXCEPT ![n] = "accepted"] /\ origin' = [origin EXCEPT ![n] = o]

Put(n, o) == /\ box' = [box EXCEPT ![n] = "delivered"]
             /\ origin' = [origin EXCEPT ![n] = o]

-----------------------------------------------------------------------------
(* send_message and reply_to_message.                                      *)

\* The key was used before: the same request gets the same message, another
\* one a conflict.
AnswerUnchecked(request) == TRUE     \* mutant: the digest is not compared
SameDigest(request) == origin[record[request.id]] = request

Replay(request) ==
    /\ record[request.id] # 0
    /\ SameDigest(request)
    /\ told' = told \union {<<request, record[request.id]>>}
    /\ UNCHANGED <<server, policy, tx, reader, failed>>

\* The key is new.  A reply loads its parent, and with it the recipient's row.
Look(s, request) ==
    /\ tx[s] = Idle
    /\ record[request.id] = 0
    /\ tx' = [tx EXCEPT ![s] = [pc |-> "looked", request |-> request, closed |-> closed]]
    /\ UNCHANGED <<server, policy, reader, heard>>

\* The SELECT ... FOR UPDATE does not refresh a row the session loaded before;
\* the access rules are read after it.
AllowedUnlessClosed(t) ==       \* mutant: the access rules are not read
    ~(IF t.request.body.reply THEN t.closed ELSE closed)
Allowed(t) ==
    /\ ~(IF t.request.body.reply THEN t.closed ELSE closed)
    /\ t.request.id[1] \notin blocked

Lock(s) ==
    /\ tx[s].pc = "looked"
    /\ LockFree
    /\ Allowed(tx[s])
    /\ tx' = [tx EXCEPT ![s].pc = "locked"]
    /\ UNCHANGED <<server, policy, reader, heard>>

\* The flush draws inbox_seq; a rollback does not give it back.
Flush(s) ==
    /\ tx[s].pc = "locked"
    /\ seq < MaxSeq
    /\ seq' = seq + 1
    /\ tx' = [tx EXCEPT ![s] = [pc |-> "flushed", request |-> tx[s].request, seq |-> seq + 1]]
    /\ UNCHANGED <<box, origin, record, policy, reader, heard>>

NeverRecorded(id) == TRUE       \* mutant: no unique key on (sender, key)

\* uq_idempotency_sender_key lets the insert through.
Unrecorded(id) == record[id] = 0

Deliver(s) ==
    LET request == tx[s].request
        n       == tx[s].seq
    IN
    /\ tx[s].pc = "flushed"
    /\ Binds(request)
    /\ Unrecorded(request.id)
    /\ Put(n, request)
    /\ record' = [record EXCEPT ![request.id] = n]
    /\ told' = told \union {<<request, n>>}
    /\ tx' = [tx EXCEPT ![s] = Idle]
    /\ UNCHANGED <<seq, policy, reader, failed>>

\* IntegrityError: a concurrent retry was faster, and is answered alike.
Retried(s) ==
    LET request == tx[s].request IN
    /\ tx[s].pc = "flushed"
    /\ Binds(request)
    /\ ~Unrecorded(request.id)
    /\ told' = IF SameDigest(request) THEN told \union {<<request, record[request.id]>>}
                                      ELSE told
    /\ tx' = [tx EXCEPT ![s] = Idle]
    /\ UNCHANGED <<server, policy, reader, failed>>

\* The attachments are bound before the idempotency record is inserted.
Unavailable(s) ==
    LET f == tx[s].request.body.file IN
    /\ tx[s].pc = "flushed"
    /\ ~Own(tx[s].request) \/ (FileUnlocked(f) /\ ~Unbound(f))
    /\ failed' = failed \union {tx[s].request}
    /\ tx' = [tx EXCEPT ![s] = Idle]
    /\ UNCHANGED <<server, policy, reader, told>>

\* The recipient refuses the sender, or the transaction fails: PostgreSQL
\* aborts one of a send and a fan-out that wait for each other's locks.
Abort(s) ==
    /\ tx[s] # Idle
    /\ tx' = [tx EXCEPT ![s] = Idle]
    /\ UNCHANGED <<server, policy, reader, heard>>

-----------------------------------------------------------------------------
(* _fanout_task_message, in a transaction that holds its Task's lock.      *)

\* The attachments are bound first, then the flush draws inbox_seq.
FanOut(s, b) ==
    /\ tx[s] = Idle
    /\ \A z \in Sessions : Fanning(z) => tx[z].bridge.task # b.task
    /\ FileUnlocked(b.file)
    /\ Unbound(b.file)
    /\ seq < MaxSeq
    /\ seq' = seq + 1
    /\ tx' = [tx EXCEPT ![s] = [pc |-> IF LockHeld THEN "waiting" ELSE "sharing",
                                bridge |-> b, seq |-> seq + 1]]
    /\ UNCHANGED <<box, origin, record, policy, reader, heard>>

Share(s) ==
    /\ tx[s].pc = "waiting"
    /\ ~LockHeld
    /\ tx' = [tx EXCEPT ![s].pc = "sharing"]
    /\ UNCHANGED <<server, policy, reader, heard>>

Publish(s) ==
    /\ tx[s].pc = "sharing"
    /\ Put(tx[s].seq, tx[s].bridge)
    /\ tx' = [tx EXCEPT ![s] = Idle]
    /\ UNCHANGED <<seq, record, policy, reader, heard>>

-----------------------------------------------------------------------------
(* The recipient: access rules, pages, read and ACK.                       *)

\* update_access_policy, create_access_rule and delete_access_rule.
SetPolicy ==
    /\ LockFree
    /\ closed' = ~closed
    /\ UNCHANGED <<server, blocked, tx, reader, heard>>

SetRule(x) ==
    /\ LockFree
    /\ blocked' = IF x \in blocked THEN blocked \ {x} ELSE blocked \union {x}
    /\ UNCHANGED <<server, closed, tx, reader, heard>>

PageUpTo(n) == {m \in Delivered : cursor < m /\ m <= n}

\* list_inbox: a page ends at delivery n, which becomes the cursor.
Page(n) ==
    /\ n \in Delivered
    /\ n > cursor
    /\ seen' = seen \union PageUpTo(n)
    /\ cursor' = n
    /\ UNCHANGED <<server, policy, tx, heard>>

ReadFromAny == {"delivered", "acked"}    \* mutant: a read undoes an ACK
ReadFrom    == {"delivered"}

\* transition_delivery: one conditional UPDATE.
Read(n) ==
    /\ box[n] \in ReadFrom
    /\ box' = [box EXCEPT ![n] = "read"]
    /\ UNCHANGED <<seq, origin, record, policy, tx, reader, heard>>

Ack(n) ==
    /\ box[n] \in {"delivered", "read"}
    /\ box' = [box EXCEPT ![n] = "acked"]
    /\ UNCHANGED <<seq, origin, record, policy, tx, reader, heard>>

-----------------------------------------------------------------------------
Send(s) ==
    \/ \E request \in Requests : Look(s, request)
    \/ Lock(s) \/ Flush(s) \/ Deliver(s) \/ Retried(s) \/ Unavailable(s) \/ Abort(s)

TaskMessage(s) ==
    \/ \E b \in Bridges : FanOut(s, b)
    \/ Share(s) \/ Publish(s)

Recipient ==
    \/ SetPolicy
    \/ \E x \in Senders : SetRule(x)
    \/ \E n \in Positions : Page(n) \/ Read(n) \/ Ack(n)

Next ==
    \/ \E request \in Requests : Replay(request)
    \/ \E s \in Sessions : Send(s) \/ TaskMessage(s)
    \/ Recipient

Spec == Init /\ [][Next]_vars

-----------------------------------------------------------------------------
(* Properties.                                                             *)

\* However its retries overlap, a request leaves at most one message.
OnePerRequest ==
    \A m, n \in Direct : origin[m].id = origin[n].id => m = n

\* Every sender told that a request was accepted is told of a message in the
\* inbox that carries this very request.
AnswerHolds ==
    \A a \in told : box[a[2]] # "none" /\ origin[a[2]] = a[1]

\* An attachment goes with one message only.
FileOnce ==
    \A m, n \in Delivered : FileAt(m) = FileAt(n) /\ FileAt(m) # NoFile => m = n

\* A direct message is never behind the reader's cursor unseen: the
\* recipient's lock makes the order of inbox_seq the order of commits.
DirectSeen == \A n \in Direct : n <= cursor => n \in seen

\* The inductive invariant behind the four.  A value drawn from the sequence
\* belongs to one transaction and to no delivery yet.
HasSeq(s) == tx[s].pc \in {"flushed", "waiting", "sharing"}

DrawnOnce ==
    /\ \A n \in Delivered : n <= seq
    /\ \A s \in Sessions : HasSeq(s) => tx[s].seq <= seq /\ box[tx[s].seq] = "none"
    /\ \A s, z \in Sessions :
          HasSeq(s) /\ HasSeq(z) /\ tx[s].seq = tx[z].seq => s = z

\* One send holds the recipient's lock, and no foreign key check shares it.
LockExclusive ==
    /\ \A s, z \in Sessions :
          tx[s].pc \in {"locked", "flushed"} /\ tx[z].pc \in {"locked", "flushed"} => s = z
    /\ ~(LockHeld /\ Shared)

\* No rule against a sender is made while its message is being written.
LockedAllowed ==
    \A s \in Sessions :
        tx[s].pc \in {"locked", "flushed"} => tx[s].request.id[1] \notin blocked

\* So nothing later is delivered between its flush and its commit.
FlushedIsLatest ==
    \A s \in Sessions : tx[s].pc = "flushed" => \A n \in Delivered : n < tx[s].seq

\* A fan-out that bound an attachment holds it alone until it commits.
FilesHeld ==
    \A s \in Sessions : Fanning(s) /\ tx[s].bridge.file # NoFile =>
        /\ Unbound(tx[s].bridge.file)
        /\ \A z \in Sessions : Fanning(z) /\ tx[z].bridge.file = tx[s].bridge.file => z = s

\* The idempotency records and the direct messages match one to one.
RecordsMatch ==
    /\ \A n \in Direct : record[origin[n].id] = n
    /\ \A i \in Ids : record[i] # 0 => record[i] \in Direct /\ origin[record[i]].id = i

CursorShown == cursor = 0 \/ cursor \in Delivered

InboxInv ==
    /\ TypeOK
    /\ \A n \in Delivered : origin[n] # Nobody
    /\ DrawnOnce
    /\ LockExclusive
    /\ LockedAllowed
    /\ FlushedIsLatest
    /\ FilesHeld
    /\ RecordsMatch
    /\ CursorShown
    /\ OnePerRequest
    /\ AnswerHolds
    /\ FileOnce
    /\ DirectSeen

\* No message of a sender arrives after the recipient's rule against it.
BlockedSilent ==
    [][\A n \in Positions : box[n] = "none" /\ n \in Direct'
            => origin'[n].id[1] \notin blocked]_vars

\* A message that was acknowledged stays so, and none becomes unread.
ForwardOnly ==
    [][\A n \in Positions : /\ box[n] = "acked" => box'[n] = "acked"
                            /\ box[n] = "read"  => box'[n] \in {"read", "acked"}]_vars

\* No delivery is ever behind the reader's cursor unseen.
AllSeen == \A n \in Delivered : n <= cursor => n \in seen

\* A request whose message was delivered is never answered with a failure.
RetrySafe == \A q \in failed : record[q.id] = 0 \/ ~SameDigest(q)
=============================================================================

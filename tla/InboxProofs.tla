----------------------------- MODULE InboxProofs -----------------------------
(***************************************************************************)
(* Proofs about Inbox for every value of its constants: retries leave one  *)
(* message, answers stay true, attachments go once, and no direct message  *)
(* falls behind a reader's cursor; and of Recipients, that a text is       *)
(* resolved to an Agent it means.                                          *)
(***************************************************************************)
EXTENDS Inbox, Recipients, WellFoundedInduction, TLAPS

TxStates == {Idle} \union SendTx \union FlushTx \union FanTx

\* What the program counter of a transaction says about its fields.
LEMMA TxFields ==
    ASSUME NEW t \in TxStates
    PROVE  /\ t.pc \in {"idle", "looked", "locked", "flushed", "waiting", "sharing"}
           /\ t.pc \in {"looked", "locked"} => t \in SendTx
           /\ t.pc = "flushed" => t \in FlushTx
           /\ t.pc \in {"waiting", "sharing"} => t \in FanTx
<1>1. Idle.pc = "idle"
  BY DEF Idle
<1>2. \A u \in SendTx : u.pc \in {"looked", "locked"}
  BY DEF SendTx
<1>3. \A u \in FlushTx : u.pc = "flushed"
  BY DEF FlushTx
<1>4. \A u \in FanTx : u.pc \in {"waiting", "sharing"}
  BY DEF FanTx
<1> QED BY <1>1, <1>2, <1>3, <1>4 DEF TxStates

LEMMA SendFields ==
    ASSUME NEW t \in SendTx
    PROVE  t.request \in Requests /\ t.closed \in BOOLEAN
BY DEF SendTx

LEMMA FlushFields ==
    ASSUME NEW t \in FlushTx
    PROVE  t.request \in Requests /\ t.seq \in Positions
BY DEF FlushTx

LEMMA FanFields ==
    ASSUME NEW t \in FanTx
    PROVE  t.bridge \in Bridges /\ t.seq \in Positions
BY DEF FanTx

\* Requests, Task messages and nobody are told apart by their fields.
LEMMA OriginsDiffer ==
    /\ \A b \in Bridges : b \notin Requests /\ b # Nobody /\ b.file \in Files \union {NoFile}
    /\ \A q \in Requests : q # Nobody /\ q.id \in Ids /\ q.body.file \in Files \union {NoFile}
    /\ Nobody \notin Requests
BY ConstantsAssumption DEF Bridges, Requests, Nobody

LEMMA InitInboxInv == Init => InboxInv
<1> SUFFICES ASSUME Init PROVE InboxInv
  OBVIOUS
<1>1. TypeOK
  <2>1. seq \in 0..MaxSeq /\ cursor \in 0..MaxSeq /\ record \in [Ids -> 0..MaxSeq]
    BY ConstantsAssumption DEF Init
  <2>2. /\ box \in [Positions -> Statuses]
        /\ origin \in [Positions -> Requests \union Bridges \union {Nobody}]
        /\ tx \in [Sessions -> {Idle} \union SendTx \union FlushTx \union FanTx]
    BY DEF Init, Statuses
  <2> QED BY <2>1, <2>2 DEF Init, TypeOK
<1>2. Delivered = {} /\ Direct = {}
  BY DEF Init, Delivered, Direct
<1>3. \A s \in Sessions : tx[s].pc = "idle"
  BY DEF Init, Idle
<1>4. DrawnOnce
  BY <1>2, <1>3 DEF DrawnOnce, HasSeq
<1>5. LockExclusive /\ LockedAllowed
  BY <1>3 DEF LockExclusive, LockHeld, Shared, LockedAllowed
<1>6. FlushedIsLatest
  BY <1>2 DEF FlushedIsLatest
<1>7. RecordsMatch /\ FilesHeld
  BY <1>2, <1>3 DEF RecordsMatch, FilesHeld, Fanning, Init
<1>8. CursorShown
  BY DEF CursorShown, Init
<1>9. OnePerRequest /\ AnswerHolds /\ FileOnce /\ DirectSeen
  BY <1>2 DEF OnePerRequest, AnswerHolds, FileOnce, DirectSeen, Init
<1> QED BY <1>1, <1>2, <1>4, <1>5, <1>6, <1>7, <1>8, <1>9 DEF InboxInv

-----------------------------------------------------------------------------
\* A step that touches no delivery, record, page or answer keeps all that is
\* said of them.
LEMMA ServerKept ==
    ASSUME InboxInv, UNCHANGED <<box, origin, record>>
    PROVE  /\ \A n \in Delivered' : origin'[n] # Nobody
           /\ RecordsMatch'
           /\ OnePerRequest'
           /\ FileOnce'
           /\ Delivered' = Delivered /\ Direct' = Direct
           /\ \A f \in Files : Unbound(f) => Unbound(f)'
           /\ (UNCHANGED tx => FilesHeld')
           /\ (UNCHANGED <<tx, blocked>> => LockedAllowed')
           /\ (UNCHANGED told => AnswerHolds')
           /\ (UNCHANGED reader => CursorShown' /\ DirectSeen')
<1>1. Delivered' = Delivered /\ Direct' = Direct
  BY DEF Delivered, Direct
<1>2. \A n \in Delivered : origin'[n] # Nobody
  BY DEF InboxInv
<1>3. RecordsMatch' /\ OnePerRequest'
  BY <1>1 DEF InboxInv, RecordsMatch, OnePerRequest
<1>4. FileOnce'
  BY <1>1 DEF InboxInv, FileOnce, FileAt
<1>5. UNCHANGED told => AnswerHolds'
  BY DEF InboxInv, AnswerHolds
<1>6. UNCHANGED reader => CursorShown' /\ DirectSeen'
  BY <1>1 DEF InboxInv, reader, CursorShown, DirectSeen
<1>7. \A f \in Files : Unbound(f) => Unbound(f)'
  BY <1>1 DEF Unbound, FileAt
<1>8. UNCHANGED tx => FilesHeld'
  BY <1>1 DEF InboxInv, FilesHeld, Fanning, Unbound, FileAt
<1>9. UNCHANGED <<tx, blocked>> => LockedAllowed'
  BY DEF InboxInv, LockedAllowed
<1> QED BY <1>1, <1>2, <1>3, <1>4, <1>5, <1>6, <1>7, <1>8, <1>9

LEMMA FanningFile ==
    ASSUME TypeOK, NEW s \in Sessions, Fanning(s)
    PROVE  tx[s].bridge.file \in Files \union {NoFile}
<1>1. tx[s] \in FanTx
  BY TxFields DEF Fanning, TypeOK, TxStates
<1> QED BY <1>1, FanFields, OriginsDiffer

\* One session changes its transaction; it draws no new value.
LEMMA TxStep ==
    ASSUME InboxInv, NEW s \in Sessions, NEW t \in TxStates,
           tx' = [tx EXCEPT ![s] = t],
           UNCHANGED <<seq, box, origin, record, blocked>>,
           t.pc \in {"flushed", "waiting", "sharing"} => HasSeq(s) /\ t.seq = tx[s].seq,
           t.pc # "flushed",
           t.pc = "locked" => LockFree /\ t.request.id[1] \notin blocked,
           t.pc = "sharing" => ~LockHeld \/ tx[s].pc = "sharing",
           t.pc \in {"waiting", "sharing"} => Fanning(s) /\ t.bridge = tx[s].bridge
    PROVE  DrawnOnce' /\ LockExclusive' /\ LockedAllowed' /\ FlushedIsLatest' /\ FilesHeld'
<1>1. /\ tx'[s] = t
      /\ \A z \in Sessions : z # s => tx'[z] = tx[z]
  BY DEF InboxInv, TypeOK
<1>2. Delivered' = Delivered
  BY DEF Delivered
<1>3. DrawnOnce'
  BY <1>1, <1>2 DEF InboxInv, DrawnOnce, HasSeq
<1>4. LockExclusive' /\ LockedAllowed'
  BY <1>1 DEF InboxInv, LockExclusive, LockFree, LockHeld, Shared, LockedAllowed
<1>5. FlushedIsLatest'
  BY <1>1, <1>2 DEF InboxInv, FlushedIsLatest
<1>6. FilesHeld'
  <2>1. \A z \in Sessions : Fanning(z)' =>
           Fanning(z) /\ tx'[z].bridge = tx[z].bridge /\ tx[z].bridge.file \in Files \union {NoFile}
    BY <1>1, FanningFile DEF Fanning, InboxInv
  <2> QED BY <2>1, ServerKept DEF InboxInv, FilesHeld
<1> QED BY <1>3, <1>4, <1>5, <1>6

LEMMA LookInv ==
    ASSUME InboxInv, NEW s \in Sessions, NEW request \in Requests, Look(s, request)
    PROVE  InboxInv'
<1> DEFINE t == [pc |-> "looked", request |-> request, closed |-> closed]
<1>1. t \in TxStates
  BY DEF InboxInv, TypeOK, TxStates, SendTx
<1>2. TypeOK'
  BY <1>1 DEF Look, InboxInv, TypeOK, TxStates, server, policy, reader, heard
<1>3. DrawnOnce' /\ LockExclusive' /\ LockedAllowed' /\ FlushedIsLatest' /\ FilesHeld'
  BY <1>1, TxStep DEF Look, server, policy
<1> QED BY <1>2, <1>3, ServerKept DEF Look, server, reader, heard, InboxInv

LEMMA LockInv ==
    ASSUME InboxInv, NEW s \in Sessions, Lock(s)
    PROVE  InboxInv'
<1> DEFINE t == [tx[s] EXCEPT !.pc = "locked"]
<1>1. tx[s] \in SendTx
  BY TxFields DEF Lock, InboxInv, TypeOK, TxStates
<1>2. t \in SendTx /\ t.pc = "locked" /\ t.request = tx[s].request
  BY <1>1 DEF SendTx
<1>3. TypeOK'
  BY <1>2 DEF Lock, InboxInv, TypeOK, server, policy, reader, heard
<1>4. tx' = [tx EXCEPT ![s] = t]
  BY DEF Lock
<1>5. DrawnOnce' /\ LockExclusive' /\ LockedAllowed' /\ FlushedIsLatest' /\ FilesHeld'
  BY <1>2, <1>4, TxStep DEF Lock, Allowed, server, policy, TxStates
<1> QED BY <1>3, <1>5, ServerKept DEF Lock, server, reader, heard, InboxInv

LEMMA ShareInv ==
    ASSUME InboxInv, NEW s \in Sessions, Share(s)
    PROVE  InboxInv'
<1> DEFINE t == [tx[s] EXCEPT !.pc = "sharing"]
<1>1. tx[s] \in FanTx
  BY TxFields DEF Share, InboxInv, TypeOK, TxStates
<1>2. t \in FanTx /\ t.pc = "sharing" /\ t.seq = tx[s].seq /\ t.bridge = tx[s].bridge
  BY <1>1 DEF FanTx
<1>3. TypeOK'
  BY <1>2 DEF Share, InboxInv, TypeOK, server, policy, reader, heard
<1>4. tx' = [tx EXCEPT ![s] = t]
  BY DEF Share
<1>5. DrawnOnce' /\ LockExclusive' /\ LockedAllowed' /\ FlushedIsLatest' /\ FilesHeld'
  BY <1>2, <1>4, TxStep DEF Share, server, policy, TxStates, HasSeq, Fanning
<1> QED BY <1>3, <1>5, ServerKept DEF Share, server, reader, heard, InboxInv

LEMMA AbortInv ==
    ASSUME InboxInv, NEW s \in Sessions, Abort(s)
    PROVE  InboxInv'
<1>1. Idle \in TxStates /\ Idle.pc = "idle"
  BY DEF TxStates, Idle
<1>2. TypeOK'
  BY <1>1 DEF Abort, InboxInv, TypeOK, TxStates, server, policy, reader, heard
<1>3. DrawnOnce' /\ LockExclusive' /\ LockedAllowed' /\ FlushedIsLatest' /\ FilesHeld'
  BY <1>1, TxStep DEF Abort, server, policy
<1> QED BY <1>2, <1>3, ServerKept DEF Abort, server, reader, heard, InboxInv

\* A request that failed or is answered from the record ends likewise.
LEMMA AnswerInv ==
    ASSUME InboxInv, NEW s \in Sessions, Retried(s) \/ Unavailable(s)
    PROVE  InboxInv'
<1>1. Idle \in TxStates /\ Idle.pc = "idle"
  BY DEF TxStates, Idle
<1>2. tx[s] \in FlushTx
  BY TxFields DEF Retried, Unavailable, InboxInv, TypeOK, TxStates
<1>3. tx[s].request \in Requests /\ tx[s].request.id \in Ids
  BY <1>2, FlushFields, OriginsDiffer
<1>4. told' \subseteq Requests \X Positions /\ failed' \subseteq Requests
  BY <1>3 DEF Retried, Unavailable, Unrecorded, InboxInv, TypeOK, Positions
<1>5. TypeOK'
  BY <1>1, <1>4 DEF Retried, Unavailable, InboxInv, TypeOK, TxStates, server, policy, reader
<1>6. DrawnOnce' /\ LockExclusive' /\ LockedAllowed' /\ FlushedIsLatest' /\ FilesHeld'
  BY <1>1, TxStep DEF Retried, Unavailable, server, policy
<1>7. AnswerHolds'
  <2>1. CASE Retried(s)
    <3>1. record[tx[s].request.id] \in Direct
      BY <1>3, <2>1 DEF Retried, Unrecorded, InboxInv, RecordsMatch
    <3> QED BY <2>1, <3>1 DEF Retried, SameDigest, InboxInv, AnswerHolds, server, Direct, Delivered
  <2>2. CASE Unavailable(s)
    BY <2>2 DEF Unavailable, InboxInv, AnswerHolds, server
  <2> QED BY <2>1, <2>2
<1> QED BY <1>5, <1>6, <1>7, ServerKept DEF Retried, Unavailable, server, reader, InboxInv

LEMMA ReplayInv ==
    ASSUME InboxInv, NEW request \in Requests, Replay(request)
    PROVE  InboxInv'
<1>1. request.id \in Ids
  BY OriginsDiffer
<1>2. record[request.id] \in Direct
  BY <1>1 DEF Replay, InboxInv, RecordsMatch
<1>3. TypeOK'
  BY <1>2 DEF Replay, InboxInv, TypeOK, server, policy, reader, Direct, Delivered
<1>4. AnswerHolds'
  BY <1>2 DEF Replay, SameDigest, InboxInv, AnswerHolds, server, Direct, Delivered
<1>5. DrawnOnce' /\ LockExclusive' /\ FlushedIsLatest'
  BY DEF Replay, InboxInv, DrawnOnce, HasSeq, LockExclusive, LockHeld, Shared,
         FlushedIsLatest, Delivered, server
<1> QED BY <1>3, <1>4, <1>5, ServerKept DEF Replay, server, policy, reader, InboxInv

-----------------------------------------------------------------------------
\* A value drawn from the sequence is new: it lies above every delivery and
\* above every value that a transaction holds.
LEMMA DrawStep ==
    ASSUME InboxInv, NEW s \in Sessions, NEW t \in TxStates,
           seq < MaxSeq, seq' = seq + 1,
           tx' = [tx EXCEPT ![s] = t],
           UNCHANGED <<box, origin, record, blocked>>,
           t.pc \in {"flushed", "waiting", "sharing"}, t.seq = seq + 1,
           t.pc = "flushed" => tx[s].pc = "locked" /\ t.request = tx[s].request,
           t.pc = "sharing" => ~LockHeld,
           t.pc \in {"waiting", "sharing"} =>
               Unbound(t.bridge.file) /\ FileUnlocked(t.bridge.file)
    PROVE  DrawnOnce' /\ LockExclusive' /\ LockedAllowed' /\ FlushedIsLatest' /\ FilesHeld'
<1>1. /\ tx'[s] = t
      /\ \A z \in Sessions : z # s => tx'[z] = tx[z]
  BY DEF InboxInv, TypeOK
<1>2. Delivered' = Delivered
  BY DEF Delivered
<1>3. seq \in Int /\ seq + 1 \in Positions /\ \A n \in Delivered : n \in Int /\ n <= seq
  BY ConstantsAssumption DEF InboxInv, TypeOK, Positions, DrawnOnce, Delivered
<1>4. box[seq + 1] = "none"
  BY <1>3 DEF Delivered
<1>5. \A z \in Sessions : HasSeq(z) => tx[z].seq \in Int /\ tx[z].seq <= seq
  <2> SUFFICES ASSUME NEW z \in Sessions, HasSeq(z)
               PROVE  tx[z].seq \in Int /\ tx[z].seq <= seq
    OBVIOUS
  <2>1. tx[z] \in FlushTx \union FanTx
    BY TxFields DEF HasSeq, InboxInv, TypeOK, TxStates
  <2> QED BY <2>1, FlushFields, FanFields DEF InboxInv, DrawnOnce, Positions
<1>6. DrawnOnce'
  <2>1. \A n \in Delivered' : n <= seq'
    BY <1>2, <1>3
  <2>2. \A z \in Sessions : HasSeq(z)' => tx'[z].seq <= seq' /\ box'[tx'[z].seq] = "none"
    BY <1>1, <1>3, <1>4, <1>5 DEF InboxInv, DrawnOnce, HasSeq
  <2>3. \A y, z \in Sessions :
           HasSeq(y)' /\ HasSeq(z)' /\ tx'[y].seq = tx'[z].seq => y = z
    BY <1>1, <1>3, <1>5 DEF InboxInv, DrawnOnce, HasSeq
  <2> QED BY <2>1, <2>2, <2>3 DEF DrawnOnce
<1>7. LockExclusive' /\ LockedAllowed'
  BY <1>1 DEF InboxInv, LockExclusive, LockHeld, Shared, LockedAllowed
<1>8. FlushedIsLatest'
  BY <1>1, <1>2, <1>3 DEF InboxInv, FlushedIsLatest
<1>9. FilesHeld'
  <2>1. t.pc \in {"waiting", "sharing"} => t.bridge.file \in Files \union {NoFile}
    BY TxFields, FanFields, OriginsDiffer
  <2>2. \A f \in Files : Unbound(f) => Unbound(f)'
    BY ServerKept
  <2>3. \A z \in Sessions : Fanning(z)' =>
           /\ tx'[z].bridge.file \in Files \union {NoFile}
           /\ tx'[z].bridge.file # NoFile => Unbound(tx'[z].bridge.file)
    BY <1>1, <2>1, FanningFile DEF Fanning, InboxInv, FilesHeld
  <2>4. \A y, z \in Sessions :
           Fanning(y)' /\ Fanning(z)' /\ tx'[y].bridge.file # NoFile
              /\ tx'[y].bridge.file = tx'[z].bridge.file => y = z
    BY <1>1 DEF Fanning, FileUnlocked, InboxInv, FilesHeld
  <2> QED BY <2>2, <2>3, <2>4 DEF FilesHeld
<1> QED BY <1>6, <1>7, <1>8, <1>9

LEMMA FlushInv ==
    ASSUME InboxInv, NEW s \in Sessions, Flush(s)
    PROVE  InboxInv'
<1> DEFINE t == [pc |-> "flushed", request |-> tx[s].request, seq |-> seq + 1]
<1>1. tx[s] \in SendTx
  BY TxFields DEF Flush, InboxInv, TypeOK, TxStates
<1>2. seq + 1 \in Positions /\ seq + 1 \in 0..MaxSeq
  BY ConstantsAssumption DEF Flush, InboxInv, TypeOK, Positions
<1>3. t \in FlushTx
  BY <1>1, <1>2, SendFields DEF FlushTx
<1>4. TypeOK'
  BY <1>2, <1>3 DEF Flush, InboxInv, TypeOK, policy, reader, heard
<1>5. DrawnOnce' /\ LockExclusive' /\ LockedAllowed' /\ FlushedIsLatest' /\ FilesHeld'
  BY <1>3, DrawStep DEF Flush, policy, TxStates
<1> QED BY <1>4, <1>5, ServerKept DEF Flush, reader, heard, InboxInv

LEMMA FanOutInv ==
    ASSUME InboxInv, NEW s \in Sessions, NEW b \in Bridges, FanOut(s, b)
    PROVE  InboxInv'
<1> DEFINE t == [pc |-> IF LockHeld THEN "waiting" ELSE "sharing", bridge |-> b, seq |-> seq + 1]
<1>1. seq + 1 \in Positions /\ seq + 1 \in 0..MaxSeq
  BY ConstantsAssumption DEF FanOut, InboxInv, TypeOK, Positions
<1>2. t \in FanTx
  BY <1>1 DEF FanTx
<1>3. TypeOK'
  BY <1>1, <1>2 DEF FanOut, InboxInv, TypeOK, policy, reader, heard
<1>4. DrawnOnce' /\ LockExclusive' /\ LockedAllowed' /\ FlushedIsLatest' /\ FilesHeld'
  BY <1>2, DrawStep DEF FanOut, policy, TxStates
<1> QED BY <1>3, <1>4, ServerKept DEF FanOut, reader, heard, InboxInv

-----------------------------------------------------------------------------
\* A commit adds the one delivery that its transaction drew.
LEMMA PutStep ==
    ASSUME InboxInv, NEW s \in Sessions, NEW o \in Requests \union Bridges,
           tx[s].pc \in {"flushed", "sharing"},
           Put(tx[s].seq, o), NEW g, g = IF o \in Requests THEN o.body.file ELSE o.file,
           Unbound(g),
           \A z \in Sessions : z # s /\ Fanning(z) => tx[z].bridge.file # g \/ g = NoFile,
           tx' = [tx EXCEPT ![s] = Idle],
           UNCHANGED <<seq, blocked>>
    PROVE  LET n == tx[s].seq IN
           /\ n \in Positions /\ n \notin Delivered
           /\ Delivered' = Delivered \union {n}
           /\ origin'[n] = o
           /\ \A m \in Delivered : m \in Positions /\ m # n /\ origin'[m] = origin[m]
           /\ DrawnOnce' /\ LockExclusive' /\ LockedAllowed' /\ FlushedIsLatest' /\ FilesHeld' /\ FileOnce'
<1> DEFINE n == tx[s].seq
<1>1. n \in Positions
  <2>1. tx[s] \in FlushTx \union FanTx
    BY TxFields DEF InboxInv, TypeOK, TxStates
  <2> QED BY <2>1, FlushFields, FanFields
<1>2. HasSeq(s) /\ n \notin Delivered /\ n <= seq
  BY DEF HasSeq, InboxInv, DrawnOnce, Delivered
<1>3. /\ box' = [box EXCEPT ![n] = "delivered"]
      /\ origin' = [origin EXCEPT ![n] = o]
      /\ box \in [Positions -> Statuses]
      /\ origin \in [Positions -> Requests \union Bridges \union {Nobody}]
  BY DEF Put, InboxInv, TypeOK
<1>4. Delivered' = Delivered \union {n}
  BY <1>1, <1>3 DEF Delivered
<1>5. origin'[n] = o /\ \A m \in Delivered : m \in Positions /\ m # n /\ origin'[m] = origin[m]
  BY <1>1, <1>2, <1>3 DEF Delivered
<1>6. /\ tx'[s].pc = "idle"
      /\ \A z \in Sessions : z # s => tx'[z] = tx[z]
  BY DEF InboxInv, TypeOK, Idle
<1>7. DrawnOnce'
  <2>1. \A m \in Delivered' : m <= seq'
    BY <1>2, <1>4 DEF InboxInv, DrawnOnce
  <2>2. \A z \in Sessions : HasSeq(z)' => z # s /\ HasSeq(z) /\ tx'[z] = tx[z]
    BY <1>6 DEF HasSeq
  <2>3. \A z \in Sessions : HasSeq(z)' => tx'[z].seq <= seq' /\ box'[tx'[z].seq] = "none"
    BY <1>1, <1>2, <1>3, <2>2 DEF InboxInv, DrawnOnce
  <2>4. \A y, z \in Sessions :
           HasSeq(y)' /\ HasSeq(z)' /\ tx'[y].seq = tx'[z].seq => y = z
    BY <2>2 DEF InboxInv, DrawnOnce
  <2> QED BY <2>1, <2>3, <2>4 DEF DrawnOnce
<1>8. LockExclusive' /\ LockedAllowed'
  BY <1>6 DEF InboxInv, LockExclusive, LockHeld, Shared, LockedAllowed
<1>9. \A z \in Sessions : tx'[z].pc # "flushed"
  BY <1>6 DEF InboxInv, LockExclusive, LockHeld, Shared
<1>10. FlushedIsLatest'
  BY <1>9 DEF FlushedIsLatest
<1>11. /\ \A m \in Delivered : FileAt(m)' = FileAt(m)
       /\ \A k \in {n} : FileAt(k)' = g
  BY <1>4, <1>5 DEF FileAt, Direct
<1>12. FileOnce'
  <2>1. \A m \in Delivered, k \in {n} : FileAt(m) # FileAt(k)' \/ FileAt(k)' = NoFile
    BY <1>11 DEF Unbound
  <2>2. \A m, k \in Delivered' : FileAt(m)' = FileAt(k)' /\ FileAt(m)' # NoFile => m = k
    BY <1>4, <1>11, <2>1 DEF InboxInv, FileOnce
  <2> QED BY <2>2 DEF FileOnce
<1>13. FilesHeld'
  <2>1. \A z \in Sessions : Fanning(z)' => z # s /\ Fanning(z) /\ tx'[z] = tx[z]
    BY <1>6 DEF Fanning
  <2>2. \A f : f # g /\ f # NoFile /\ Unbound(f) => \A m \in Delivered' : FileAt(m)' # f
    BY <1>4, <1>11 DEF Unbound
  <2>3. \A z \in Sessions : Fanning(z)' /\ tx'[z].bridge.file # NoFile =>
           \A m \in Delivered' : FileAt(m)' # tx'[z].bridge.file
    BY <2>1, <2>2 DEF InboxInv, FilesHeld
  <2>4. \A y, z \in Sessions :
           Fanning(y)' /\ Fanning(z)' /\ tx'[y].bridge.file # NoFile
              /\ tx'[y].bridge.file = tx'[z].bridge.file => y = z
    BY <2>1 DEF InboxInv, FilesHeld
  <2> QED BY <2>3, <2>4 DEF FilesHeld, Unbound
<1> QED BY <1>1, <1>2, <1>4, <1>5, <1>7, <1>8, <1>10, <1>12, <1>13

LEMMA DeliverInv ==
    ASSUME InboxInv, NEW s \in Sessions, Deliver(s)
    PROVE  InboxInv'
<1> DEFINE request == tx[s].request
           n       == tx[s].seq
<1>1. tx[s] \in FlushTx
  BY TxFields DEF Deliver, InboxInv, TypeOK, TxStates
<1>2. request \in Requests /\ request.id \in Ids /\ n \in Positions
  BY <1>1, FlushFields, OriginsDiffer
<1>3. /\ Put(n, request)
      /\ record' = [record EXCEPT ![request.id] = n]
      /\ told' = told \union {<<request, n>>}
      /\ record[request.id] = 0
  BY DEF Deliver, Unrecorded
<1>4. /\ n \notin Delivered
      /\ Delivered' = Delivered \union {n}
      /\ origin'[n] = request
      /\ \A m \in Delivered : m \in Positions /\ m # n /\ origin'[m] = origin[m]
      /\ DrawnOnce' /\ LockExclusive' /\ LockedAllowed' /\ FlushedIsLatest' /\ FilesHeld' /\ FileOnce'
  <2> DEFINE g == request.body.file
  <2>1. Unbound(g) /\ \A z \in Sessions : Fanning(z) => tx[z].bridge.file # g \/ g = NoFile
    BY DEF Deliver, Binds, FileUnlocked
  <2> QED BY ZenonT(60), <1>2, <2>1, PutStep DEF Deliver, policy
<1>5. Direct' = Direct \union {n}
  BY <1>2, <1>4 DEF Direct
<1>6. TypeOK'
  <2>1. box' \in [Positions -> Statuses]
    BY <1>3 DEF Put, InboxInv, TypeOK, Statuses
  <2>2. origin' \in [Positions -> Requests \union Bridges \union {Nobody}]
    BY <1>2, <1>3 DEF Put, InboxInv, TypeOK
  <2>3. record' \in [Ids -> 0..MaxSeq]
    BY <1>2, <1>3 DEF InboxInv, TypeOK, Positions
  <2>4. told' \subseteq Requests \X Positions
    BY <1>2, <1>3 DEF InboxInv, TypeOK
  <2> QED BY <2>1, <2>2, <2>3, <2>4 DEF Deliver, InboxInv, TypeOK, policy, reader
<1>7. \A m \in Delivered' : origin'[m] # Nobody
  BY <1>2, <1>4, OriginsDiffer DEF InboxInv
<1>8. n # 0 /\ \A m \in Direct : origin[m].id \in Ids /\ origin[m].id # request.id
  <2>1. n # 0
    BY <1>2 DEF Positions
  <2> QED BY <1>3, <2>1, OriginsDiffer DEF InboxInv, RecordsMatch, Direct, Delivered, Positions
<1>9. RecordsMatch'
  <2>1. \A m \in Direct' : record'[origin'[m].id] = m
    BY <1>2, <1>3, <1>4, <1>5, <1>8 DEF InboxInv, RecordsMatch, Direct, TypeOK
  <2>2. \A i \in Ids : record'[i] # 0 => record'[i] \in Direct' /\ origin'[record'[i]].id = i
    BY <1>2, <1>3, <1>4, <1>5 DEF InboxInv, RecordsMatch, Direct, TypeOK
  <2> QED BY <2>1, <2>2 DEF RecordsMatch
<1>10. OnePerRequest'
  BY <1>4, <1>5, <1>8 DEF InboxInv, OnePerRequest, Direct
<1>11. CursorShown' /\ UNCHANGED reader
  BY <1>4 DEF Deliver, InboxInv, CursorShown, reader
<1>12. cursor < n
  BY <1>2 DEF InboxInv, CursorShown, FlushedIsLatest, Deliver, Positions
<1>13. DirectSeen'
  BY <1>2, <1>5, <1>11, <1>12 DEF InboxInv, DirectSeen, reader, TypeOK, Positions
<1>14. AnswerHolds'
  BY <1>2, <1>3, <1>4 DEF InboxInv, AnswerHolds, Delivered, TypeOK
<1> QED BY <1>4, <1>6, <1>7, <1>9, <1>10, <1>11, <1>13, <1>14 DEF InboxInv

LEMMA PublishInv ==
    ASSUME InboxInv, NEW s \in Sessions, Publish(s)
    PROVE  InboxInv'
<1> DEFINE b == tx[s].bridge
           n == tx[s].seq
<1>1. tx[s] \in FanTx
  BY TxFields DEF Publish, InboxInv, TypeOK, TxStates
<1>2. b \in Bridges /\ b \notin Requests /\ b # Nobody /\ n \in Positions
  BY <1>1, FanFields, OriginsDiffer
<1>3. Put(n, b)
  BY DEF Publish
<1>4. /\ n \notin Delivered
      /\ Delivered' = Delivered \union {n}
      /\ origin'[n] = b
      /\ \A m \in Delivered : m \in Positions /\ m # n /\ origin'[m] = origin[m]
      /\ DrawnOnce' /\ LockExclusive' /\ LockedAllowed' /\ FlushedIsLatest' /\ FilesHeld' /\ FileOnce'
  <2> DEFINE g == b.file
  <2>1. Unbound(g) /\ \A z \in Sessions : z # s /\ Fanning(z) => tx[z].bridge.file # g \/ g = NoFile
    BY DEF Publish, Fanning, InboxInv, FilesHeld, Unbound
  <2> QED BY <1>2, <2>1, PutStep DEF Publish, policy
<1>5. Direct' = Direct
  BY <1>2, <1>4 DEF Direct
<1>6. TypeOK'
  <2>1. box' \in [Positions -> Statuses]
    BY <1>3 DEF Put, InboxInv, TypeOK, Statuses
  <2>2. origin' \in [Positions -> Requests \union Bridges \union {Nobody}]
    BY <1>2, <1>3 DEF Put, InboxInv, TypeOK
  <2> QED BY <2>1, <2>2 DEF Publish, InboxInv, TypeOK, policy, reader, heard
<1>7. \A m \in Delivered' : origin'[m] # Nobody
  BY <1>2, <1>4 DEF InboxInv
<1>8. \A m \in Direct : m \in Delivered /\ origin'[m] = origin[m]
  BY <1>4 DEF Direct
<1>9. RecordsMatch'
  BY <1>5, <1>8 DEF Publish, InboxInv, RecordsMatch
<1>10. OnePerRequest'
  BY <1>5, <1>8 DEF InboxInv, OnePerRequest
<1>11. CursorShown' /\ DirectSeen'
  BY <1>4, <1>5 DEF Publish, InboxInv, CursorShown, DirectSeen, reader
<1>12. AnswerHolds'
  BY <1>4 DEF Publish, InboxInv, AnswerHolds, Delivered, heard, TypeOK
<1> QED BY <1>4, <1>6, <1>7, <1>9, <1>10, <1>11, <1>12 DEF InboxInv

-----------------------------------------------------------------------------
LEMMA PolicyInv ==
    ASSUME InboxInv, SetPolicy \/ \E x \in Senders : SetRule(x)
    PROVE  InboxInv'
<1>1. UNCHANGED <<server, tx, reader, heard>>
  BY DEF SetPolicy, SetRule
<1>2. closed' \in BOOLEAN /\ blocked' \subseteq Senders
  BY DEF SetPolicy, SetRule, InboxInv, TypeOK
<1>3. TypeOK'
  BY <1>1, <1>2 DEF InboxInv, TypeOK, server, reader, heard
<1>4. DrawnOnce' /\ LockExclusive' /\ FlushedIsLatest'
  BY <1>1 DEF InboxInv, DrawnOnce, HasSeq, LockExclusive, LockHeld, Shared,
              FlushedIsLatest, Delivered, server
<1>5. LockedAllowed'
  BY <1>1 DEF SetPolicy, SetRule, LockFree, LockHeld, InboxInv, LockedAllowed
<1> QED BY <1>1, <1>3, <1>4, <1>5, ServerKept DEF server, reader, heard, InboxInv

LEMMA PageInv ==
    ASSUME InboxInv, NEW n \in Positions, Page(n)
    PROVE  InboxInv'
<1>1. TypeOK'
  <2>1. n \in 0..MaxSeq
    BY ConstantsAssumption DEF Positions
  <2>2. seen' \subseteq Positions
    BY DEF Page, PageUpTo, InboxInv, TypeOK, Delivered
  <2> QED BY <2>1, <2>2 DEF Page, InboxInv, TypeOK, server, policy, heard
<1>2. DrawnOnce' /\ LockExclusive' /\ FlushedIsLatest'
  BY DEF Page, InboxInv, DrawnOnce, HasSeq, LockExclusive, LockHeld, Shared,
         FlushedIsLatest, Delivered, server
<1>3. /\ \A m \in Delivered' : origin'[m] # Nobody
      /\ RecordsMatch' /\ OnePerRequest' /\ FileOnce' /\ FilesHeld' /\ LockedAllowed' /\ AnswerHolds'
      /\ Delivered' = Delivered /\ Direct' = Direct
  BY ServerKept DEF Page, server, policy, heard
<1>4. CursorShown'
  BY <1>3 DEF Page, CursorShown
<1>5. DirectSeen'
  <2> SUFFICES ASSUME NEW m \in Direct, m <= n PROVE m \in seen'
    BY <1>3 DEF Page, DirectSeen
  <2>1. m \in Delivered /\ m \in Int /\ cursor \in Int
    BY ConstantsAssumption DEF Direct, Delivered, Positions, InboxInv, TypeOK
  <2>2. CASE m <= cursor
    BY <2>2 DEF InboxInv, DirectSeen, Page
  <2>3. CASE cursor < m
    BY <2>1, <2>3 DEF Page, PageUpTo
  <2> QED BY <2>1, <2>2, <2>3
<1> QED BY <1>1, <1>2, <1>3, <1>4, <1>5 DEF InboxInv

LEMMA ReadAckInv ==
    ASSUME InboxInv, NEW n \in Positions, Read(n) \/ Ack(n)
    PROVE  InboxInv'
<1>1. /\ box[n] # "none"
      /\ \A m \in Positions : (box'[m] = "none") <=> (box[m] = "none")
      /\ box' \in [Positions -> Statuses]
  BY DEF Read, Ack, ReadFrom, InboxInv, TypeOK, Statuses
<1>2. UNCHANGED <<seq, origin, record, policy, tx, reader, heard>>
  BY DEF Read, Ack
<1>3. Delivered' = Delivered /\ Direct' = Direct
  BY <1>1, <1>2 DEF Delivered, Direct
<1>4. TypeOK'
  BY <1>1, <1>2 DEF InboxInv, TypeOK, policy, reader, heard
<1>5. \A z \in Sessions : HasSeq(z) => tx[z].seq \in Positions
  <2> SUFFICES ASSUME NEW z \in Sessions, HasSeq(z) PROVE tx[z].seq \in Positions
    OBVIOUS
  <2>1. tx[z] \in FlushTx \union FanTx
    BY TxFields DEF HasSeq, InboxInv, TypeOK, TxStates
  <2> QED BY <2>1, FlushFields, FanFields
<1>6. DrawnOnce'
  BY <1>1, <1>2, <1>3, <1>5 DEF InboxInv, DrawnOnce, HasSeq
<1>7. LockExclusive' /\ LockedAllowed' /\ FlushedIsLatest'
  BY <1>2, <1>3 DEF InboxInv, LockExclusive, LockHeld, Shared, LockedAllowed, FlushedIsLatest, policy
<1>8. RecordsMatch' /\ OnePerRequest' /\ \A m \in Delivered' : origin'[m] # Nobody
  BY <1>2, <1>3 DEF InboxInv, RecordsMatch, OnePerRequest
<1>9. FileOnce' /\ FilesHeld'
  BY <1>2, <1>3 DEF InboxInv, FileOnce, FilesHeld, Fanning, Unbound, FileAt
<1>10. CursorShown' /\ DirectSeen'
  BY <1>2, <1>3 DEF InboxInv, CursorShown, DirectSeen, reader
<1>11. AnswerHolds'
  BY <1>1, <1>2 DEF InboxInv, AnswerHolds, heard, TypeOK
<1> QED BY <1>4, <1>6, <1>7, <1>8, <1>9, <1>10, <1>11 DEF InboxInv

-----------------------------------------------------------------------------
LEMMA NextInboxInv == InboxInv /\ [Next]_vars => InboxInv'
<1> SUFFICES ASSUME InboxInv, [Next]_vars PROVE InboxInv'
  OBVIOUS
<1>1. CASE \E request \in Requests : Replay(request)
  BY <1>1, ReplayInv
<1>2. ASSUME NEW s \in Sessions, Send(s) PROVE InboxInv'
  BY <1>2, LookInv, LockInv, FlushInv, DeliverInv, AnswerInv, AbortInv DEF Send
<1>3. ASSUME NEW s \in Sessions, TaskMessage(s) PROVE InboxInv'
  BY <1>3, FanOutInv, ShareInv, PublishInv DEF TaskMessage
<1>4. CASE Recipient
  BY <1>4, PolicyInv, PageInv, ReadAckInv DEF Recipient
<1>5. CASE UNCHANGED vars
  <2>1. UNCHANGED <<server, policy, tx, reader, heard>>
    BY <1>5 DEF vars
  <2>2. TypeOK'
    BY <2>1 DEF InboxInv, TypeOK, server, policy, reader, heard
  <2>3. DrawnOnce' /\ LockExclusive' /\ FlushedIsLatest'
    BY <2>1 DEF InboxInv, DrawnOnce, HasSeq, LockExclusive, LockHeld, Shared,
                FlushedIsLatest, Delivered, server
  <2> QED BY <2>1, <2>2, <2>3, ServerKept DEF server, policy, reader, heard, InboxInv
<1> QED BY <1>1, <1>2, <1>3, <1>4, <1>5 DEF Next

\* Whatever the sends, replies, fan-outs, pages and access rules of any number
\* of sessions do, the state of the inbox agrees with its locks and records.
THEOREM InboxConsistent == Spec => []InboxInv
BY InitInboxInv, NextInboxInv, PTL DEF Spec

\* A request retried any number of times, concurrently or not, leaves at most
\* one message (send_message, reply_to_message).
THEOREM OneMessagePerRequest == Spec => []OnePerRequest
<1>1. InboxInv => OnePerRequest
  BY DEF InboxInv
<1> QED BY <1>1, InboxConsistent, PTL

\* Every answer that a send succeeded names a delivered message with exactly
\* the request's content.
THEOREM AnswersStayTrue == Spec => []AnswerHolds
<1>1. InboxInv => AnswerHolds
  BY DEF InboxInv
<1> QED BY <1>1, InboxConsistent, PTL

\* No attachment is bound to two messages (bind_attachments).
THEOREM AttachmentsGoOnce == Spec => []FileOnce
<1>1. InboxInv => FileOnce
  BY DEF InboxInv
<1> QED BY <1>1, InboxConsistent, PTL

\* A reader that pages by cursor misses no direct message (list_inbox): the
\* recipient's row lock makes inbox_seq follow the order of commits.
THEOREM DirectMessagesSeen == Spec => []DirectSeen
<1>1. InboxInv => DirectSeen
  BY DEF InboxInv
<1> QED BY <1>1, InboxConsistent, PTL

-----------------------------------------------------------------------------
\* Only Deliver and Publish fill an empty position; only Read and Ack change a
\* filled one.
LEMMA BoxSteps ==
    ASSUME InboxInv, Next
    PROVE  \/ UNCHANGED box
           \/ \E s \in Sessions : Deliver(s) \/ Publish(s)
           \/ \E n \in Positions : Read(n) \/ Ack(n)
<1>1. CASE \E request \in Requests : Replay(request)
  BY <1>1 DEF Replay, server
<1>2. ASSUME NEW s \in Sessions, Send(s) PROVE UNCHANGED box \/ Deliver(s)
  BY <1>2 DEF Send, Look, Lock, Flush, Retried, Unavailable, Abort, server
<1>3. ASSUME NEW s \in Sessions, TaskMessage(s) PROVE UNCHANGED box \/ Publish(s)
  BY <1>3 DEF TaskMessage, FanOut, Share, server
<1>4. CASE Recipient
  BY <1>4 DEF Recipient, SetPolicy, SetRule, Page, server
<1> QED BY <1>1, <1>2, <1>3, <1>4 DEF Next

\* The position that Deliver or Publish fills was empty.
LEMMA FilledWasEmpty ==
    ASSUME InboxInv, NEW s \in Sessions, Deliver(s) \/ Publish(s)
    PROVE  /\ tx[s].seq \in Positions /\ box[tx[s].seq] = "none"
           /\ box' = [box EXCEPT ![tx[s].seq] = "delivered"]
<1>1. tx[s] \in FlushTx \union FanTx
  BY TxFields DEF Deliver, Publish, InboxInv, TypeOK, TxStates
<1> QED BY <1>1, FlushFields, FanFields
        DEF Deliver, Publish, Put, InboxInv, DrawnOnce, HasSeq

\* An acknowledged message stays acknowledged, a read one never becomes unread
\* (transition_delivery).
THEOREM DeliveriesMoveForward == Spec => ForwardOnly
<1> DEFINE A == \A n \in Positions :
                   /\ box[n] = "acked" => box'[n] = "acked"
                   /\ box[n] = "read"  => box'[n] \in {"read", "acked"}
<1>1. InboxInv /\ [Next]_vars => [A]_vars
  <2> SUFFICES ASSUME InboxInv, Next PROVE A
    OBVIOUS
  <2>1. CASE UNCHANGED box
    BY <2>1
  <2>2. CASE \E s \in Sessions : Deliver(s) \/ Publish(s)
    BY <2>2, FilledWasEmpty DEF InboxInv, TypeOK
  <2>3. CASE \E n \in Positions : Read(n) \/ Ack(n)
    BY <2>3 DEF Read, Ack, ReadFrom, InboxInv, TypeOK
  <2> QED BY <2>1, <2>2, <2>3, BoxSteps
<1> QED BY <1>1, InboxConsistent, PTL DEF Spec, ForwardOnly

\* Once a rule against a sender is committed, no message of it is delivered,
\* not even one whose send began before (lock_recipient_for_delivery).
THEOREM BlockedSendersSilent == Spec => BlockedSilent
<1> DEFINE A == \A n \in Positions :
                   box[n] = "none" /\ n \in Direct' => origin'[n].id[1] \notin blocked
<1>1. InboxInv /\ [Next]_vars => [A]_vars
  <2> SUFFICES ASSUME InboxInv, Next, NEW n \in Positions, box[n] = "none", n \in Direct'
               PROVE  origin'[n].id[1] \notin blocked
    OBVIOUS
  <2>1. box'[n] # "none" /\ origin'[n] \in Requests
    BY DEF Direct, Delivered
  <2>2. CASE UNCHANGED box
    BY <2>1, <2>2
  <2>3. ASSUME NEW s \in Sessions, Deliver(s) \/ Publish(s)
        PROVE  origin'[n].id[1] \notin blocked
    <3>1. n = tx[s].seq
      BY <2>1, <2>3, FilledWasEmpty DEF InboxInv, TypeOK
    <3>2. CASE Deliver(s)
      <4>1. origin'[n] = tx[s].request
        BY <3>1, <3>2 DEF Deliver, Put, InboxInv, TypeOK
      <4> QED BY <3>2, <4>1 DEF Deliver, InboxInv, LockedAllowed
    <3>3. CASE Publish(s)
      <4>1. origin'[n] = tx[s].bridge
        BY <3>1, <3>3 DEF Publish, Put, InboxInv, TypeOK
      <4>2. tx[s] \in FanTx
        BY <3>3, TxFields DEF Publish, InboxInv, TypeOK, TxStates
      <4> QED BY <2>1, <4>1, <4>2, FanFields, OriginsDiffer
    <3> QED BY <2>3, <3>2, <3>3
  <2>4. CASE \E m \in Positions : Read(m) \/ Ack(m)
    BY <2>1, <2>4 DEF Read, Ack, ReadFrom, InboxInv, TypeOK
  <2> QED BY <2>2, <2>3, <2>4, BoxSteps
<1> QED BY <1>1, InboxConsistent, PTL DEF Spec, BlockedSilent

-----------------------------------------------------------------------------
(* Recipients: the first reading that applies.                             *)

\* A set of positive numbers has a least one.
LEMMA LeastOf ==
    ASSUME NEW S, S \subseteq Nat, S # {}
    PROVE  \E i \in S : \A j \in 1 .. (i - 1) : j \notin S
<1> DEFINE R == OpToRel(<, Nat)
<1>1. IsWellFoundedOn(R, Nat)
  BY NatLessThanWellFounded
<1>2. \A m, n \in Nat : m < n => <<m, n>> \in R
  BY DEF OpToRel
<1> HIDE DEF R
<1>3. PICK i \in S : \A j \in S : ~ (<<j, i>> \in R)
  BY <1>1, WFMin
<1>4. ASSUME NEW j \in 1 .. (i - 1) PROVE j \notin S
  <2>1. i \in Nat /\ j \in Nat /\ j < i
    BY <1>3
  <2> QED BY <1>2, <1>3, <2>1
<1> QED BY <1>3, <1>4

\* FirstOf never adds to its sets, here the three of _select_targeted_contexts.
LEMMA TargetedAreOffered ==
    ASSUME NEW h, NEW cs, NEW t
    PROVE  Targeted(h, cs, t) \subseteq cs
<1> DEFINE ss == <<Typed(cs, t), cs \intersect (HandlesIn(t) \union t.titles),
                   cs \intersect {default[h]}>>
           S == {i \in DOMAIN ss : ss[i] # {} \/ i = Len(ss)}
<1>1. DOMAIN ss = 1 .. 3 /\ Len(ss) = 3
  OBVIOUS
<1>2. ss[1] \subseteq cs /\ ss[2] \subseteq cs /\ ss[3] \subseteq cs
  BY DEF Typed
<1> HIDE DEF ss
<1>3. PICK i \in S : \A j \in 1 .. (i - 1) : j \notin S
  BY <1>1, LeastOf
<1>4. \E k \in DOMAIN ss : /\ ss[k] # {} \/ k = Len(ss)
                           /\ \A j \in 1 .. (k - 1) : ss[j] = {}
  <2>1. \A j \in 1 .. (i - 1) : j \in DOMAIN ss
    BY <1>1, <1>3
  <2> QED BY <1>3, <2>1
<1>5. FirstOf(ss) \in {ss[1], ss[2], ss[3]}
  <2>1. \E k \in DOMAIN ss : FirstOf(ss) = ss[k]
    BY <1>4 DEF FirstOf
  <2> QED BY <1>1, <2>1
<1> QED BY <1>2, <1>5 DEF Targeted, ss

LEMMA MatchesAreOffered ==
    ASSUME NEW t, NEW s
    PROVE  OwnerMatches(t, s) \subseteq {g \in s : OwnerOf[g] \in NamedHumans(t)}
<1> DEFINE ms == {g \in s : OwnerOf[g] \in t.usernames \union t.names \union t.short}
           ss == <<ms \intersect t.handles, Typed(ms, t), ms \intersect t.titles, ms>>
           S == {i \in DOMAIN ss : ss[i] # {} \/ i = Len(ss)}
<1>0. ms = {g \in s : OwnerOf[g] \in NamedHumans(t)}
  BY DEF NamedHumans
<1> HIDE DEF ms
<1>1. DOMAIN ss = 1 .. 4 /\ Len(ss) = 4
  OBVIOUS
<1>2. ss[1] \subseteq ms /\ ss[2] \subseteq ms /\ ss[3] \subseteq ms /\ ss[4] \subseteq ms
  BY DEF Typed
<1>3. OwnerMatches(t, s) = FirstOf(ss)
  BY DEF OwnerMatches, ms
<1> HIDE DEF ss
<1>4. PICK i \in S : \A j \in 1 .. (i - 1) : j \notin S
  BY <1>1, LeastOf
<1>5. \E k \in DOMAIN ss : /\ ss[k] # {} \/ k = Len(ss)
                           /\ \A j \in 1 .. (k - 1) : ss[j] = {}
  <2>1. \A j \in 1 .. (i - 1) : j \in DOMAIN ss
    BY <1>1, <1>4
  <2> QED BY <1>4, <2>1
<1>6. \E k \in DOMAIN ss : FirstOf(ss) = ss[k]
  BY <1>5 DEF FirstOf
<1> QED BY <1>0, <1>1, <1>2, <1>3, <1>6

\* The last reading always applies, so one of the eleven is the first that does.
LEMMA UnderstoodFirst ==
    ASSUME NEW t, NEW s
    PROVE  \E i \in 1 .. 11 : /\ Understood(t, s) = Readings(t, s)[i] /\ Readings(t, s)[i].applies
                              /\ \A j \in 1 .. (i - 1) : ~ Readings(t, s)[j].applies
<1> DEFINE rs == Readings(t, s)
           S == {i \in DOMAIN rs : rs[i].applies}
<1>1. DOMAIN rs = 1 .. 11 /\ rs[11].applies
  BY DEF Readings, ByLikeness, Reading
<1>2. Understood(t, s) = FirstReading(rs)
  BY DEF Understood
<1> HIDE DEF rs
<1>3. PICK i \in S : \A j \in 1 .. (i - 1) : j \notin S
  BY <1>1, LeastOf
<1>4. \E k \in DOMAIN rs : rs[k].applies /\ \A j \in 1 .. (k - 1) : ~ rs[j].applies
  <2>1. \A j \in 1 .. (i - 1) : j \in DOMAIN rs
    BY <1>1, <1>3
  <2> QED BY <1>3, <2>1
<1>5. \E k \in DOMAIN rs : /\ FirstReading(rs) = rs[k] /\ rs[k].applies
                           /\ \A j \in 1 .. (k - 1) : ~ rs[j].applies
  BY <1>4 DEF FirstReading
<1> QED BY <1>1, <1>2, <1>5 DEF rs

LEMMA ReadingFields ==
    ASSUME NEW a, NEW b, NEW c
    PROVE  /\ Reading(a, b, c).applies = a
           /\ Reading(a, b, c).agents = b /\ Reading(a, b, c).kind = c
BY DEF Reading

\* Each reading in turn: what it finds is meant, if none before it applied.
LEMMA UnderstoodIsMeant ==
    ASSUME NEW t, NEW s, StatusFor(Understood(t, s)) = "resolved",
           NEW g \in Understood(t, s).agents
    PROVE  Meant(g, t, s)
<1> DEFINE rs == Readings(t, s)
<1>1. PICK i \in 1 .. 11 : /\ Understood(t, s) = rs[i] /\ rs[i].applies
                          /\ \A j \in 1 .. (i - 1) : ~ rs[j].applies
  BY UnderstoodFirst
<1>2. /\ rs[1] = ByAddress(t) /\ rs[2] = ByUsername(t) /\ rs[3] = ByKnownName(t, s)
      /\ rs[4] = ByName(t) /\ rs[5] = ByWholeHandle(t) /\ rs[6] = ByWholeTitle(t, s)
      /\ rs[7] = ByOwner(t, s) /\ rs[8] = ByPossessor(t) /\ rs[9] = ByHandle(t)
      /\ rs[10] = ByLikelyHuman(t) /\ rs[11] = ByLikeness(t, s)
  BY DEF Readings
<1> HIDE DEF rs
<1>3. rs[i].applies /\ g \in rs[i].agents /\ rs[i].kind # "likely"
  BY <1>1 DEF StatusFor
<1>4. i > 1 => t.address = NoOne
  <2>1. i > 1 => ~ ByAddress(t).applies
    BY <1>1, <1>2
  <2>2. ~ ByAddress(t).applies => t.address = NoOne
    BY ReadingFields DEF ByAddress
  <2> QED BY <2>1, <2>2
<1>5. i > 2 => t.usernames = {}
  <2>1. i > 2 => ~ ByUsername(t).applies
    BY <1>1, <1>2
  <2>2. ~ ByUsername(t).applies => t.usernames = {}
    BY ReadingFields DEF ByUsername
  <2> QED BY <2>1, <2>2
<1>6. i > 8 => ~ t.possessive
  <2>1. i > 8 => ~ ByPossessor(t).applies
    BY <1>1, <1>2
  <2>2. ~ ByPossessor(t).applies => ~ t.possessive
    BY ReadingFields DEF ByPossessor, Possessive
  <2> QED BY <2>1, <2>2
<1>7. \A h : Targeted(h, Owned(h), t) \subseteq {x \in active : OwnerOf[x] = h}
  BY TargetedAreOffered DEF Owned
<1>8. CASE i = 1
  <2>1. ByAddress(t).applies /\ g \in ByAddress(t).agents
    BY <1>2, <1>3, <1>8
  <2>2. t.address # NoOne
    BY <2>1, ReadingFields DEF ByAddress
  <2>3. g \in {t.address} \intersect active
    BY <2>1, ReadingFields DEF ByAddress
  <2> QED BY <2>2, <2>3 DEF Meant
<1>9. CASE i = 2
  <2>1. g \in OfHumans(t.usernames, t)
    BY <1>2, <1>3, <1>9 DEF ByUsername, Reading
  <2>2. g \in active /\ OwnerOf[g] \in t.usernames
    BY <1>7, <2>1 DEF OfHumans
  <2> QED BY <2>2 DEF Meant, NamedHumans
<1>10. CASE i = 3
  <2>1. g \in ByKnownName(t, s).agents
    BY <1>2, <1>3, <1>10
  <2>2. PICK h \in t.names : g \in Targeted(h, {x \in s : OwnerOf[x] = h}, t)
    BY <2>1, ReadingFields DEF ByKnownName
  <2>3. g \in s /\ OwnerOf[g] \in t.names
    BY <2>2, TargetedAreOffered
  <2> QED BY <1>5, <1>10, <2>3 DEF Meant, NamedHumans
<1>11. CASE i = 4
  <2>1. g \in OfHumans({h \in t.names : default[h] # NoOne}, t)
    BY <1>2, <1>3, <1>11 DEF ByName, Reading
  <2>2. g \in active /\ OwnerOf[g] \in t.names
    BY <1>7, <2>1 DEF OfHumans
  <2> QED BY <1>5, <1>11, <2>2 DEF Meant, NamedHumans
<1>12. CASE i = 5
  <2>1. ByWholeHandle(t).applies /\ g \in ByWholeHandle(t).agents
    BY <1>2, <1>3, <1>12
  <2>2. t.whole = "handle"
    BY <2>1, ReadingFields DEF ByWholeHandle
  <2>3. g \in HandlesIn(t) \intersect active
    BY <2>1, ReadingFields DEF ByWholeHandle
  <2> QED BY <1>5, <1>12, <2>2, <2>3 DEF Meant
<1>13. CASE i = 6
  <2>1. ByWholeTitle(t, s).applies /\ g \in ByWholeTitle(t, s).agents
    BY <1>2, <1>3, <1>13
  <2>2. t.whole = "title"
    BY <2>1, ReadingFields DEF ByWholeTitle
  <2>3. g \in s
    BY <2>1, ReadingFields DEF ByWholeTitle
  <2> QED BY <1>5, <1>13, <2>2, <2>3 DEF Meant
<1>14. CASE i = 7
  <2>1. g \in s /\ OwnerOf[g] \in NamedHumans(t)
    BY <1>2, <1>3, <1>14, MatchesAreOffered DEF ByOwner, Reading
  <2> QED BY <1>5, <1>14, <2>1 DEF Meant
<1>15. CASE i = 9
  <2>1. g \in HandlesIn(t) \intersect active
    BY <1>2, <1>3, <1>15 DEF ByHandle, Reading
  <2> QED BY <1>5, <1>6, <1>15, <2>1 DEF Meant
<1>16. CASE i = 11
  <2>1. g \in s
    BY <1>2, <1>3, <1>16 DEF ByLikeness, Reading
  <2> QED BY <1>5, <1>6, <1>16, <2>1 DEF Meant
<1>17. i \notin {8, 10}
  BY <1>2, <1>3 DEF ByPossessor, ByLikelyHuman, Reading
<1> QED BY <1>8, <1>9, <1>10, <1>11, <1>12, <1>13, <1>14, <1>15, <1>16, <1>17

\* resolve_recipient answers with an Agent the text means, for any Agents, Humans,
\* texts and whatever else commits between its statements: the property rests on
\* the order of its readings alone.
THEOREM AnswersAreNamed == RecipientsSpec => AnswerNamed
<1> DEFINE A == answer' # answer /\ answer'.status = "resolved" =>
                    \A g \in answer'.agents : Meant(g, asked.text, asked.scope)
<1>1. RecipientsNext => A
  <2> SUFFICES ASSUME RecipientsNext, answer' # answer, answer'.status = "resolved",
                      NEW g \in answer'.agents
               PROVE  Meant(g, asked.text, asked.scope)
    OBVIOUS
  <2>1. CASE Resolve
    <3> DEFINE r == Understood(asked.text, asked.scope)
    <3>1. answer' = [NoAnswer EXCEPT !.status = StatusFor(r), !.agents = r.agents,
                                     !.owners = OwnersShown(r, asked.scope)]
      BY <2>1 DEF Resolve
    <3> HIDE DEF r
    <3>2. StatusFor(r) = "resolved" /\ g \in r.agents
      BY <3>1 DEF NoAnswer
    <3> QED BY <3>2, UnderstoodIsMeant DEF r
  <2>2. CASE Search
    BY <2>2 DEF Search, NoAnswer
  <2>3. CASE \E t \in Texts : ResolveTask(t)
    BY <2>3 DEF ResolveTask, NoAnswer
  <2>4. CASE \E pc \in {"resolve", "search"}, t \in Texts : Ask(pc, t)
    BY <2>4 DEF Ask, NoAnswer
  <2>5. CASE \/ \E h \in Humans, x \in Agents : ChooseDefault(h, x)
             \/ \E x \in Agents : Disable(x) \/ Allow(x)
             \/ \E x, y \in Agents : Exchange(x, y)
             \/ \E k \in TitledTasks : Participate(k)
    BY <2>5 DEF ChooseDefault, Disable, Allow, Exchange, Participate, Change
  <2> QED BY <2>1, <2>2, <2>3, <2>4, <2>5 DEF RecipientsNext
<1>2. [RecipientsNext]_recipientVars => [A]_recipientVars
  BY <1>1
<1> QED BY <1>2, PTL DEF RecipientsSpec, AnswerNamed
=============================================================================

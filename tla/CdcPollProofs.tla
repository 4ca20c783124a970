--------------------------- MODULE CdcPollProofs ----------------------------
(***************************************************************************)
(* SQL Server capture publishes every transaction exactly once, for any    *)
(* log, queue size and timing of the capture and cleanup jobs.             *)
(*                                                                         *)
(* The fence splits the log: no row is committed between it and the moment *)
(* the snapshot reads the tables, so what the snapshot covers is what lies *)
(* below the fence.  From there on the poll goes through the log without   *)
(* leaving a transaction out, since the view it reads from holds every     *)
(* transaction of the range that is not below the low watermark, and       *)
(* CheckRange refuses a range that begins there.                           *)
(***************************************************************************)
EXTENDS CdcPoll, TLAPS

\* The default prover, for the leaves that name none.
USE Zenon

-----------------------------------------------------------------------------
(* The invariant.                                                          *)

StateFields == {"Generation", "SchemaHash", "Phase", "SnapshotLSN", "DurableLSN",
                "SourceCleanup", "NextSeq", "ReadySeq", "DeliveredSeq", "Bytes",
                "EarliestSeq", "ArchiveBytes"}

\* The archive holds every message, so nothing is ever evicted.
QueueInv ==
  /\ StateFields \subseteq DOMAIN st
  /\ st.DeliveredSeq \in Nat /\ st.ReadySeq \in Nat /\ st.NextSeq \in Nat
  /\ st.DeliveredSeq <= st.ReadySeq /\ st.ReadySeq <= st.NextSeq /\ st.NextSeq <= MaxSeq
  /\ st.EarliestSeq \in {0, 1} /\ st.ArchiveBytes = st.DeliveredSeq
  /\ st.Phase # "stream" => st.ReadySeq = 0
  /\ DOMAIN items = 1..st.NextSeq
  /\ \A n \in DOMAIN items : {"body", "size", "LSN"} \subseteq DOMAIN items[n] /\ items[n].size = 1

\* What a reader of the change tables sees: every rows transaction from the
\* low watermark to the high one.
Sees(max, min, tab) == /\ max \in Nat /\ max <= Len(log) /\ min \in Nat
                       /\ tab \subseteq 1..max
                       /\ \A t \in 1..max : log[t] = "rows" /\ t >= min => t \in tab

ServerInv == /\ log \in Seq({"rows", "other", "fence"}) /\ Len(log) <= MaxTx
             /\ Sees(captured, low, ct) /\ Sees(view.max, view.min, view.ct)

NoRows(lo, hi) == \A t \in lo..hi : log[t] # "rows"

UnderLock == {"inspect", "fence", "snapshot_begin", "schema", "read", "snapshot_rows",
              "snapshot_end", "unlock"}
Fenced == (UnderLock \ {"inspect", "fence"}) \cup {"wait", "finalize", "seal"}
RowsRead == Fenced \ {"snapshot_begin", "schema", "read"}
Transactional == {"transaction_rows", "transaction_end"}

\* No row is committed from the fence to the reading of the tables.
SnapshotInv ==
  /\ pc \in UnderLock \cup Fenced \cup {"initialize", "lock"} => st.Phase # "stream"
  /\ st.Phase # "stream" => \A n \in DOMAIN items : items[n].body.kind \notin Transactional
  /\ pc \in UnderLock => locked
  /\ pc \in Fenced => fence \in 1..Len(log)
  /\ pc \in Fenced \cap UnderLock => NoRows(fence, Len(log))
  /\ pc \in RowsRead => covers \in fence..Len(log) /\ NoRows(fence, covers)
  /\ pc \in {"finalize", "seal"} => boundary = fence
  /\ pc = "seal" => st.SnapshotLSN = boundary

\* The transactions published are those between the boundary and the durable
\* position, in order, and the snapshot covers those up to the boundary.
Ended(k) == items[k].body.kind = "transaction_end"

Holds(k, t) == /\ items[k].body = [kind |-> "transaction_end", tx |-> t]
               /\ items[k-1].body = [kind |-> "transaction_rows", tx |-> t]

StreamInv ==
  st.Phase = "stream" =>
    /\ st.SnapshotLSN \in Nat \ {0} /\ st.DurableLSN \in Nat
    /\ st.SnapshotLSN <= st.DurableLSN /\ st.DurableLSN <= Len(log)
    /\ covers \in st.SnapshotLSN..Len(log) /\ NoRows(st.SnapshotLSN, covers)
    /\ \A k \in 1..st.ReadySeq : Ended(k) =>
         items[k].body.tx \in st.SnapshotLSN + 1 .. st.DurableLSN
    /\ \A j, k \in 1..st.ReadySeq : j < k /\ Ended(j) /\ Ended(k) =>
         items[j].body.tx < items[k].body.tx
    /\ \A t \in st.SnapshotLSN + 1 .. st.DurableLSN :
         log[t] = "rows" => \E k \in 2..st.ReadySeq : Holds(k, t)

Targeted == {"changes", "transaction_rows", "transaction_end", "publish"}
Ranged == Targeted \cup {"find"}
Polling == Ranged \cup {"poll", "range"}

\* The transaction being published is the next one of the log.
PollInv ==
  /\ pc \in Polling => st.Phase = "stream"
  /\ pc \in Ranged => /\ upper = view.max /\ st.DurableLSN < upper
                      /\ view.min <= st.DurableLSN + 1
  /\ pc \in Targeted => /\ target \in st.DurableLSN + 1 .. upper
                        /\ NoRows(st.DurableLSN + 1, target - 1)
  /\ pc \in Polling \ {"transaction_end", "publish"} => st.NextSeq = st.ReadySeq
  /\ pc \in {"transaction_end", "publish"} =>
       items[st.ReadySeq + 1].body = [kind |-> "transaction_rows", tx |-> target]
  /\ pc = "transaction_end" => st.NextSeq = st.ReadySeq + 1
  /\ pc = "publish" =>
       /\ st.NextSeq = st.ReadySeq + 2
       /\ items[st.ReadySeq + 2].body = [kind |-> "transaction_end", tx |-> target]

CaptureInv == QueueInv /\ ServerInv /\ SnapshotInv /\ StreamInv /\ PollInv

-----------------------------------------------------------------------------
(* The queue.                                                              *)

\* Initialize leaves an empty queue.
LEMMA InitializeQueue ==
  ASSUME NEW hash, Q!Initialize(hash)
  PROVE  QueueInv' /\ st'.NextSeq = 0 /\ st'.ReadySeq = 0 /\ st'.Phase = "snapshot"
<1>1. DOMAIN items' = {}
  BY DEF Q!Initialize
<1>2. /\ st'.DeliveredSeq = 0 /\ st'.ReadySeq = 0 /\ st'.NextSeq = 0
      /\ st'.EarliestSeq = 1 /\ st'.ArchiveBytes = 0
      /\ st'.Phase = "snapshot"
      /\ StateFields \subseteq DOMAIN st'
  BY DEF Q!Initialize, Q!Blank, StateFields
<1> QED BY <1>1, <1>2, PollAssumption, SMT DEF QueueInv

\* AppendMessage adds one message behind the others.
LEMMA AppendQueue ==
  ASSUME QueueInv, NEW kind, NEW tx, NEW lsn, [kind |-> kind, tx |-> tx] \in Body,
         Q!AppendMessage(Msg(kind, tx, lsn))
  PROVE  /\ QueueInv'
         /\ st'.NextSeq = st.NextSeq + 1 /\ st'.ReadySeq = st.ReadySeq
         /\ st'.Phase = st.Phase /\ st'.SnapshotLSN = st.SnapshotLSN
         /\ st'.DurableLSN = st.DurableLSN
         /\ items'[st.NextSeq + 1].body = [kind |-> kind, tx |-> tx]
         /\ \A n \in 1..st.NextSeq : items'[n] = items[n]
<1> DEFINE x == Q!Stamped(Msg(kind, tx, lsn))
           N == st.NextSeq
<1>1. /\ x.body = [kind |-> kind, tx |-> tx] /\ x.size = 1
      /\ {"body", "size", "LSN"} \subseteq DOMAIN x
  BY SMT DEF Q!Stamped, Q!LsnLen, Msg
<1>2. /\ items' = [n \in DOMAIN items \cup {N + 1} |-> IF n = N + 1 THEN x ELSE items[n]]
      /\ st' = [st EXCEPT !.NextSeq = @ + 1, !.Bytes = @ + x.size]
      /\ N < MaxSeq
  BY DEF Q!AppendMessage
<1> HIDE DEF x
<1>3. /\ StateFields \subseteq DOMAIN st'
      /\ st'.NextSeq = N + 1
      /\ st'.DeliveredSeq = st.DeliveredSeq /\ st'.ReadySeq = st.ReadySeq
      /\ st'.EarliestSeq = st.EarliestSeq /\ st'.ArchiveBytes = st.ArchiveBytes
      /\ st'.Phase = st.Phase /\ st'.SnapshotLSN = st.SnapshotLSN
      /\ st'.DurableLSN = st.DurableLSN
  BY <1>2 DEF QueueInv, StateFields
<1>4. DOMAIN items' = 1..(N + 1) /\ items'[N + 1] = x /\ \A n \in 1..N : items'[n] = items[n]
  BY <1>2, SMT DEF QueueInv
<1>5. QueueInv'
  BY <1>1, <1>2, <1>3, <1>4, PollAssumption, SMTT(30) DEF QueueInv
<1> QED BY <1>1, <1>3, <1>4, <1>5

\* Publish exposes what is staged and moves the durable position.
LEMMA PublishQueue ==
  ASSUME QueueInv, NEW lsn, NEW seal \in BOOLEAN, Q!Publish(lsn, seal),
         seal \/ st.Phase = "stream"
  PROVE  /\ QueueInv' /\ items' = items
         /\ st'.NextSeq = st.NextSeq /\ st'.ReadySeq = st.NextSeq
         /\ st'.Phase = "stream" /\ st'.SnapshotLSN = st.SnapshotLSN
         /\ st'.DurableLSN = lsn
<1>1. /\ st' = [st EXCEPT !.Phase = IF seal THEN "stream" ELSE @,
                          !.ReadySeq = st.NextSeq, !.DurableLSN = lsn,
                          !.SourceCleanup = None]
      /\ items' = items
  BY DEF Q!Publish, Q!PublishSource
<1>2. /\ StateFields \subseteq DOMAIN st'
      /\ st'.NextSeq = st.NextSeq /\ st'.DeliveredSeq = st.DeliveredSeq
      /\ st'.ReadySeq = st.NextSeq
      /\ st'.EarliestSeq = st.EarliestSeq /\ st'.ArchiveBytes = st.ArchiveBytes
      /\ st'.Phase = "stream" /\ st'.SnapshotLSN = st.SnapshotLSN
      /\ st'.DurableLSN = lsn
  BY <1>1 DEF QueueInv, StateFields
<1> QED BY <1>1, <1>2, SMT DEF QueueInv

\* FinalizeSnapshotLSN changes no body.
LEMMA FinalizeQueue ==
  ASSUME QueueInv, NEW lsn, Q!FinalizeSnapshotLSN(lsn)
  PROVE  /\ QueueInv'
         /\ st'.NextSeq = st.NextSeq /\ st'.ReadySeq = st.ReadySeq
         /\ st'.Phase = st.Phase /\ st'.SnapshotLSN = lsn
         /\ \A n \in 1..st.NextSeq : items'[n].body = items[n].body
<1> DEFINE total == Q!Total(Q!Finalized(lsn), 1, st.NextSeq)
<1>0. items' = Q!Finalized(lsn)
  BY DEF Q!FinalizeSnapshotLSN
<1>1. st' = [st EXCEPT !.Bytes = total, !.SnapshotLSN = lsn]
  BY DEF Q!FinalizeSnapshotLSN
<1> HIDE DEF total
<1>2. /\ StateFields \subseteq DOMAIN st'
      /\ st'.NextSeq = st.NextSeq /\ st'.DeliveredSeq = st.DeliveredSeq
      /\ st'.ReadySeq = st.ReadySeq
      /\ st'.EarliestSeq = st.EarliestSeq /\ st'.ArchiveBytes = st.ArchiveBytes
      /\ st'.Phase = st.Phase /\ st'.SnapshotLSN = lsn
  BY <1>1 DEF QueueInv, StateFields
<1>3. DOMAIN items' = DOMAIN items
  <2>1. DOMAIN Q!Finalized(lsn) = DOMAIN items
    BY DEF Q!Finalized
  <2> QED BY <1>0, <2>1, Zenon
<1>4. ASSUME NEW n \in DOMAIN items
      PROVE  /\ items'[n].body = items[n].body /\ items'[n].size = 1
             /\ {"body", "size", "LSN"} \subseteq DOMAIN items'[n]
  <2>1. items'[n] = [items[n] EXCEPT !.LSN = lsn,
                       !.size = items[n].size - Q!LsnLen(items[n].LSN) + Q!LsnLen(lsn)]
    <3>1. n \in 1..st.NextSeq
      BY DEF QueueInv
    <3>2. Q!Finalized(lsn)[n] = [items[n] EXCEPT !.LSN = lsn,
                       !.size = items[n].size - Q!LsnLen(items[n].LSN) + Q!LsnLen(lsn)]
      BY <3>1 DEF Q!Finalized
    <3> QED BY <1>0, <3>2, Zenon
  <2>2. Q!LsnLen(items[n].LSN) = 0 /\ Q!LsnLen(lsn) = 0
    BY DEF Q!LsnLen
  <2>3. items[n].size = 1 /\ {"body", "size", "LSN"} \subseteq DOMAIN items[n]
    BY DEF QueueInv
  <2> QED BY <2>1, <2>2, <2>3, SMT
<1>5. QueueInv'
  BY <1>2, <1>3, <1>4 DEF QueueInv
<1> QED BY <1>2, <1>4, <1>5 DEF QueueInv

\* Recover drops what is staged.
LEMMA RecoverQueue ==
  ASSUME QueueInv, Q!Recover
  PROVE  /\ QueueInv'
         /\ st'.NextSeq = st.ReadySeq /\ st'.ReadySeq = st.ReadySeq
         /\ st'.Phase = st.Phase /\ st'.SnapshotLSN = st.SnapshotLSN
         /\ st'.DurableLSN = st.DurableLSN
         /\ \A n \in 1..st.ReadySeq : items'[n] = items[n]
<1> DEFINE total == Q!Total(items, st.ReadySeq + 1, st.NextSeq)
<1>1. /\ items' = [n \in DOMAIN items \ {k \in DOMAIN items : k > st.ReadySeq} |-> items[n]]
      /\ st' = [st EXCEPT !.Bytes = @ - total, !.NextSeq = st.ReadySeq]
  BY DEF Q!Recover, Q!Unpublished
<1> HIDE DEF total
<1>2. /\ StateFields \subseteq DOMAIN st'
      /\ st'.NextSeq = st.ReadySeq /\ st'.DeliveredSeq = st.DeliveredSeq
      /\ st'.ReadySeq = st.ReadySeq
      /\ st'.EarliestSeq = st.EarliestSeq /\ st'.ArchiveBytes = st.ArchiveBytes
      /\ st'.Phase = st.Phase /\ st'.SnapshotLSN = st.SnapshotLSN
      /\ st'.DurableLSN = st.DurableLSN
  BY <1>1 DEF QueueInv, StateFields
<1>3. DOMAIN items' = 1..st.ReadySeq /\ \A n \in 1..st.ReadySeq : items'[n] = items[n]
  BY <1>1, SMT DEF QueueInv
<1>4. QueueInv'
  BY <1>2, <1>3, PollAssumption, SMT DEF QueueInv
<1> QED BY <1>2, <1>3, <1>4

\* Of messages of length 1 the recursive definition of Upto counts the first n.
LEMMA NothingSums ==
  ASSUME QueueInv
  PROVE  Q!Total(items, 1, 0) = 0
<1> DEFINE N == st.NextSeq
           f == [n \in Nat |-> IF n <= N THEN n ELSE N]
<1>1. N \in Nat /\ \A n \in Nat \ {0} : Q!SizeAt(items, n) = IF n <= N THEN 1 ELSE 0
  BY SMT DEF QueueInv, Q!SizeAt
<1>2. \A n \in Nat : f[n] = IF n = 0 THEN 0 ELSE f[n-1] + Q!SizeAt(items, n)
  BY <1>1, SMT
<1>3. f = [n \in Nat |-> IF n = 0 THEN 0 ELSE f[n-1] + Q!SizeAt(items, n)]
  BY <1>2
<1>4. \E g : g = [n \in Nat |-> IF n = 0 THEN 0 ELSE g[n-1] + Q!SizeAt(items, n)]
  BY <1>3, Zenon
<1>5. Q!Upto(items) = [n \in Nat |-> IF n = 0 THEN 0
                                     ELSE Q!Upto(items)[n-1] + Q!SizeAt(items, n)]
  BY <1>4 DEF Q!Upto
<1>6. Q!Upto(items)[0] = 0
  BY <1>5
<1> QED BY <1>6, SMT DEF Q!Total

\* Ack moves one cursor and evicts nothing: the archive has room for all.
LEMMA AckQueue ==
  ASSUME QueueInv, NEW seq, NEW id, Q!Ack(seq, id, {})
  PROVE  /\ QueueInv' /\ \A n \in 1..st.NextSeq : items'[n] = items[n]
         /\ st'.NextSeq = st.NextSeq /\ st'.ReadySeq = st.ReadySeq
         /\ st'.Phase = st.Phase /\ st'.SnapshotLSN = st.SnapshotLSN
         /\ st'.DurableLSN = st.DurableLSN
<1> DEFINE archive == st.ArchiveBytes + Q!SizeAt(items, seq)
<1>1. (IF st.EarliestSeq = 0 THEN 1 ELSE st.EarliestSeq) = 1
  BY DEF QueueInv
<1>2. seq = st.DeliveredSeq + 1 /\ seq <= st.ReadySeq /\ seq \in DOMAIN items
  BY DEF Q!Ack
<1>3. PICK e \in 1..(seq + 1) :
        /\ \A k \in 1..(e - 1) : ~ Q!EvictionStops(k, 1, seq, archive, {})
        /\ items' = [n \in DOMAIN items \ (1..(e - 1)) |-> items[n]]
        /\ st' = [st EXCEPT !.Bytes = @ - Q!SizeAt(items, seq),
                            !.ArchiveBytes = archive - Q!Total(items, 1, e - 1),
                            !.DeliveredSeq = seq, !.EarliestSeq = e]
  BY <1>1, ZenonT(40) DEF Q!Ack
<1>4. Q!SizeAt(items, seq) = 1
  BY <1>2 DEF Q!SizeAt, QueueInv
<1>5. archive = seq /\ seq \in Nat /\ seq <= MaxSeq
  BY <1>2, <1>4, PollAssumption, SMT DEF QueueInv
<1> HIDE DEF archive
<1>6. Q!Total(items, 1, 0) = 0
  BY NothingSums
<1>7. Q!EvictionStops(1, 1, seq, archive, {})
  BY <1>2, <1>5, <1>6, SMT DEF Q!EvictionStops, QueueInv
<1>8. e = 1
  BY <1>3, <1>5, <1>7, SMT
<1>9. DOMAIN items' = DOMAIN items /\ \A n \in DOMAIN items : items'[n] = items[n]
  BY <1>3, <1>8, SMT
<1>10. /\ StateFields \subseteq DOMAIN st'
       /\ st'.NextSeq = st.NextSeq /\ st'.DeliveredSeq = seq
       /\ st'.ReadySeq = st.ReadySeq
       /\ st'.EarliestSeq = 1 /\ st'.ArchiveBytes = seq
       /\ st'.Phase = st.Phase /\ st'.SnapshotLSN = st.SnapshotLSN
       /\ st'.DurableLSN = st.DurableLSN
  BY <1>3, <1>5, <1>6, <1>8, SMT DEF QueueInv, StateFields
<1>11. QueueInv'
  BY <1>2, <1>5, <1>9, <1>10 DEF QueueInv
<1> QED BY <1>9, <1>10, <1>11 DEF QueueInv

-----------------------------------------------------------------------------
(* Steps.                                                                  *)

\* The log only grows.
LogGrows == /\ Len(log) \in Nat /\ Len(log') \in Nat /\ Len(log) <= Len(log')
            /\ \A t \in 1..Len(log) : log'[t] = log[t]

\* What is published stays as it is.
LEMMA StreamKept ==
  ASSUME QueueInv, StreamInv, LogGrows,
         st'.Phase = st.Phase, st'.ReadySeq = st.ReadySeq,
         st.Phase = "stream" =>
           /\ st'.SnapshotLSN = st.SnapshotLSN /\ st'.DurableLSN = st.DurableLSN
           /\ covers' = covers,
         \A n \in 1..st.ReadySeq : items'[n].body = items[n].body
  PROVE  StreamInv'
<1> SUFFICES ASSUME st.Phase = "stream" PROVE StreamInv'
  BY DEF StreamInv
<1> DEFINE S == st.SnapshotLSN
           D == st.DurableLSN
           R == st.ReadySeq
<1>1. /\ S \in Nat \ {0} /\ D \in Nat /\ S <= D /\ D <= Len(log)
      /\ covers \in S..Len(log) /\ NoRows(S, covers)
  BY DEF StreamInv
<1>2. R \in Nat
  BY DEF QueueInv
<1>3. \A k \in 1..R : Ended(k)' <=> Ended(k)
  BY DEF Ended
<1>4. D <= Len(log') /\ covers' \in S..Len(log')
  BY <1>1, SMT DEF LogGrows
<1>5. NoRows(S, covers)'
  BY <1>1, SMT DEF LogGrows, NoRows
<1>6. \A k \in 1..R : Ended(k)' => items'[k].body.tx \in S + 1 .. D
  BY <1>3 DEF StreamInv
<1>7. \A j, k \in 1..R : j < k /\ Ended(j)' /\ Ended(k)' => items'[j].body.tx < items'[k].body.tx
  BY <1>3 DEF StreamInv
<1>8. ASSUME NEW t \in S + 1 .. D, log'[t] = "rows" PROVE \E k \in 2..R : Holds(k, t)'
  <2>1. log[t] = "rows"
    BY <1>1, <1>8, SMT DEF LogGrows
  <2>2. PICK k \in 2..R : Holds(k, t)
    BY <2>1 DEF StreamInv
  <2>3. k \in 1..R /\ k - 1 \in 1..R
    BY <1>2, SMT
  <2>4. Holds(k, t)'
    BY <2>2, <2>3, Zenon DEF Holds
  <2> QED BY <2>4
<1> QED BY <1>1, <1>4, <1>5, <1>6, <1>7, <1>8 DEF StreamInv

\* Steps of the server change the log and the change tables only, and commit no
\* rows under the table locks.
LEMMA ServerGrows ==
  ASSUME ServerInv, Server
  PROVE  /\ ServerInv' /\ LogGrows
         /\ locked => \A t \in Len(log) + 1 .. Len(log') : log'[t] # "rows"
         /\ UNCHANGED <<queueVars, fence, locked, pc, pollVars, localVars>>
<1>0. log \in Seq({"rows", "other", "fence"}) /\ Len(log) \in Nat
  BY SMT DEF ServerInv
<1>1. CASE \E kind \in {"rows", "other"} : CommitTransaction(kind)
  <2>1. PICK kind \in {"rows", "other"} : CommitTransaction(kind)
    BY <1>1
  <2>2. /\ log' = Append(log, kind)
        /\ Len(log) < MaxTx
        /\ kind = "rows" => ~locked
        /\ UNCHANGED <<queueVars, captured, low, ct, fence, locked, pc, pollVars, localVars>>
    BY <2>1 DEF CommitTransaction
  <2>3. /\ log' \in Seq({"rows", "other", "fence"})
        /\ Len(log') = Len(log) + 1 /\ log'[Len(log) + 1] = kind
        /\ \A t \in 1..Len(log) : log'[t] = log[t]
    BY <1>0, <2>2, SMT
  <2>4. LogGrows
    BY <1>0, <2>3, SMT DEF LogGrows
  <2>5. ServerInv'
    BY <1>0, <2>2, <2>3, PollAssumption, SMT DEF ServerInv, Sees, pollVars
  <2> QED BY <1>0, <2>2, <2>3, <2>4, <2>5, SMT
<1>2. CASE AlterTable
  <2>1. UNCHANGED <<queueVars, log, captured, low, ct, fence, locked, pc, pollVars, localVars>>
    BY <1>2 DEF AlterTable
  <2> QED BY <1>0, <2>1, SMT DEF ServerInv, Sees, pollVars, LogGrows
<1>3. CASE CaptureJob
  <2>1. /\ captured < Len(log) /\ captured' = captured + 1
        /\ ct' = IF log[captured + 1] = "other" THEN ct ELSE ct \cup {captured + 1}
        /\ UNCHANGED <<queueVars, log, low, fence, locked, pc, pollVars, localVars>>
    BY <1>3 DEF CaptureJob
  <2>2. Sees(captured, low, ct)'
    <3>0. /\ captured \in Nat /\ low \in Nat /\ ct \subseteq 1..captured
          /\ \A t \in 1..captured : log[t] = "rows" /\ t >= low => t \in ct
      BY DEF ServerInv, Sees
    <3>1. /\ captured' \in Nat /\ captured' <= Len(log)
          /\ 1..captured' = 1..captured \cup {captured + 1}
      BY <1>0, <2>1, <3>0, SMT
    <3>2. ct' \subseteq 1..captured'
      BY <2>1, <3>0, <3>1
    <3>3. \A t \in 1..captured' : log[t] = "rows" /\ t >= low => t \in ct'
      BY <2>1, <3>0, <3>1
    <3> QED BY <2>1, <3>0, <3>1, <3>2, <3>3 DEF Sees
  <2> QED BY <1>0, <2>1, <2>2, SMT DEF ServerInv, Sees, pollVars, LogGrows
<1>4. CASE AdvanceLow
  <2>1. /\ low' = low + 1
        /\ UNCHANGED <<queueVars, log, captured, ct, fence, locked, pc, pollVars, localVars>>
    BY <1>4 DEF AdvanceLow
  <2> QED BY <1>0, <2>1, SMT DEF ServerInv, Sees, pollVars, LogGrows
<1>5. CASE DeleteChanges
  <2>1. /\ ct' = {t \in ct : t >= low}
        /\ UNCHANGED <<queueVars, log, captured, low, fence, locked, pc, pollVars, localVars>>
    BY <1>5 DEF DeleteChanges
  <2>2. Sees(captured, low, ct)'
    <3>1. \A t \in ct' : t \in ct
      BY <2>1
    <3>2. \A t \in ct : t >= low => t \in ct'
      BY <2>1
    <3>3. captured' = captured /\ low' = low /\ log' = log
      BY <2>1
    <3>4. Sees(captured, low, ct)
      BY DEF ServerInv
    <3>5. captured \in Nat /\ captured <= Len(log) /\ low \in Nat /\ ct \subseteq 1..captured
      BY <3>4 DEF Sees
    <3>6. ct' \subseteq 1..captured
      BY <3>1, <3>5, Zenon
    <3>7. ASSUME NEW t \in 1..captured, log[t] = "rows", t >= low PROVE t \in ct'
      BY <3>2, <3>4, <3>7 DEF Sees
    <3> QED BY <3>3, <3>5, <3>6, <3>7 DEF Sees
  <2> QED BY <1>0, <2>1, <2>2, SMT DEF ServerInv, Sees, pollVars, LogGrows
<1> QED BY <1>1, <1>2, <1>3, <1>4, <1>5 DEF Server

\* A step of the server keeps the invariant.
LEMMA ServerStep ==
  ASSUME CaptureInv, Server
  PROVE  CaptureInv'
<1> USE DEF CaptureInv
<1>1. /\ ServerInv' /\ LogGrows
      /\ locked => \A t \in Len(log) + 1 .. Len(log') : log'[t] # "rows"
      /\ UNCHANGED <<queueVars, fence, locked, pc, pollVars, localVars>>
  BY ServerGrows
<1>2. UNCHANGED <<st, items, fence, locked, pc, view, upper, target, boundary, covers>>
  BY <1>1 DEF queueVars, pollVars, localVars
<1>3. QueueInv'
  BY <1>2 DEF QueueInv
<1>4. StreamInv'
  BY <1>1, <1>2, StreamKept
<1>5. SnapshotInv'
  BY <1>1, <1>2, SMT DEF SnapshotInv, LogGrows, NoRows, UnderLock, Fenced, RowsRead
<1>6. PollInv'
  <2>1. pc \in Targeted => st.DurableLSN \in Nat /\ target <= Len(log) /\ target \in Nat
    BY SMT DEF PollInv, StreamInv, ServerInv, Sees, Polling, Ranged
  <2> QED BY <1>1, <1>2, <2>1, SMT DEF PollInv, LogGrows, NoRows
<1> QED BY <1>1, <1>3, <1>4, <1>5, <1>6

\* Nothing of the invariant depends on an attempt that has ended.
LEMMA EndStep ==
  ASSUME CaptureInv, NEW state \in {"dead", "down"}, Ends(state)
  PROVE  CaptureInv'
<1> USE DEF CaptureInv
<1>1. pc' = state /\ UNCHANGED <<st, items, log, captured, low, ct, view, covers>>
  BY DEF Ends, queueVars, serverVars, pollVars
<1>2. QueueInv' /\ ServerInv'
  BY <1>1 DEF QueueInv, ServerInv, Sees
<1>3. StreamInv'
  BY <1>1 DEF StreamInv, NoRows, Ended, Holds
<1>4. SnapshotInv'
  BY <1>1 DEF SnapshotInv, UnderLock, Fenced, RowsRead
<1>5. PollInv'
  BY <1>1 DEF PollInv, Targeted, Ranged, Polling
<1> QED BY <1>2, <1>3, <1>4, <1>5

\* A step of the collector leaves the server as it is.
LEMMA ServerKept ==
  ASSUME ServerInv, UNCHANGED <<log, captured, low, ct, view>>
  PROVE  ServerInv' /\ LogGrows
<1>1. Len(log) \in Nat
  BY SMT DEF ServerInv
<1> QED BY <1>1, SMT DEF ServerInv, Sees, LogGrows

\* Nor on what the invariant does not mention.
LEMMA Unmoved ==
  ASSUME CaptureInv, UNCHANGED <<st, items, log, captured, low, ct, fence, locked, pc, view,
                                 upper, target, boundary, covers>>
  PROVE  CaptureInv'
<1> USE DEF CaptureInv
<1>1. QueueInv' /\ ServerInv'
  BY DEF QueueInv, ServerInv, Sees
<1>2. StreamInv'
  BY DEF StreamInv, NoRows, Ended, Holds
<1>3. SnapshotInv' /\ PollInv'
  BY SMT DEF SnapshotInv, PollInv, NoRows
<1> QED BY <1>1, <1>2, <1>3

\* A message of the snapshot is staged behind the others.
LEMMA StageSnapshotStep ==
  ASSUME CaptureInv, StageSnapshot
  PROVE  CaptureInv'
<1> USE DEF CaptureInv
<1>1. PICK kind \in {"snapshot_begin", "schema", "snapshot_rows", "snapshot_end"},
           next \in {"schema", "read", "snapshot_end", "unlock"} :
        /\ Put(kind, 0, None, next)
        /\ kind = "snapshot_begin" => next = "schema"
        /\ kind = "schema" => next = "read"
        /\ kind = "snapshot_rows" => next = "snapshot_end"
        /\ kind = "snapshot_end" => next = "unlock"
  BY Zenon DEF StageSnapshot
<1>2. pc = kind
  BY <1>1 DEF Put
<1>3. CASE Q!Full(Msg(kind, 0, None))
  <2>1. UNCHANGED <<st, items, log, captured, low, ct, fence, locked, pc, view, upper, target,
                    boundary, covers>>
    BY <1>1, <1>3 DEF Put, queueVars, serverVars, pollVars
  <2> QED BY <2>1, Unmoved
<1>4. CASE ~ Q!Full(Msg(kind, 0, None))
  <2>1. /\ Q!AppendMessage(Msg(kind, 0, None)) /\ pc' = next
        /\ UNCHANGED <<log, captured, low, ct, fence, locked, view, upper, target, boundary,
                       covers>>
    BY <1>1, <1>4 DEF Put, Go, serverVars, pollVars
  <2>2. [kind |-> kind, tx |-> 0] \in Body
    BY <1>1, PollAssumption, SMT DEF Body
  <2>3. /\ QueueInv'
        /\ st'.NextSeq = st.NextSeq + 1 /\ st'.ReadySeq = st.ReadySeq
        /\ st'.Phase = st.Phase /\ st'.SnapshotLSN = st.SnapshotLSN
        /\ st'.DurableLSN = st.DurableLSN
        /\ items'[st.NextSeq + 1].body = [kind |-> kind, tx |-> 0]
        /\ \A n \in 1..st.NextSeq : items'[n] = items[n]
    BY <2>1, <2>2, AppendQueue
  <2>4. ServerInv' /\ LogGrows
    BY <2>1, ServerKept
  <2>5. \A n \in 1..st.ReadySeq : items'[n].body = items[n].body
    BY <2>3, SMT DEF QueueInv
  <2>6. StreamInv'
    BY <2>1, <2>3, <2>4, <2>5, StreamKept
  <2>7. \A n \in DOMAIN items' : items'[n].body.kind \notin Transactional
    BY <1>1, <1>2, <2>3, SMT DEF SnapshotInv, QueueInv, Transactional, UnderLock
  <2>8. SnapshotInv'
    BY <1>1, <1>2, <2>1, <2>3, <2>7 DEF SnapshotInv, NoRows, UnderLock, Fenced, RowsRead
  <2>9. PollInv'
    BY <1>1, <2>1 DEF PollInv, Targeted, Ranged, Polling
  <2> QED BY <2>3, <2>4, <2>6, <2>8, <2>9
<1> QED BY <1>3, <1>4

\* The other steps of attempt and snapshot.
LEMMA AttemptStep ==
  ASSUME CaptureInv, Attempt
  PROVE  CaptureInv'
<1> USE DEF CaptureInv
<1>1. /\ Q!Recover
      /\ \/ pc' = "initialize" /\ st.Phase # "stream"
         \/ pc' = "poll" /\ st.Phase = "stream"
         \/ pc' = "dead"
      /\ UNCHANGED <<log, captured, low, ct, fence, locked, view, upper, target, boundary, covers>>
  BY DEF Attempt, serverVars, pollVars
<1>2. /\ QueueInv'
      /\ st'.NextSeq = st.ReadySeq /\ st'.ReadySeq = st.ReadySeq
      /\ st'.Phase = st.Phase /\ st'.SnapshotLSN = st.SnapshotLSN
      /\ st'.DurableLSN = st.DurableLSN
      /\ \A n \in 1..st.ReadySeq : items'[n] = items[n]
  BY <1>1, RecoverQueue
<1>3. ServerInv' /\ LogGrows
  BY <1>1, ServerKept
<1>4. StreamInv'
  BY <1>1, <1>2, <1>3, StreamKept
<1>5. st'.Phase # "stream" => DOMAIN items' = {}
  BY <1>2, SMT DEF QueueInv
<1>6. SnapshotInv'
  BY <1>1, <1>2, <1>5 DEF SnapshotInv, UnderLock, Fenced, RowsRead
<1>7. PollInv'
  BY <1>1, <1>2 DEF PollInv, Targeted, Ranged, Polling
<1> QED BY <1>2, <1>3, <1>4, <1>6, <1>7

\* Initialize empties the queue for a new generation.
LEMMA InitializeStep ==
  ASSUME CaptureInv, Initialize
  PROVE  CaptureInv'
<1> USE DEF CaptureInv
<1>1. /\ Q!Initialize(expected) /\ pc' = "lock"
      /\ UNCHANGED <<log, captured, low, ct, fence, locked, view, upper, target, boundary, covers>>
  BY DEF Initialize, Go, serverVars, pollVars
<1>2. QueueInv' /\ st'.NextSeq = 0 /\ st'.ReadySeq = 0 /\ st'.Phase = "snapshot"
  BY <1>1, InitializeQueue
<1>3. ServerInv'
  BY <1>1, ServerKept
<1>4. StreamInv'
  BY <1>2 DEF StreamInv
<1>5. DOMAIN items' = {}
  BY <1>2, SMT DEF QueueInv
<1>6. SnapshotInv'
  BY <1>1, <1>2, <1>5 DEF SnapshotInv, UnderLock, Fenced, RowsRead
<1>7. PollInv'
  BY <1>1 DEF PollInv, Targeted, Ranged, Polling
<1> QED BY <1>2, <1>3, <1>4, <1>6, <1>7

\* LockTables, the fence, the reading of the tables and the unlocking.
LEMMA FencedStep ==
  ASSUME CaptureInv, LockTables \/ InsertFence \/ SnapshotRows \/ UnlockTables \/ WaitFence
  PROVE  CaptureInv'
<1> USE DEF CaptureInv
<1>0. log \in Seq({"rows", "other", "fence"}) /\ Len(log) \in Nat
  BY SMT DEF ServerInv
<1>1. /\ UNCHANGED <<st, items, captured, low, ct, view>>
      /\ pc \in {"lock", "fence", "read", "unlock", "wait"}
      /\ pc' \in {"inspect", "snapshot_begin", "snapshot_rows", "wait", "finalize"}
  BY DEF LockTables, InsertFence, SnapshotRows, UnlockTables, WaitFence, queueVars, serverVars,
         pollVars
<1>2. /\ log' \in Seq({"rows", "other", "fence"}) /\ Len(log') <= MaxTx
      /\ LogGrows
  BY <1>0, PollAssumption, SMT
     DEF LockTables, InsertFence, SnapshotRows, UnlockTables, WaitFence, serverVars,
         LogGrows, ServerInv
<1>3. QueueInv'
  BY <1>1 DEF QueueInv
<1>4. ServerInv'
  BY <1>1, <1>2, SMTT(60) DEF ServerInv, Sees, LogGrows
<1>5. st.Phase # "stream"
  BY <1>1 DEF SnapshotInv, UnderLock, Fenced
<1>6. StreamInv'
  BY <1>1, <1>5 DEF StreamInv
<1>7. PollInv'
  BY <1>1 DEF PollInv, Targeted, Ranged, Polling
<1>8. SnapshotInv'
  <2>1. CASE LockTables
    BY <1>1, <1>5, <2>1 DEF LockTables, SnapshotInv, UnderLock, Fenced, RowsRead
  <2>2. CASE InsertFence
    <3>1. /\ Len(log') = Len(log) + 1 /\ log'[Len(log) + 1] = "fence" /\ fence' = Len(log) + 1
          /\ locked' = locked /\ pc' = "snapshot_begin" /\ pc = "fence"
      BY <1>0, <2>2, SMT DEF InsertFence
    <3> QED BY <1>0, <1>1, <1>5, <3>1, SMT DEF SnapshotInv, NoRows, UnderLock, Fenced, RowsRead
  <2>3. CASE SnapshotRows
    BY <1>0, <1>1, <1>5, <2>3, SMT
       DEF SnapshotRows, serverVars, SnapshotInv, NoRows, UnderLock, Fenced, RowsRead
  <2>4. CASE UnlockTables
    BY <1>0, <1>1, <1>5, <2>4
       DEF UnlockTables, serverVars, localVars, SnapshotInv, NoRows, UnderLock, Fenced, RowsRead
  <2>5. CASE WaitFence
    BY <1>0, <1>1, <1>5, <2>5
       DEF WaitFence, serverVars, SnapshotInv, NoRows, UnderLock, Fenced, RowsRead
  <2> QED BY <2>1, <2>2, <2>3, <2>4, <2>5
<1> QED BY <1>3, <1>4, <1>6, <1>7, <1>8

\* Finalize stamps the boundary on the staged messages, and Seal publishes them.
LEMMA FinalizeStep ==
  ASSUME CaptureInv, Finalize
  PROVE  CaptureInv'
<1> USE DEF CaptureInv
<1>1. /\ Q!FinalizeSnapshotLSN(boundary) /\ pc = "finalize" /\ pc' = "seal"
      /\ UNCHANGED <<log, captured, low, ct, fence, locked, view, upper, target, boundary, covers>>
  BY DEF Finalize, Go, serverVars, pollVars
<1>2. /\ QueueInv'
      /\ st'.NextSeq = st.NextSeq /\ st'.ReadySeq = st.ReadySeq
      /\ st'.Phase = st.Phase /\ st'.SnapshotLSN = boundary
      /\ \A n \in 1..st.NextSeq : items'[n].body = items[n].body
  BY <1>1, FinalizeQueue
<1>3. ServerInv'
  BY <1>1, ServerKept
<1>4. st.Phase # "stream"
  BY <1>1 DEF SnapshotInv, Fenced
<1>5. StreamInv'
  BY <1>2, <1>4 DEF StreamInv
<1>6. \A n \in DOMAIN items' : items'[n].body.kind \notin Transactional
  BY <1>2, <1>4 DEF SnapshotInv, QueueInv
<1>7. SnapshotInv'
  BY <1>1, <1>2, <1>4, <1>6 DEF SnapshotInv, NoRows, UnderLock, Fenced, RowsRead
<1>8. PollInv'
  BY <1>1 DEF PollInv, Targeted, Ranged, Polling
<1> QED BY <1>2, <1>3, <1>5, <1>7, <1>8

\* Seal publishes the snapshot and opens the stream at the boundary.
LEMMA SealStep ==
  ASSUME CaptureInv, Seal
  PROVE  CaptureInv'
<1> USE DEF CaptureInv
<1>0. PICK seal \in BOOLEAN : seal = TRUE
  BY Zenon
<1>1. /\ Q!Publish(boundary, seal) /\ pc = "seal" /\ pc' = "poll"
      /\ UNCHANGED <<log, captured, low, ct, fence, locked, view, upper, target, boundary, covers>>
  BY <1>0, Zenon DEF Seal, Go, serverVars, pollVars
<1>2. /\ QueueInv' /\ items' = items
      /\ st'.NextSeq = st.NextSeq /\ st'.ReadySeq = st.NextSeq
      /\ st'.Phase = "stream" /\ st'.SnapshotLSN = st.SnapshotLSN
      /\ st'.DurableLSN = boundary
  <2>1. seal \/ st.Phase = "stream"
    BY <1>0, Zenon
  <2> QED BY <2>1, <1>1, PublishQueue
<1>3. ServerInv'
  BY <1>1, ServerKept
<1>4. /\ st.SnapshotLSN = fence /\ boundary = fence /\ fence \in 1..Len(log)
      /\ covers \in fence..Len(log) /\ NoRows(fence, covers)
  BY <1>1 DEF SnapshotInv, Fenced, RowsRead
<1>5. \A k \in 1..st.NextSeq : items[k].body.kind # "transaction_end"
  BY <1>1 DEF SnapshotInv, Fenced, Transactional, QueueInv
<1>6. Len(log) \in Nat
  BY SMT DEF ServerInv
<1>7. StreamInv'
  BY <1>1, <1>2, <1>4, <1>5, <1>6, SMT DEF StreamInv, Ended, NoRows
<1>8. SnapshotInv'
  BY <1>1, <1>2 DEF SnapshotInv, UnderLock, Fenced, RowsRead
<1>9. PollInv'
  BY <1>1, <1>2 DEF PollInv, Targeted, Ranged, Polling
<1> QED BY <1>2, <1>3, <1>7, <1>8, <1>9

\* The catalog is read under the table locks, before the fence.
LEMMA InspectStep ==
  ASSUME CaptureInv, InspectLocked
  PROVE  CaptureInv'
<1> USE DEF CaptureInv
<1>1. CASE catalog # expected
  BY <1>1, EndStep DEF InspectLocked, Fatal
<1>2. CASE catalog = expected
  <2>1. /\ pc = "inspect" /\ pc' = "fence"
        /\ UNCHANGED <<st, items, log, captured, low, ct, fence, locked, view, upper, target,
                       boundary, covers>>
    BY <1>2 DEF InspectLocked, Go, queueVars, serverVars, pollVars
  <2>2. QueueInv' /\ ServerInv'
    BY <2>1 DEF QueueInv, ServerInv, Sees
  <2>3. StreamInv'
    BY <2>1 DEF StreamInv, NoRows, Ended, Holds
  <2>4. SnapshotInv' /\ PollInv'
    BY <2>1 DEF SnapshotInv, PollInv, UnderLock, Fenced, RowsRead, Targeted, Ranged, Polling
  <2> QED BY <2>2, <2>3, <2>4
<1> QED BY <1>1, <1>2

\* Steps of poll that change only the place, or what the poll has read.
LEMMA PollKept ==
  ASSUME CaptureInv, st.Phase = "stream",
         UNCHANGED <<st, items, log, captured, low, ct, covers>>,
         pc' \in Polling, PollInv', Sees(view.max, view.min, view.ct)'
  PROVE  CaptureInv'
<1> USE DEF CaptureInv
<1>1. QueueInv' /\ ServerInv'
  BY DEF QueueInv, ServerInv, Sees
<1>2. StreamInv'
  BY DEF StreamInv, NoRows, Ended, Holds
<1>3. SnapshotInv'
  BY DEF SnapshotInv, UnderLock, Fenced, RowsRead, Polling, Ranged, Targeted
<1> QED BY <1>1, <1>2, <1>3

\* A poll begins at the durable position, with a fresh view of the change tables.
LEMMA BeginPollStep ==
  ASSUME CaptureInv, BeginPoll
  PROVE  CaptureInv'
<1> USE DEF CaptureInv
<1>1. CASE catalog # expected
  BY <1>1, EndStep DEF BeginPoll, Fatal
<1>2. CASE catalog = expected
  <2>1. /\ pc = "poll" /\ pc' = "range" /\ view' = [max |-> captured, min |-> low, ct |-> ct]
        /\ UNCHANGED <<st, items, log, captured, low, ct, covers>>
    BY <1>2 DEF BeginPoll, Now, queueVars, serverVars, localVars
  <2>2. st.Phase = "stream" /\ st.NextSeq = st.ReadySeq
    BY <2>1 DEF PollInv, Polling, Ranged, Targeted
  <2>3. Sees(view.max, view.min, view.ct)'
    BY <2>1 DEF ServerInv, Sees
  <2>4. PollInv' /\ pc' \in Polling
    BY <2>1, <2>2 DEF PollInv, Polling, Ranged, Targeted
  <2> QED BY <2>1, <2>2, <2>3, <2>4, PollKept
<1> QED BY <1>1, <1>2

\* A range that has been cleaned up, or holds nothing new, is not polled.
LEMMA CheckRangeStep ==
  ASSUME CaptureInv, CheckRange
  PROVE  CaptureInv'
<1> USE DEF CaptureInv
<1>1. pc = "range" /\ view.max \in Nat /\ view.min \in Nat
  BY DEF CheckRange, ServerInv, Sees
<1>2. st.Phase = "stream" /\ st.NextSeq = st.ReadySeq /\ st.DurableLSN \in Nat
  BY <1>1 DEF PollInv, StreamInv, Polling, Ranged, Targeted
<1>3. CASE Fatal
  BY <1>3, EndStep DEF Fatal
<1>4. CASE Go("poll") /\ UNCHANGED queueVars
  <2>1. pc' = "poll" /\ UNCHANGED <<st, items, log, captured, low, ct, covers, view>>
    BY <1>4 DEF Go, queueVars, serverVars, pollVars
  <2>2. PollInv' /\ pc' \in Polling
    BY <1>2, <2>1 DEF PollInv, Polling, Ranged, Targeted
  <2>3. Sees(view.max, view.min, view.ct)'
    BY <2>1 DEF ServerInv, Sees
  <2> QED BY <1>2, <2>1, <2>2, <2>3, PollKept
<1>5. CASE /\ view.max > st.DurableLSN /\ view.min <= st.DurableLSN + 1
           /\ upper' = view.max /\ pc' = "find"
           /\ UNCHANGED <<queueVars, serverVars, locked, view, target, localVars, crashes>>
  <2>1. UNCHANGED <<st, items, log, captured, low, ct, covers, view>>
    BY <1>5 DEF queueVars, serverVars, localVars
  <2>2. PollInv' /\ pc' \in Polling
    BY <1>1, <1>2, <1>5, <2>1 DEF PollInv, Polling, Ranged, Targeted
  <2>3. Sees(view.max, view.min, view.ct)'
    BY <2>1 DEF ServerInv, Sees
  <2> QED BY <1>2, <2>1, <2>2, <2>3, PollKept
<1>6. QED
  <2>1. CASE view.max < st.DurableLSN
    <3>1. Fatal
      BY <1>1, <1>2, <2>1, SMT DEF CheckRange, View, LastLSN
    <3> QED BY <3>1, <1>3
  <2>2. CASE view.max = st.DurableLSN
    <3>1. Go("poll") /\ UNCHANGED queueVars
      BY <1>1, <1>2, <2>2, SMT DEF CheckRange, View, LastLSN
    <3> QED BY <3>1, <1>4
  <2>3. CASE view.max > st.DurableLSN /\ st.DurableLSN + 1 < view.min
    <3>1. Fatal
      BY <1>1, <1>2, <2>3, SMTT(30) DEF CheckRange, View, LastLSN
    <3> QED BY <3>1, <1>3
  <2>4. CASE view.max > st.DurableLSN /\ ~ (st.DurableLSN + 1 < view.min)
    <3>1. /\ upper' = view.max /\ pc' = "find"
          /\ UNCHANGED <<queueVars, serverVars, locked, view, target, localVars, crashes>>
      BY <1>1, <1>2, <2>4, SMT DEF CheckRange, View, LastLSN
    <3> QED BY <3>1, <1>1, <1>2, <2>4, <1>5, SMT
  <2> QED BY <1>1, <1>2, <2>1, <2>2, <2>3, <2>4, SMT

\* Every rows transaction between the durable position and the high watermark is
\* among the changes the poll sees.
LEMMA ChangesComplete ==
  ASSUME CaptureInv, pc \in Ranged
  PROVE  /\ st.Phase = "stream" /\ st.DurableLSN \in Nat /\ upper \in Nat
         /\ upper <= Len(log) /\ st.DurableLSN < upper
         /\ Changes \subseteq st.DurableLSN + 1 .. upper
         /\ \A t \in st.DurableLSN + 1 .. upper : log[t] = "rows" => t \in Changes
<1> USE DEF CaptureInv
<1>1. st.Phase = "stream"
  BY DEF PollInv, Polling
<1>2. /\ upper = view.max /\ st.DurableLSN < upper /\ view.min <= st.DurableLSN + 1
      /\ st.DurableLSN \in Nat /\ view.max \in Nat /\ view.max <= Len(log) /\ view.min \in Nat
      /\ view.ct \subseteq 1..view.max
      /\ \A t \in 1..view.max : log[t] = "rows" /\ t >= view.min => t \in view.ct
  BY <1>1 DEF PollInv, StreamInv, ServerInv, Sees
<1>3. Changes \subseteq st.DurableLSN + 1 .. upper
  BY <1>2, SMT DEF Changes, View, LastLSN
<1>4. ASSUME NEW t \in st.DurableLSN + 1 .. upper, log[t] = "rows" PROVE t \in Changes
  <2>1. t \in view.ct /\ t > st.DurableLSN /\ t <= upper
    BY <1>2, <1>4, SMT
  <2> QED BY <1>4, <2>1 DEF Changes, View, LastLSN
<1> QED BY <1>1, <1>2, <1>3, <1>4

\* An empty range moves the durable position; otherwise the first change is the target.
LEMMA FindNextStep ==
  ASSUME CaptureInv, FindNext
  PROVE  CaptureInv'
<1> USE DEF CaptureInv
<1> DEFINE D == st.DurableLSN
<1>1. pc = "find" /\ pc \in Ranged
  BY DEF FindNext, Ranged
<1>2. /\ st.Phase = "stream" /\ D \in Nat /\ upper \in Nat /\ upper <= Len(log) /\ D < upper
      /\ Changes \subseteq D + 1 .. upper
      /\ \A t \in D + 1 .. upper : log[t] = "rows" => t \in Changes
  BY <1>1, ChangesComplete
<1>3. st.NextSeq = st.ReadySeq /\ upper = view.max /\ view.min <= D + 1
  BY <1>1 DEF PollInv, Polling, Ranged, Targeted
<1>4. CASE Changes = {}
  <2>0. PICK seal \in BOOLEAN : seal = FALSE
    BY Zenon
  <2>1. /\ Q!Publish(upper, seal) /\ pc' = "poll"
        /\ UNCHANGED <<log, captured, low, ct, covers, view>>
    BY <1>4, <2>0, Zenon DEF FindNext, Go, serverVars, pollVars
  <2>2. /\ QueueInv' /\ items' = items
        /\ st'.NextSeq = st.NextSeq /\ st'.ReadySeq = st.NextSeq
        /\ st'.Phase = "stream" /\ st'.SnapshotLSN = st.SnapshotLSN
        /\ st'.DurableLSN = upper
    BY <1>2, <2>1, PublishQueue
  <2>3. ServerInv'
    BY <2>1, ServerKept
  <2>4. StreamInv'
    <3>1. \A t \in D + 1 .. upper : log[t] # "rows"
      BY <1>2, <1>4
    <3>2. \A t \in st.SnapshotLSN + 1 .. upper :
            t \in st.SnapshotLSN + 1 .. D \/ t \in D + 1 .. upper
      BY <1>2, SMT DEF StreamInv
    <3> QED BY <1>2, <1>3, <2>1, <2>2, <3>1, <3>2, SMTT(30) DEF StreamInv, Ended, Holds, NoRows
  <2>5. SnapshotInv' /\ PollInv'
    BY <1>2, <1>3, <2>1, <2>2
       DEF SnapshotInv, PollInv, UnderLock, Fenced, RowsRead, Polling, Ranged, Targeted
  <2> QED BY <2>2, <2>3, <2>4, <2>5
<1>5. CASE Changes # {}
  <2>1. /\ target' \in Changes /\ \A t \in Changes : target' <= t
        /\ pc' = "changes"
        /\ UNCHANGED <<st, items, log, captured, low, ct, covers, view, upper>>
    BY <1>1, <1>5, Zenon DEF FindNext, queueVars, serverVars, localVars
  <2>2. target' \in D + 1 .. upper
    BY <1>2, <2>1
  <2>3. \A t \in D + 1 .. target' - 1 : log[t] # "rows"
    <3>0. PICK m \in D + 1 .. upper : m = target'
      BY <2>2
    <3>1. ASSUME NEW t \in D + 1 .. m - 1, log[t] = "rows" PROVE FALSE
      <4>0. D \in Nat /\ upper \in Nat
        BY <1>2
      <4>1. t \in D + 1 .. upper /\ ~ (m <= t)
        BY <4>0, SMT
      <4>2. t \in Changes
        BY <1>2, <3>1, <4>1
      <4>3. m <= t
        BY <2>1, <3>0, <4>2
      <4> QED BY <4>1, <4>3
    <3>2. \A t \in D + 1 .. m - 1 : log[t] # "rows"
      BY <3>1
    <3> QED BY <3>0, <3>2, Zenon
  <2>4. PollInv' /\ pc' \in Polling
    BY <1>2, <1>3, <2>1, <2>2, <2>3 DEF PollInv, NoRows, Polling, Ranged, Targeted
  <2>5. Sees(view.max, view.min, view.ct)'
    BY <2>1 DEF ServerInv, Sees
  <2> QED BY <1>2, <2>1, <2>4, <2>5, PollKept
<1> QED BY <1>4, <1>5

\* Reading the rows of the target leaves the queue as it is.
LEMMA ReadChangesStep ==
  ASSUME CaptureInv, ReadChanges
  PROVE  CaptureInv'
<1> USE DEF CaptureInv
<1>1. CASE Fatal
  BY <1>1, EndStep DEF Fatal
<1>2. CASE Go("transaction_rows") /\ UNCHANGED queueVars
  <2>1. /\ pc = "changes" /\ pc' = "transaction_rows"
        /\ UNCHANGED <<st, items, log, captured, low, ct, covers, view, upper, target>>
    BY <1>2 DEF ReadChanges, Go, queueVars, serverVars, pollVars
  <2>2. PollInv' /\ pc' \in Polling /\ st.Phase = "stream"
    BY <2>1 DEF PollInv, NoRows, Polling, Ranged, Targeted
  <2>3. Sees(view.max, view.min, view.ct)'
    BY <2>1 DEF ServerInv, Sees
  <2> QED BY <2>1, <2>2, <2>3, PollKept
<1> QED BY <1>1, <1>2 DEF ReadChanges

\* The rows and the end of the transaction are staged behind what is published.
LEMMA TransactionStep ==
  ASSUME CaptureInv, FlushRows \/ TransactionEnd
  PROVE  CaptureInv'
<1> USE DEF CaptureInv
<1>1. PICK kind \in Transactional, next \in {"transaction_end", "publish"} :
        /\ Put(kind, target, target, next)
        /\ kind = "transaction_rows" => next = "transaction_end"
        /\ kind = "transaction_end" => next = "publish"
  BY Zenon DEF FlushRows, TransactionEnd, Transactional
<1>2. pc = kind /\ pc \in Targeted /\ pc \in Ranged /\ pc \in Polling
  BY <1>1 DEF Put, Transactional, Targeted, Ranged, Polling
<1>3. CASE Q!Full(Msg(kind, target, target))
  <2>1. UNCHANGED <<st, items, log, captured, low, ct, fence, locked, pc, view, upper, target,
                    boundary, covers>>
    BY <1>1, <1>3 DEF Put, queueVars, serverVars, pollVars
  <2> QED BY <2>1, Unmoved
<1>4. CASE ~ Q!Full(Msg(kind, target, target))
  <2>1. /\ Q!AppendMessage(Msg(kind, target, target)) /\ pc' = next
        /\ UNCHANGED <<log, captured, low, ct, fence, locked, view, upper, target, boundary,
                       covers>>
    BY <1>1, <1>4 DEF Put, Go, serverVars, pollVars
  <2>2. /\ st.Phase = "stream" /\ st.DurableLSN \in Nat /\ upper \in Nat /\ upper <= Len(log)
        /\ target \in st.DurableLSN + 1 .. upper /\ NoRows(st.DurableLSN + 1, target - 1)
        /\ upper = view.max /\ st.DurableLSN < upper /\ view.min <= st.DurableLSN + 1
    BY <1>2, ChangesComplete DEF PollInv
  <2>3. [kind |-> kind, tx |-> target] \in Body
    <3>1. target \in 0..MaxTx
      BY <2>2, PollAssumption, SMT DEF ServerInv
    <3> QED BY <1>1, <3>1 DEF Body, Transactional
  <2>4. /\ QueueInv'
        /\ st'.NextSeq = st.NextSeq + 1 /\ st'.ReadySeq = st.ReadySeq
        /\ st'.Phase = st.Phase /\ st'.SnapshotLSN = st.SnapshotLSN
        /\ st'.DurableLSN = st.DurableLSN
        /\ items'[st.NextSeq + 1].body = [kind |-> kind, tx |-> target]
        /\ \A n \in 1..st.NextSeq : items'[n] = items[n]
    BY <2>1, <2>3, AppendQueue
  <2>5. ServerInv' /\ LogGrows
    BY <2>1, ServerKept
  <2>6. \A n \in 1..st.ReadySeq : items'[n].body = items[n].body
    BY <2>4, SMT DEF QueueInv
  <2>7. StreamInv'
    BY <2>1, <2>4, <2>5, <2>6, StreamKept
  <2>8. SnapshotInv'
    BY <1>1, <2>1, <2>2, <2>4 DEF SnapshotInv, UnderLock, Fenced, RowsRead
  <2>9. PollInv'
    <3>1. CASE kind = "transaction_rows"
      <4>1. st.NextSeq = st.ReadySeq /\ next = "transaction_end"
        BY <1>1, <1>2, <3>1 DEF PollInv
      <4>2. items'[st'.ReadySeq + 1].body = [kind |-> "transaction_rows", tx |-> target']
        BY <2>1, <2>4, <3>1, <4>1
      <4> QED BY <2>1, <2>2, <2>4, <4>1, <4>2 DEF PollInv, NoRows, Polling, Ranged, Targeted
    <3>2. CASE kind = "transaction_end"
      <4>1. /\ st.NextSeq = st.ReadySeq + 1 /\ next = "publish"
            /\ items[st.ReadySeq + 1].body = [kind |-> "transaction_rows", tx |-> target]
        BY <1>1, <1>2, <3>2 DEF PollInv
      <4>2. /\ st.ReadySeq \in Nat /\ st.NextSeq + 1 = st.ReadySeq + 2
            /\ st.ReadySeq + 1 \in 1..st.NextSeq
        BY <4>1, SMT DEF QueueInv
      <4>3. /\ items'[st'.ReadySeq + 1].body = [kind |-> "transaction_rows", tx |-> target']
            /\ items'[st'.ReadySeq + 2].body = [kind |-> "transaction_end", tx |-> target']
        BY <2>1, <2>4, <3>2, <4>1, <4>2
      <4> QED BY <2>1, <2>2, <2>4, <4>1, <4>2, <4>3
                 DEF PollInv, NoRows, Polling, Ranged, Targeted
    <3> QED BY <3>1, <3>2 DEF Transactional
  <2> QED BY <2>4, <2>5, <2>7, <2>8, <2>9
<1> QED BY <1>3, <1>4

\* Publishing moves the durable position to the target, past no other rows.
LEMMA PublishTransactionStep ==
  ASSUME CaptureInv, PublishTransaction
  PROVE  CaptureInv'
<1> USE DEF CaptureInv
<1> DEFINE D == st.DurableLSN
           S == st.SnapshotLSN
           R == st.ReadySeq
<1>0. PICK seal \in BOOLEAN : seal = FALSE
  BY Zenon
<1>1. /\ Q!Publish(target, seal) /\ pc = "publish" /\ pc' = "poll"
      /\ UNCHANGED <<log, captured, low, ct, covers, view>>
  BY <1>0, Zenon DEF PublishTransaction, Go, serverVars, pollVars
<1>2. /\ st.Phase = "stream" /\ D \in Nat /\ upper \in Nat /\ upper <= Len(log)
      /\ target \in D + 1 .. upper /\ NoRows(D + 1, target - 1)
  <2>1. pc \in Ranged /\ pc \in Targeted
    BY <1>1 DEF Ranged, Targeted
  <2> QED BY <2>1, ChangesComplete DEF PollInv
<1>3. /\ st.NextSeq = R + 2
      /\ items[R + 1].body = [kind |-> "transaction_rows", tx |-> target]
      /\ items[R + 2].body = [kind |-> "transaction_end", tx |-> target]
  BY <1>1 DEF PollInv
<1>4. /\ QueueInv' /\ items' = items
      /\ st'.NextSeq = st.NextSeq /\ st'.ReadySeq = st.NextSeq
      /\ st'.Phase = "stream" /\ st'.SnapshotLSN = S
      /\ st'.DurableLSN = target
  BY <1>2, <1>1, PublishQueue
<1>5. ServerInv'
  BY <1>1, ServerKept
<1>6. R \in Nat /\ S \in Nat \ {0} /\ S <= D /\ target \in Nat /\ D < target
  BY <1>2, SMT DEF QueueInv, StreamInv
<1>7. StreamInv'
  <2>0. S \in Nat /\ D \in Nat /\ target \in Nat /\ S <= D /\ D < target
    BY <1>2, <1>6
  <2>1. \A k \in 1..R+2 : k \in 1..R \/ k = R + 1 \/ k = R + 2
    BY <1>6, SMT
  <2>2. ~ Ended(R + 1) /\ items[R + 2].body.tx = target
    BY <1>3, SMT DEF Ended
  <2>3. ASSUME NEW k \in 1..R+2, Ended(k) PROVE items[k].body.tx \in S + 1 .. target
    <3>1. CASE k \in 1..R
      <4>1. items[k].body.tx \in S + 1 .. D
        BY <1>2, <2>3, <3>1 DEF StreamInv
      <4> QED BY <2>0, <4>1, SMT
    <3>2. CASE k = R + 2
      BY <2>0, <2>2, <3>2, SMT
    <3> QED BY <2>1, <2>2, <2>3, <3>1, <3>2
  <2>4. ASSUME NEW j \in 1..R+2, NEW k \in 1..R+2, j < k, Ended(j), Ended(k)
        PROVE  items[j].body.tx < items[k].body.tx
    <3>1. j \in 1..R
      BY <1>6, <2>1, <2>2, <2>4, SMT
    <3>2. CASE k \in 1..R
      BY <1>2, <2>4, <3>1, <3>2 DEF StreamInv
    <3>3. CASE k = R + 2
      <4>1. items[j].body.tx \in S + 1 .. D
        BY <1>2, <2>4, <3>1 DEF StreamInv
      <4>2. items[k].body.tx = target
        BY <2>2, <3>3
      <4> QED BY <2>0, <4>1, <4>2, SMT
    <3> QED BY <2>1, <2>2, <2>4, <3>2, <3>3
  <2>5. ASSUME NEW t \in S + 1 .. target, log[t] = "rows" PROVE \E k \in 2..R+2 : Holds(k, t)
    <3>1. CASE t \in S + 1 .. D
      <4>1. PICK k \in 2..R : Holds(k, t)
        BY <1>2, <2>5, <3>1 DEF StreamInv
      <4>2. k \in 2..R+2
        BY <1>6, SMT
      <4> QED BY <4>1, <4>2
    <3>2. CASE t = target
      <4>1. R + 2 \in 2..R+2 /\ (R + 2) - 1 = R + 1
        BY <1>6, SMT
      <4>2. Holds(R + 2, t)
        BY <1>3, <3>2, <4>1 DEF Holds
      <4> QED BY <4>1, <4>2
    <3>3. CASE t \in D + 1 .. target - 1
      BY <1>2, <2>5, <3>3 DEF NoRows
    <3>4. t \in S + 1 .. D \/ t = target \/ t \in D + 1 .. target - 1
      BY <2>0, SMT
    <3> QED BY <3>1, <3>2, <3>3, <3>4
  <2>6. /\ covers \in S..Len(log) /\ NoRows(S, covers) /\ target <= Len(log) /\ Len(log) \in Nat
    BY <1>2, SMT DEF StreamInv, ServerInv
  <2>7. /\ st'.ReadySeq = R + 2 /\ st'.SnapshotLSN = S /\ st'.DurableLSN = target
        /\ log' = log /\ items' = items /\ covers' = covers
    BY <1>1, <1>3, <1>4
  <2> HIDE DEF S, R, D
  <2>8. S <= target
    BY <2>0, SMT
  <2>9. (\A k \in 1..st.ReadySeq : Ended(k) =>
            items[k].body.tx \in st.SnapshotLSN + 1 .. st.DurableLSN)'
    BY <2>3, <2>7 DEF Ended
  <2>10. (\A j, k \in 1..st.ReadySeq : j < k /\ Ended(j) /\ Ended(k) =>
             items[j].body.tx < items[k].body.tx)'
    BY <2>4, <2>7 DEF Ended
  <2>11. (\A t \in st.SnapshotLSN + 1 .. st.DurableLSN :
             log[t] = "rows" => \E k \in 2..st.ReadySeq : Holds(k, t))'
    BY <2>5, <2>7 DEF Holds
  <2>12. (/\ covers \in st.SnapshotLSN..Len(log) /\ NoRows(st.SnapshotLSN, covers)
          /\ st.DurableLSN <= Len(log))'
    BY <2>6, <2>7 DEF NoRows
  <2> QED BY <1>6, <2>7, <2>8, <2>9, <2>10, <2>11, <2>12 DEF StreamInv
<1>8. SnapshotInv' /\ PollInv'
  BY <1>1, <1>4 DEF SnapshotInv, PollInv, UnderLock, Fenced, RowsRead, Polling, Ranged, Targeted
<1> QED BY <1>4, <1>5, <1>7, <1>8

-----------------------------------------------------------------------------
(* The whole.                                                              *)

\* An acknowledgement moves nothing the capture reads.
LEMMA AcknowledgeStep ==
  ASSUME CaptureInv, Acknowledge
  PROVE  CaptureInv'
<1> USE DEF CaptureInv
<1>1. /\ Q!Ack(st.DeliveredSeq + 1, Q!MessageID(st.DeliveredSeq + 1), {})
      /\ UNCHANGED <<log, captured, low, ct, fence, locked, pc, view, upper, target, boundary,
                     covers>>
  BY DEF Acknowledge, serverVars, pollVars, localVars
<1>2. /\ QueueInv' /\ \A n \in 1..st.NextSeq : items'[n] = items[n]
      /\ st'.NextSeq = st.NextSeq /\ st'.ReadySeq = st.ReadySeq
      /\ st'.Phase = st.Phase /\ st'.SnapshotLSN = st.SnapshotLSN
      /\ st'.DurableLSN = st.DurableLSN
  BY <1>1, AckQueue
<1>3. ServerInv' /\ LogGrows
  BY <1>1, ServerKept
<1>4. StreamInv'
  <2>1. \A n \in 1..st.ReadySeq : items'[n].body = items[n].body
    BY <1>2, SMT DEF QueueInv
  <2> QED BY <1>1, <1>2, <1>3, <2>1, StreamKept
<1>5. SnapshotInv'
  BY <1>1, <1>2 DEF SnapshotInv, QueueInv, NoRows
<1>6. PollInv'
  <2>1. st.ReadySeq \in Nat
    BY DEF QueueInv
  <2>2. pc = "transaction_end" => st.ReadySeq + 1 \in 1..st.NextSeq
    BY <2>1, SMT DEF PollInv
  <2>3. pc = "publish" => st.ReadySeq + 1 \in 1..st.NextSeq /\ st.ReadySeq + 2 \in 1..st.NextSeq
    BY <2>1, SMT DEF PollInv
  <2> QED BY <1>1, <1>2, <2>2, <2>3 DEF PollInv, NoRows
<1> QED BY <1>2, <1>3, <1>4, <1>5, <1>6

\* An append that waited tries again, or ends the attempt.
LEMMA WaitedStep ==
  ASSUME CaptureInv, Waited
  PROVE  CaptureInv'
<1>1. CASE Fatal
  BY <1>1, EndStep DEF Fatal
<1>2. CASE Go(pc) /\ UNCHANGED queueVars
  <2>1. UNCHANGED <<st, items, log, captured, low, ct, fence, locked, pc, view, upper, target,
                    boundary, covers>>
    BY <1>2 DEF Go, queueVars, serverVars, pollVars
  <2> QED BY <2>1, Unmoved
<1> QED BY <1>1, <1>2 DEF Waited

\* The invariant holds of the queue just opened and the empty log ...
LEMMA InitCapture == Init => CaptureInv
<1> SUFFICES ASSUME Init PROVE CaptureInv
  OBVIOUS
<1>1. /\ st = Q!Blank(0, None, "empty", 0) /\ items = [n \in {} |-> None]
      /\ log = <<>> /\ captured = 0 /\ low = 0 /\ ct = {} /\ pc = "down"
      /\ view = [max |-> 0, min |-> 0, ct |-> {}]
  BY DEF Init, Q!Open, Now
<1>2. /\ StateFields \subseteq DOMAIN st
      /\ st.NextSeq = 0 /\ st.ReadySeq = 0 /\ st.DeliveredSeq = 0 /\ st.EarliestSeq = 0
      /\ st.ArchiveBytes = 0 /\ st.Phase = "empty"
  BY <1>1 DEF Q!Blank, StateFields
<1>3. DOMAIN items = {}
  BY <1>1
<1>4. QueueInv
  BY <1>2, <1>3, PollAssumption, SMT DEF QueueInv
<1>5. ServerInv
  BY <1>1, PollAssumption, SMT DEF ServerInv, Sees
<1>6. SnapshotInv /\ StreamInv /\ PollInv
  BY <1>1, <1>2, <1>3 DEF SnapshotInv, StreamInv, PollInv, UnderLock, Fenced, RowsRead,
                          Polling, Ranged, Targeted
<1> QED BY <1>4, <1>5, <1>6 DEF CaptureInv

\* ... and after every step.
LEMMA NextCapture == CaptureInv /\ [Next]_vars => CaptureInv'
<1> SUFFICES ASSUME CaptureInv, [Next]_vars PROVE CaptureInv'
  OBVIOUS
<1>1. CASE Attempt \/ Waited
  BY <1>1, AttemptStep, WaitedStep
<1>2. CASE Snapshot
  BY <1>2, InitializeStep, FencedStep, InspectStep, StageSnapshotStep, FinalizeStep, SealStep
     DEF Snapshot
<1>3. CASE Poll
  BY <1>3, BeginPollStep, CheckRangeStep, FindNextStep, ReadChangesStep, TransactionStep,
     PublishTransactionStep DEF Poll
<1>4. CASE Server \/ Acknowledge
  BY <1>4, ServerStep, AcknowledgeStep
<1>5. CASE FenceTimeout \/ StagingDeadline \/ Crash
  BY <1>5, EndStep DEF FenceTimeout, StagingDeadline, Crash, Fatal
<1>6. CASE UNCHANGED vars \/ Exited \/ LogFull
  <2>1. UNCHANGED vars
    BY <1>6 DEF Exited, LogFull
  <2>2. UNCHANGED <<st, items, log, captured, low, ct, fence, locked, pc, view, upper, target,
                    boundary, covers>>
    BY <2>1 DEF vars, queueVars, serverVars, pollVars, localVars
  <2> QED BY <2>2, Unmoved
<1> QED BY <1>1, <1>2, <1>3, <1>4, <1>5, <1>6 DEF Next, Collector

\* The invariant above always holds.
THEOREM CaptureInvariant == Spec => []CaptureInv
  BY InitCapture, NextCapture, PTL DEF Spec

\* Published transactions are in the order of the log.
LEMMA PublishedOrder ==
  ASSUME CaptureInv, st.Phase = "stream", NEW s \in Nat, NEW t \in Nat,
         NEW j \in Published(s), NEW k \in Published(t)
  PROVE  /\ t \in st.SnapshotLSN + 1 .. st.DurableLSN
         /\ s < t => j < k
         /\ s = t => j = k
<1>1. /\ st.ReadySeq \in Nat
      /\ j \in 2..st.ReadySeq /\ items[j].body = [kind |-> "transaction_end", tx |-> s]
      /\ k \in 2..st.ReadySeq /\ items[k].body = [kind |-> "transaction_end", tx |-> t]
  BY DEF Published, CaptureInv, QueueInv
<1>2. /\ j \in 1..st.ReadySeq /\ Ended(j) /\ items[j].body.tx = s
      /\ k \in 1..st.ReadySeq /\ Ended(k) /\ items[k].body.tx = t
  BY <1>1, SMT DEF Ended
<1>3. t \in st.SnapshotLSN + 1 .. st.DurableLSN
  BY <1>2 DEF CaptureInv, StreamInv
<1>4. j < k => s < t
  BY <1>2 DEF CaptureInv, StreamInv
<1>5. k < j => t < s
  BY <1>2 DEF CaptureInv, StreamInv
<1>6. j = k => s = t
  BY <1>2
<1>7. j \in Int /\ k \in Int
  BY <1>2, SMT
<1> QED BY <1>3, <1>4, <1>5, <1>6, <1>7, SMT

\* A rows transaction is in the snapshot or, once the position is past it, published
\* once: the invariant implies the property.
LEMMA CaptureOnce == CaptureInv => ExactlyOnce
<1> SUFFICES ASSUME CaptureInv, st.Phase = "stream", NEW t \in DOMAIN log
             PROVE  /\ log[t] = "rows" =>
                         IF t > covers /\ t <= st.DurableLSN
                         THEN \E k \in 2..st.ReadySeq : Published(t) = {k}
                         ELSE Published(t) = {}
                    /\ \A s \in 1..t-1 : \A j \in Published(s), k \in Published(t) : j < k
  BY DEF ExactlyOnce
<1> DEFINE S == st.SnapshotLSN
           D == st.DurableLSN
<1>1. t \in 1..Len(log) /\ Len(log) \in Nat
  BY SMT DEF CaptureInv, ServerInv
<1>2. S \in Nat /\ D \in Nat /\ covers \in S..Len(log) /\ NoRows(S, covers)
  BY DEF CaptureInv, StreamInv
<1>3. ASSUME NEW s \in 1..t-1, NEW j \in Published(s), NEW k \in Published(t)
      PROVE  j < k
  <2>1. s \in Nat /\ t \in Nat /\ s < t
    BY <1>1, SMT
  <2> QED BY <2>1, PublishedOrder
<1>4. ASSUME log[t] = "rows", t > covers, t <= D
      PROVE  \E k \in 2..st.ReadySeq : Published(t) = {k}
  <2>1. t \in S + 1 .. D /\ t \in Nat
    BY <1>1, <1>2, <1>4, SMT
  <2>2. PICK k \in 2..st.ReadySeq : Holds(k, t)
    BY <1>4, <2>1 DEF CaptureInv, StreamInv
  <2>3. k \in Published(t)
    BY <2>2 DEF Published, Holds
  <2>4. \A j \in Published(t) : j = k
    BY <2>1, <2>3, PublishedOrder
  <2>5. Published(t) = {k}
    BY <2>3, <2>4, Zenon
  <2> QED BY <2>5, Zenon
<1>5. ASSUME log[t] = "rows", ~ (t > covers /\ t <= D)
      PROVE  Published(t) = {}
  <2>1. ASSUME NEW k \in Published(t) PROVE FALSE
    <3>1. t \in S + 1 .. D
      BY <1>1, PublishedOrder, SMT
    <3>2. t \in S..covers
      BY <1>1, <1>2, <1>5, <3>1, SMT
    <3> QED BY <1>2, <1>5, <3>2 DEF NoRows
  <2> QED BY <2>1, Zenon
<1> QED BY <1>3, <1>4, <1>5

\* Whatever the delay of the capture job and the moment of a cleanup, every captured
\* transaction up to the durable position is either in the rows the snapshot read or
\* published once, in commit order (waitFence, poll).
THEOREM AlwaysExactlyOnce == Spec => []ExactlyOnce
  BY CaptureInvariant, CaptureOnce, PTL
=============================================================================

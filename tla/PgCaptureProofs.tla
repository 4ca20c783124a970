-------------------------- MODULE PgCaptureProofs ---------------------------
(***************************************************************************)
(* PostgreSQL capture publishes every transaction exactly once, stamps     *)
(* every row with a schema it fits, the one in force, and never lets the   *)
(* slot confirm what is not durable, for any WAL, batch and queue size and any  *)
(* crashes, redelivered transactions and schema refreshes.                 *)
(*                                                                         *)
(* The argument.  The stream never runs ahead of the durable position, and *)
(* what is staged belongs to the one transaction behind it (DecoderInv),   *)
(* whose chunks cover the rows the decoder has counted.  Publish turns it  *)
(* into the last transaction of an ordered log (LogInv); Recover drops it. *)
(* The version stamped on new messages is the one the last schema_end set  *)
(* (SchemaInv), and the slot starts at the snapshot's point (SlotInv).     *)
(***************************************************************************)
EXTENDS PgCapture, FiniteSetTheorems, TLAPS

\* The default prover, for the leaves that name none.
USE Zenon

-----------------------------------------------------------------------------
(* The invariant.                                                          *)

StateFields == {"Generation", "SchemaHash", "Phase", "SnapshotLSN", "DurableLSN",
                "SourceCleanup", "NextSeq", "ReadySeq", "DeliveredSeq", "Bytes",
                "EarliestSeq", "ArchiveBytes"}

\* The archive holds every message, so nothing is ever evicted.
QueueInv ==
  /\ StateFields \subseteq DOMAIN st
  /\ st.DeliveredSeq \in Nat /\ st.ReadySeq \in Nat /\ st.NextSeq \in Nat
  /\ st.DeliveredSeq <= st.ReadySeq /\ st.ReadySeq <= st.NextSeq /\ st.NextSeq <= MaxSeq
  /\ st.EarliestSeq \in {0, 1} /\ st.ArchiveBytes = st.DeliveredSeq
  /\ st.Phase # "stream" => st.ReadySeq = 0
  /\ DOMAIN items = 1..st.NextSeq
  /\ \A n \in DOMAIN items : items[n].size = 1 /\ items[n].body \in Body

SourceInv == /\ wal \in Seq([kind : Changes, rows : Seq(Change), version : Versions])
             /\ table \in Versions

Snapping == {"drop", "initialize", "create", "point", "begin", "schema", "rows", "end", "seal"}
Placed == {"point", "begin", "schema", "rows", "end", "seal"}
Decoding == {"record", "flush", "commit", "publish"}
Refreshing == {"refresh", "refresh-schema", "refresh-end", "refresh-publish"}

\* The phase at each step, and the slot: it is created at the snapshot's point
\* and stays at or below the durable position.
SlotInv ==
  /\ pc \in Snapping => st.Phase # "stream"
  /\ pc \in Placed => slot = point /\ point \in 0..Len(wal)
  /\ pc \in Placed \ {"point"} => st.SnapshotLSN = point
  /\ pc \in Decoding \cup Refreshing \cup {"connect"} => st.Phase = "stream"
  /\ pc \in Decoding \cup Refreshing => durable = st.DurableLSN
  /\ st.Phase = "stream" => /\ slot \in Nat /\ slot <= st.DurableLSN
                            /\ st.SnapshotLSN \in Nat /\ st.DurableLSN \in Nat
                            /\ st.SnapshotLSN <= st.DurableLSN /\ st.DurableLSN <= Len(wal)

Kind(k) == items[k].body.kind
Tx(k) == items[k].body.tx
Moved(k) == Kind(k) \in {"transaction_rows", "transaction_end"}
Carries(k, n, r) == /\ Kind(k) = "transaction_rows" /\ Tx(k) = n
                    /\ items[k].body.first <= r /\ r < items[k].body.first + items[k].body.rows

\* Messages of transactions are in commit order, the chunks of one transaction
\* in the order of its rows and before its end.
Before(j, k) ==
  \/ Tx(j) < Tx(k)
  \/ /\ Tx(j) = Tx(k) /\ Kind(j) = "transaction_rows"
     /\ Kind(k) = "transaction_rows" =>
          items[j].body.first + items[j].body.rows <= items[k].body.first

\* The published log holds the transactions from the snapshot's point to the
\* durable position and all of their rows.
Complete(n) ==
  /\ wal[n].kind # "truncate"
  /\ \E e \in 1..st.ReadySeq : Kind(e) = "transaction_end" /\ Tx(e) = n
  /\ \A r \in 1..Len(wal[n].rows) : \E k \in 1..st.ReadySeq : Carries(k, n, r)

LogInv ==
  /\ \A k \in 1..st.NextSeq : Moved(k) => st.Phase = "stream"
  /\ \A k \in 1..st.NextSeq : \A j \in 1..k-1 : Moved(j) /\ Moved(k) => Before(j, k)
  /\ st.Phase = "stream" =>
       /\ \A k \in 1..st.ReadySeq : Moved(k) => Tx(k) \in st.SnapshotLSN + 1 .. st.DurableLSN
       /\ \A n \in st.SnapshotLSN + 1 .. st.DurableLSN : Complete(n)

\* What is staged at each step: chunks of the transaction behind the durable
\* position, which cover the rows counted and not in the batch.
Staged(hi) ==
  /\ \A k \in st.ReadySeq + 1 .. hi :
       /\ Kind(k) = "transaction_rows" /\ Tx(k) = pos + 1
       /\ items[k].body.first + items[k].body.rows <= ordinal - batch + 1
  /\ \A r \in 1..(ordinal - batch) : \E k \in st.ReadySeq + 1 .. hi : Carries(k, pos + 1, r)

\* The rows of the batch fit the tables that were inspected.
BatchFits == \A i \in ordinal - batch + 1 .. ordinal : Fits(RowAt(pos + 1, i), table)

DecoderInv ==
  /\ pc = "connect" => st.NextSeq = st.ReadySeq
  /\ pc \in Refreshing \ {"refresh"} => \A k \in st.ReadySeq + 1 .. st.NextSeq : ~Moved(k)
  /\ pc \in Decoding =>
       /\ pos \in Nat /\ ordinal \in Nat /\ batch \in Nat
       /\ batch <= ordinal /\ pos <= st.DurableLSN
       /\ ordinal > 0 => pos < Len(wal) /\ ordinal <= Len(wal[pos + 1].rows)
       /\ pos < st.DurableLSN => batch = 0 /\ st.NextSeq = st.ReadySeq
       /\ pos = st.DurableLSN => Staged(IF pc = "publish" THEN st.NextSeq - 1 ELSE st.NextSeq)
       /\ batch > 0 => BatchFits
  /\ pc \in Decoding \ {"record"} => pos = st.DurableLSN /\ pos < Len(wal)
  /\ pc = "flush" => batch > 0
  /\ pc \in {"commit", "publish"} => /\ batch = 0 /\ ordinal = Len(wal[pos + 1].rows)
                                     /\ wal[pos + 1].kind # "truncate"
  /\ pc = "publish" => /\ st.NextSeq > st.ReadySeq
                       /\ Kind(st.NextSeq) = "transaction_end" /\ Tx(st.NextSeq) = pos + 1

\* v is the version in force at message k: that of the last schema_end before it,
\* or else that of the first message.
InForce(k, v) ==
  \/ /\ \A f \in 1..k-1 : Kind(f) # "schema_end"
     /\ items[1].SchemaVersion = v
  \/ \E e \in 1..k-1 : /\ Kind(e) = "schema_end" /\ items[e].SchemaVersion = v
                       /\ \A f \in e+1..k-1 : Kind(f) # "schema_end"

Stamping == {"schema", "rows", "end", "seal"} \cup Decoding

\* The snapshot's rows are read from the tables that were inspected.
Copying == {"schema", "rows"}

RowsOK(k) ==
  Kind(k) \in {"snapshot_rows", "transaction_rows"} =>
    /\ \A r \in items[k].body.records : Fits(r, items[k].SchemaVersion)
    /\ InForce(k, items[k].SchemaVersion)

\* The version stamped on the rows, and the one in force behind the published log.
StampInv ==
  /\ \A k \in 1..st.NextSeq : RowsOK(k)
  /\ st.Phase = "stream" => st.ReadySeq > 0 /\ InForce(st.ReadySeq + 1, st.SchemaHash)

SchemaInv ==
  /\ pc \in Stamping \cup {"create", "point", "begin", "connect", "refresh"} =>
       table = st.SchemaHash
  /\ pc \in {"create", "point", "begin"} => st.NextSeq = 0
  /\ pc \in Stamping => st.NextSeq > 0 /\ InForce(st.NextSeq + 1, st.SchemaHash)
  /\ pc \in Stamping /\ pc \in Copying => VersionAt(point) = table
  /\ pc = "refresh-publish" => st.NextSeq > 0 /\ InForce(st.NextSeq + 1, table)

CaptureInv == QueueInv /\ SourceInv /\ SlotInv /\ LogInv /\ DecoderInv /\ StampInv
              /\ SchemaInv

-----------------------------------------------------------------------------
(* The queue.                                                              *)

\* The fields that no step but the ones that name them changes.
Same == /\ st'.Phase = st.Phase /\ st'.SnapshotLSN = st.SnapshotLSN
        /\ st'.DurableLSN = st.DurableLSN /\ st'.SchemaHash = st.SchemaHash

\* Initialize leaves an empty queue.
LEMMA InitializeQueue ==
  ASSUME NEW hash, Q!Initialize(hash)
  PROVE  /\ QueueInv' /\ st'.NextSeq = 0 /\ st'.ReadySeq = 0 /\ st'.Phase = "snapshot"
         /\ st'.SchemaHash = hash
<1>1. DOMAIN items' = {}
  BY DEF Q!Initialize
<1>2. /\ st'.DeliveredSeq = 0 /\ st'.ReadySeq = 0 /\ st'.NextSeq = 0
      /\ st'.EarliestSeq = 1 /\ st'.ArchiveBytes = 0
      /\ st'.Phase = "snapshot" /\ st'.SchemaHash = hash
      /\ StateFields \subseteq DOMAIN st'
  BY DEF Q!Initialize, Q!Blank, StateFields
<1> QED BY <1>1, <1>2, CaptureAssumption, SMT DEF QueueInv

\* AppendMessage adds one message behind the others.
LEMMA AppendQueue ==
  ASSUME QueueInv, NEW m, m.body \in Body, m.lsn = None, Q!AppendMessage(m)
  PROVE  /\ QueueInv' /\ Same
         /\ st'.NextSeq = st.NextSeq + 1 /\ st'.ReadySeq = st.ReadySeq
         /\ items'[st.NextSeq + 1].body = m.body
         /\ items'[st.NextSeq + 1].SchemaVersion = IF m.version = None THEN st.SchemaHash
                                                   ELSE m.version
         /\ \A n \in 1..st.NextSeq : items'[n] = items[n]
<1> DEFINE x == Q!Stamped(m)
           N == st.NextSeq
<1>1. /\ x.body = m.body /\ x.size = 1
      /\ x.SchemaVersion = IF m.version = None THEN st.SchemaHash ELSE m.version
  BY SMT DEF Q!Stamped, Q!LsnLen
<1>2. /\ items' = [n \in DOMAIN items \cup {N + 1} |-> IF n = N + 1 THEN x ELSE items[n]]
      /\ st' = [st EXCEPT !.NextSeq = @ + 1, !.Bytes = @ + x.size]
      /\ N < MaxSeq
  BY DEF Q!AppendMessage
<1> HIDE DEF x
<1>3. /\ StateFields \subseteq DOMAIN st' /\ Same
      /\ st'.NextSeq = N + 1
      /\ st'.DeliveredSeq = st.DeliveredSeq /\ st'.ReadySeq = st.ReadySeq
      /\ st'.EarliestSeq = st.EarliestSeq /\ st'.ArchiveBytes = st.ArchiveBytes
  BY <1>2 DEF QueueInv, StateFields, Same
<1>4. DOMAIN items' = 1..(N + 1) /\ items'[N + 1] = x /\ \A n \in 1..N : items'[n] = items[n]
  BY <1>2, SMT DEF QueueInv
<1>5. st'.Phase = st.Phase
  BY <1>3 DEF Same
<1>6. QueueInv'
  BY <1>1, <1>2, <1>3, <1>4, <1>5, CaptureAssumption, SMTT(30) DEF QueueInv
<1> QED BY <1>1, <1>3, <1>4, <1>6

\* Publish exposes what is staged and moves the durable position.
LEMMA PublishQueue ==
  ASSUME QueueInv, NEW lsn, NEW seal \in BOOLEAN, Q!Publish(lsn, seal),
         seal \/ st.Phase = "stream"
  PROVE  /\ QueueInv' /\ items' = items
         /\ st'.NextSeq = st.NextSeq /\ st'.ReadySeq = st.NextSeq
         /\ st'.Phase = "stream" /\ st'.SnapshotLSN = st.SnapshotLSN
         /\ st'.DurableLSN = lsn /\ st'.SchemaHash = st.SchemaHash
<1>1. /\ st' = [st EXCEPT !.Phase = IF seal THEN "stream" ELSE @,
                          !.ReadySeq = st.NextSeq, !.DurableLSN = lsn,
                          !.SourceCleanup = None]
      /\ items' = items
  BY DEF Q!Publish, Q!PublishSource
<1>2. /\ StateFields \subseteq DOMAIN st'
      /\ st'.NextSeq = st.NextSeq /\ st'.DeliveredSeq = st.DeliveredSeq
      /\ st'.ReadySeq = st.NextSeq
      /\ st'.EarliestSeq = st.EarliestSeq /\ st'.ArchiveBytes = st.ArchiveBytes
      /\ st'.Phase = "stream" /\ st'.SnapshotLSN = st.SnapshotLSN
      /\ st'.DurableLSN = lsn /\ st'.SchemaHash = st.SchemaHash
  BY <1>1 DEF QueueInv, StateFields
<1> QED BY <1>1, <1>2, SMT DEF QueueInv

\* PublishSchema exposes the barrier and installs its version.
LEMMA PublishSchemaQueue ==
  ASSUME QueueInv, NEW lsn, NEW hash, Q!PublishSchema(lsn, hash)
  PROVE  /\ QueueInv' /\ items' = items
         /\ st'.NextSeq = st.NextSeq /\ st'.ReadySeq = st.NextSeq
         /\ st.Phase = "stream" /\ st'.Phase = "stream" /\ st'.SnapshotLSN = st.SnapshotLSN
         /\ st'.DurableLSN = lsn /\ st'.SchemaHash = hash
<1>1. /\ st' = [st EXCEPT !.ReadySeq = st.NextSeq, !.DurableLSN = lsn, !.SchemaHash = hash]
      /\ items' = items /\ st.Phase = "stream"
  BY DEF Q!PublishSchema
<1>2. /\ StateFields \subseteq DOMAIN st'
      /\ st'.NextSeq = st.NextSeq /\ st'.DeliveredSeq = st.DeliveredSeq
      /\ st'.ReadySeq = st.NextSeq
      /\ st'.EarliestSeq = st.EarliestSeq /\ st'.ArchiveBytes = st.ArchiveBytes
      /\ st'.Phase = st.Phase /\ st'.SnapshotLSN = st.SnapshotLSN
      /\ st'.DurableLSN = lsn /\ st'.SchemaHash = hash
  BY <1>1 DEF QueueInv, StateFields
<1> QED BY <1>1, <1>2, SMT DEF QueueInv

\* SnapshotPoint writes one field.
LEMMA PointQueue ==
  ASSUME QueueInv, NEW lsn, Q!SnapshotPoint(lsn)
  PROVE  /\ QueueInv' /\ items' = items
         /\ st'.NextSeq = st.NextSeq /\ st'.ReadySeq = st.ReadySeq
         /\ st'.Phase = st.Phase /\ st'.SnapshotLSN = lsn /\ st'.SchemaHash = st.SchemaHash
<1>1. st' = [st EXCEPT !.SnapshotLSN = lsn] /\ items' = items
  BY DEF Q!SnapshotPoint
<1>2. /\ StateFields \subseteq DOMAIN st'
      /\ st'.NextSeq = st.NextSeq /\ st'.DeliveredSeq = st.DeliveredSeq
      /\ st'.ReadySeq = st.ReadySeq
      /\ st'.EarliestSeq = st.EarliestSeq /\ st'.ArchiveBytes = st.ArchiveBytes
      /\ st'.Phase = st.Phase /\ st'.SnapshotLSN = lsn /\ st'.SchemaHash = st.SchemaHash
  BY <1>1 DEF QueueInv, StateFields
<1> QED BY <1>1, <1>2 DEF QueueInv

\* Recover drops what is staged.
LEMMA RecoverQueue ==
  ASSUME QueueInv, Q!Recover
  PROVE  /\ QueueInv' /\ Same
         /\ st'.NextSeq = st.ReadySeq /\ st'.ReadySeq = st.ReadySeq
         /\ \A n \in 1..st.ReadySeq : items'[n] = items[n]
<1> DEFINE total == Q!Total(items, st.ReadySeq + 1, st.NextSeq)
<1>1. /\ items' = [n \in DOMAIN items \ {k \in DOMAIN items : k > st.ReadySeq} |-> items[n]]
      /\ st' = [st EXCEPT !.Bytes = @ - total, !.NextSeq = st.ReadySeq]
  BY DEF Q!Recover, Q!Unpublished
<1> HIDE DEF total
<1>2. /\ StateFields \subseteq DOMAIN st'
      /\ st'.NextSeq = st.ReadySeq /\ st'.DeliveredSeq = st.DeliveredSeq
      /\ st'.ReadySeq = st.ReadySeq
      /\ st'.EarliestSeq = st.EarliestSeq /\ st'.ArchiveBytes = st.ArchiveBytes
      /\ Same
  BY <1>1 DEF QueueInv, StateFields, Same
<1>3. DOMAIN items' = 1..st.ReadySeq /\ \A n \in 1..st.ReadySeq : items'[n] = items[n]
  BY <1>1, SMT DEF QueueInv
<1>4. QueueInv'
  <2>1. st'.Phase = st.Phase
    BY <1>2 DEF Same
  <2>2. \A n \in 1..st.ReadySeq : n \in DOMAIN items
    BY SMT DEF QueueInv
  <2>3. \A n \in DOMAIN items' : items'[n].size = 1 /\ items'[n].body \in Body
    BY <1>3, <2>2 DEF QueueInv
  <2>4. st.ReadySeq <= st.ReadySeq /\ st.ReadySeq <= MaxSeq
    BY CaptureAssumption, SMT DEF QueueInv
  <2> QED BY <1>2, <1>3, <2>1, <2>3, <2>4 DEF QueueInv
<1> QED BY <1>2, <1>3, <1>4

\* Of messages of length 1 the recursive definition of Upto counts the first n.
LEMMA NothingSums ==
  ASSUME QueueInv
  PROVE  Q!Total(items, 1, 0) = 0
<1> DEFINE N == st.NextSeq
           f == [n \in Nat |-> IF n <= N THEN n ELSE N]
<1>1. N \in Nat /\ \A n \in Nat \ {0} : Q!SizeAt(items, n) = IF n <= N THEN 1 ELSE 0
  BY SMT DEF QueueInv, Q!SizeAt
<1>2. \A n \in Nat : f[n] = IF n = 0 THEN 0 ELSE f[n-1] + Q!SizeAt(items, n)
  BY <1>1, SMT
<1>3. f = [n \in Nat |-> IF n = 0 THEN 0 ELSE f[n-1] + Q!SizeAt(items, n)]
  BY <1>2
<1>4. \E g : g = [n \in Nat |-> IF n = 0 THEN 0 ELSE g[n-1] + Q!SizeAt(items, n)]
  BY <1>3, Zenon
<1>5. Q!Upto(items) = [n \in Nat |-> IF n = 0 THEN 0
                                     ELSE Q!Upto(items)[n-1] + Q!SizeAt(items, n)]
  BY <1>4 DEF Q!Upto
<1>6. Q!Upto(items)[0] = 0
  BY <1>5
<1> QED BY <1>6, SMT DEF Q!Total

\* Ack moves one cursor and evicts nothing: the archive has room for all.
LEMMA AckQueue ==
  ASSUME QueueInv, NEW seq, NEW id, Q!Ack(seq, id, {})
  PROVE  /\ QueueInv' /\ Same /\ \A n \in 1..st.NextSeq : items'[n] = items[n]
         /\ st'.NextSeq = st.NextSeq /\ st'.ReadySeq = st.ReadySeq
<1> DEFINE archive == st.ArchiveBytes + Q!SizeAt(items, seq)
<1>1. (IF st.EarliestSeq = 0 THEN 1 ELSE st.EarliestSeq) = 1
  BY DEF QueueInv
<1>2. seq = st.DeliveredSeq + 1 /\ seq <= st.ReadySeq /\ seq \in DOMAIN items
  BY DEF Q!Ack
<1>3. PICK e \in 1..(seq + 1) :
        /\ \A k \in 1..(e - 1) : ~ Q!EvictionStops(k, 1, seq, archive, {})
        /\ items' = [n \in DOMAIN items \ (1..(e - 1)) |-> items[n]]
        /\ st' = [st EXCEPT !.Bytes = @ - Q!SizeAt(items, seq),
                            !.ArchiveBytes = archive - Q!Total(items, 1, e - 1),
                            !.DeliveredSeq = seq, !.EarliestSeq = e]
  BY <1>1, ZenonT(40) DEF Q!Ack
<1>4. Q!SizeAt(items, seq) = 1
  BY <1>2 DEF Q!SizeAt, QueueInv
<1>5. archive = seq /\ seq \in Nat /\ seq <= MaxSeq
  BY <1>2, <1>4, CaptureAssumption, SMT DEF QueueInv
<1> HIDE DEF archive
<1>6. Q!Total(items, 1, 0) = 0
  BY NothingSums
<1>7. Q!EvictionStops(1, 1, seq, archive, {})
  BY <1>2, <1>5, <1>6, SMT DEF Q!EvictionStops, QueueInv
<1>8. e = 1
  BY <1>3, <1>5, <1>7, SMT
<1>9. DOMAIN items' = DOMAIN items /\ \A n \in DOMAIN items : items'[n] = items[n]
  BY <1>3, <1>8, SMT
<1>10. /\ StateFields \subseteq DOMAIN st' /\ Same
       /\ st'.NextSeq = st.NextSeq /\ st'.DeliveredSeq = seq
       /\ st'.ReadySeq = st.ReadySeq
       /\ st'.EarliestSeq = 1 /\ st'.ArchiveBytes = seq
  BY <1>3, <1>5, <1>6, <1>8, SMT DEF QueueInv, StateFields, Same
<1>11. st'.Phase = st.Phase
  BY <1>10 DEF Same
<1>12. QueueInv'
  BY <1>2, <1>5, <1>9, <1>10, <1>11 DEF QueueInv
<1> QED BY <1>9, <1>10, <1>12 DEF QueueInv

-----------------------------------------------------------------------------
(* The log.                                                                *)

\* The WAL only grows.
WalGrows == /\ Len(wal) \in Nat /\ Len(wal') \in Nat /\ Len(wal) <= Len(wal')
            /\ \A n \in 1..Len(wal) : wal'[n] = wal[n]

\* The first n messages stay as they are.
Kept(n) == \A k \in 1..n : items'[k] = items[k]

\* What is said of a message stays true while the message is kept.
LEMMA KeptFields ==
  ASSUME NEW n \in Nat, Kept(n), NEW k \in 1..n
  PROVE  /\ Kind(k)' = Kind(k) /\ Tx(k)' = Tx(k) /\ Moved(k)' = Moved(k)
         /\ items'[k].SchemaVersion = items[k].SchemaVersion /\ items'[k].body = items[k].body
         /\ \A t, r : Carries(k, t, r)' = Carries(k, t, r)
         /\ \A j \in 1..n : Before(j, k)' = Before(j, k)
BY DEF Kept, Kind, Tx, Moved, Carries, Before

\* The published log stays as it is.
Settled == /\ st'.ReadySeq = st.ReadySeq
           /\ st'.Phase = "stream" <=> st.Phase = "stream"
           /\ st.Phase = "stream" => /\ st'.SnapshotLSN = st.SnapshotLSN
                                     /\ st'.DurableLSN = st.DurableLSN
                                     /\ st'.SchemaHash = st.SchemaHash

\* A complete transaction stays complete.
LEMMA CompleteKept ==
  ASSUME QueueInv, WalGrows, Kept(st.ReadySeq), st'.ReadySeq = st.ReadySeq,
         NEW n \in 1..Len(wal), Complete(n)
  PROVE  Complete(n)'
<1>1. wal'[n] = wal[n] /\ st.ReadySeq \in Nat
  BY DEF WalGrows, QueueInv
<1>2. \A k \in 1..st.ReadySeq : /\ Kind(k)' = Kind(k) /\ Tx(k)' = Tx(k)
                                /\ \A r : Carries(k, n, r)' = Carries(k, n, r)
  BY <1>1, KeptFields
<1> QED BY <1>1, <1>2 DEF Complete

\* The version in force at a place depends on the messages before it only.
LEMMA InForceKept ==
  ASSUME NEW n \in Nat \ {0}, Kept(n), NEW k \in 1..n+1, NEW v, InForce(k, v)
  PROVE  InForce(k, v)'
<1>1. \A f \in 1..k-1 : f \in 1..n
  BY SMT
<1>2. \A f \in 1..k-1 : Kind(f)' = Kind(f) /\ items'[f].SchemaVersion = items[f].SchemaVersion
  BY <1>1, KeptFields
<1>3. items'[1].SchemaVersion = items[1].SchemaVersion
  <2>1. 1 \in 1..n
    BY SMT
  <2> QED BY <2>1 DEF Kept
<1>4. \A e \in 1..k-1 : \A f \in e+1..k-1 : f \in 1..k-1
  BY SMT
<1> QED BY <1>2, <1>3, <1>4 DEF InForce

\* A message that is no barrier leaves the version in force, a barrier sets it.
LEMMA InForceNext ==
  ASSUME NEW k \in Nat \ {0}, NEW v
  PROVE  /\ InForce(k, v)' /\ Kind(k)' # "schema_end" => InForce(k + 1, v)'
         /\ Kind(k)' = "schema_end" /\ items'[k].SchemaVersion = v => InForce(k + 1, v)'
<1>1. k \in 1..(k + 1) - 1 /\ \A f \in 1..(k + 1) - 1 : f \in 1..k-1 \/ f = k
  BY SMT
<1>2. \A e \in 1..k-1 : /\ e \in 1..(k + 1) - 1
                        /\ \A f \in e+1..(k + 1) - 1 : f \in e+1..k-1 \/ f = k
  BY SMT
<1>3. \A f \in k+1..(k + 1) - 1 : FALSE
  BY SMT
<1>4. ASSUME InForce(k, v)', Kind(k)' # "schema_end" PROVE InForce(k + 1, v)'
  BY <1>1, <1>2, <1>4 DEF InForce
<1>5. ASSUME Kind(k)' = "schema_end", items'[k].SchemaVersion = v PROVE InForce(k + 1, v)'
  BY <1>1, <1>3, <1>5 DEF InForce
<1> QED BY <1>4, <1>5

\* A row message keeps its version.
LEMMA RowsKept ==
  ASSUME NEW n \in Nat, Kept(n), NEW k \in 1..n, RowsOK(k)
  PROVE  RowsOK(k)'
<1>1. /\ Kind(k)' = Kind(k) /\ items'[k].SchemaVersion = items[k].SchemaVersion
      /\ items'[k].body = items[k].body
  BY KeptFields
<1>2. n \in Nat \ {0} /\ k \in 1..n+1
  BY SMT
<1>3. PICK v : v = items[k].SchemaVersion
  OBVIOUS
<1>4. InForce(k, v) => InForce(k, v)'
  BY <1>2, InForceKept
<1> QED BY <1>1, <1>3, <1>4 DEF RowsOK

\* A step that publishes nothing leaves the published log as it is.
LEMMA PublishedKept ==
  ASSUME QueueInv, SlotInv, LogInv, StampInv, WalGrows, Settled, Kept(st.ReadySeq),
         st'.Phase = "stream"
  PROVE  /\ \A k \in 1..st.ReadySeq :
              Moved(k)' => Tx(k)' \in st'.SnapshotLSN + 1 .. st'.DurableLSN
         /\ \A n \in st'.SnapshotLSN + 1 .. st'.DurableLSN : Complete(n)'
         /\ st.ReadySeq > 0 /\ InForce(st.ReadySeq + 1, st.SchemaHash)'
<1>1. /\ st.Phase = "stream" /\ st'.SnapshotLSN = st.SnapshotLSN
      /\ st'.DurableLSN = st.DurableLSN /\ st'.SchemaHash = st.SchemaHash
      /\ st.ReadySeq \in Nat /\ st'.ReadySeq = st.ReadySeq
  BY DEF Settled, QueueInv
<1>2. \A n \in st.SnapshotLSN + 1 .. st.DurableLSN : n \in 1..Len(wal) /\ Complete(n)
  <2>1. /\ st.SnapshotLSN \in Nat /\ st.DurableLSN \in Nat /\ st.DurableLSN <= Len(wal)
        /\ Len(wal) \in Nat
    BY <1>1 DEF SlotInv, WalGrows
  <2>2. \A n \in st.SnapshotLSN + 1 .. st.DurableLSN : n \in 1..Len(wal)
    BY <2>1, SMT
  <2> QED BY <1>1, <2>2 DEF LogInv
<1>3. \A n \in st.SnapshotLSN + 1 .. st.DurableLSN : Complete(n)'
  BY <1>1, <1>2, CompleteKept
<1>4. \A k \in 1..st.ReadySeq : Moved(k)' => Tx(k)' \in st.SnapshotLSN + 1 .. st.DurableLSN
  <2>1. \A k \in 1..st.ReadySeq : Moved(k)' = Moved(k) /\ Tx(k)' = Tx(k)
    BY <1>1, KeptFields
  <2> QED BY <1>1, <2>1 DEF LogInv
<1>5. st.ReadySeq > 0 /\ InForce(st.ReadySeq + 1, st.SchemaHash)
  BY <1>1 DEF StampInv
<1>6. st.ReadySeq \in Nat \ {0} /\ st.ReadySeq + 1 \in 1..st.ReadySeq + 1
  BY <1>1, <1>5, SMT
<1>7. PICK k, n, v : k = st.ReadySeq + 1 /\ n = st.ReadySeq /\ v = st.SchemaHash
  OBVIOUS
<1>8. InForce(k, v)'
  BY <1>5, <1>6, <1>7, InForceKept
<1>9. k = st'.ReadySeq + 1 /\ v = st'.SchemaHash
  BY <1>1, <1>7
<1>10. InForce(st.ReadySeq + 1, st.SchemaHash)'
  BY <1>8, <1>9
<1> QED BY <1>1, <1>3, <1>4, <1>5, <1>10

\* A step that adds no message and publishes none.
LEMMA LogKept ==
  ASSUME QueueInv, SlotInv, LogInv, StampInv, WalGrows, Settled, QueueInv',
         st'.NextSeq <= st.NextSeq, Kept(st'.NextSeq)
  PROVE  LogInv' /\ StampInv'
<1> DEFINE N == st'.NextSeq
<1>1. /\ N \in Nat /\ st.NextSeq \in Nat /\ st.ReadySeq \in Nat /\ st.ReadySeq <= N
      /\ st'.ReadySeq = st.ReadySeq
  BY DEF QueueInv, Settled
<1>2. \A k \in 1..N : k \in 1..st.NextSeq
  BY <1>1, SMT
<1>3. \A k \in 1..N : \A j \in 1..k-1 : j \in 1..N
  BY <1>1, SMT
<1>4. \A k \in 1..N : /\ Moved(k)' = Moved(k) /\ Tx(k)' = Tx(k)
                      /\ \A j \in 1..N : Before(j, k)' = Before(j, k)
  BY <1>1, KeptFields
<1>5. \A k \in 1..N : Moved(k)' => st'.Phase = "stream"
  BY <1>2, <1>4 DEF LogInv, Settled
<1>6. \A k \in 1..N : \A j \in 1..k-1 : Moved(j)' /\ Moved(k)' => Before(j, k)'
  BY <1>2, <1>3, <1>4 DEF LogInv
<1>7. Kept(st.ReadySeq)
  <2>1. \A k \in 1..st.ReadySeq : k \in 1..N
    BY <1>1, SMT
  <2> QED BY <2>1 DEF Kept
<1>8. LogInv'
  BY <1>1, <1>5, <1>6, <1>7, PublishedKept DEF LogInv
<1>9. \A k \in 1..N : RowsOK(k)'
  BY <1>1, <1>2, RowsKept DEF StampInv
<1>10. StampInv'
  BY <1>1, <1>7, <1>9, PublishedKept DEF StampInv
<1> QED BY <1>8, <1>10

\* A step that stages one message, behind the others of its transaction.
LEMMA LogAppended ==
  ASSUME QueueInv, SlotInv, LogInv, StampInv, WalGrows, Settled, QueueInv', Kept(st.NextSeq),
         NEW N, N = st.NextSeq + 1, st'.NextSeq = N,
         Moved(N)' => st.Phase = "stream" /\ \A j \in 1..st.NextSeq : Moved(j) => Before(j, N)',
         RowsOK(N)'
  PROVE  LogInv' /\ StampInv'
<1>1. /\ st.NextSeq \in Nat /\ st.ReadySeq \in Nat /\ st.ReadySeq <= st.NextSeq
      /\ st'.ReadySeq = st.ReadySeq
  BY DEF QueueInv, Settled
<1>2. /\ \A k \in 1..N : k \in 1..st.NextSeq \/ k = N
      /\ \A k \in 1..st.NextSeq : \A j \in 1..k-1 : j \in 1..st.NextSeq
      /\ \A j \in 1..N-1 : j \in 1..st.NextSeq
  BY <1>1, SMT
<1>3. \A k \in 1..st.NextSeq : /\ Moved(k)' = Moved(k) /\ Tx(k)' = Tx(k)
                      /\ \A j \in 1..st.NextSeq : Before(j, k)' = Before(j, k)
  BY <1>1, KeptFields
<1>4. \A k \in 1..N : Moved(k)' => st'.Phase = "stream"
  BY <1>2, <1>3 DEF LogInv, Settled
<1>5. \A k \in 1..N : \A j \in 1..k-1 : Moved(j)' /\ Moved(k)' => Before(j, k)'
  BY <1>2, <1>3 DEF LogInv
<1>6. Kept(st.ReadySeq)
  <2>1. \A k \in 1..st.ReadySeq : k \in 1..st.NextSeq
    BY <1>1, SMT
  <2> QED BY <2>1 DEF Kept
<1>7. LogInv'
  BY <1>1, <1>4, <1>5, <1>6, PublishedKept DEF LogInv
<1>8. \A k \in 1..N : RowsOK(k)'
  BY <1>1, <1>2, RowsKept DEF StampInv
<1>9. StampInv'
  BY <1>1, <1>6, <1>8, PublishedKept DEF StampInv
<1> QED BY <1>7, <1>9

-----------------------------------------------------------------------------
(* Steps that leave the decoder alone.                                     *)

\* A log that does not change has not lost anything.
LEMMA WalSame ==
  ASSUME SourceInv, wal' = wal
  PROVE  WalGrows
<1>1. Len(wal) \in Nat
  BY SMT DEF SourceInv
<1>2. Len(wal) <= Len(wal)
  BY <1>1, SMT
<1> QED BY <1>1, <1>2 DEF WalGrows

\* What is staged stays what it is when more is staged after it.
LEMMA StagedKept ==
  ASSUME NEW n \in Nat, Kept(n), NEW hi \in Int, hi <= n, st.ReadySeq \in Nat,
         st'.ReadySeq = st.ReadySeq, UNCHANGED <<pos, ordinal, batch>>, Staged(hi)
  PROVE  Staged(hi)'
<1>1. \A k \in st.ReadySeq + 1 .. hi : k \in 1..n
  BY SMT
<1>2. \A k \in st.ReadySeq + 1 .. hi :
        /\ Kind(k)' = Kind(k) /\ Tx(k)' = Tx(k) /\ items'[k].body = items[k].body
        /\ \A t, r : Carries(k, t, r)' = Carries(k, t, r)
  BY <1>1, KeptFields
<1>3. PICK t, m, ready : t = pos + 1 /\ m = ordinal - batch /\ ready = st.ReadySeq
  OBVIOUS
<1>4. t = pos' + 1 /\ m = ordinal' - batch' /\ ready = st'.ReadySeq
  BY <1>3
<1>5. \A r \in 1..m : \E k \in ready + 1 .. hi : Carries(k, t, r)
  BY <1>3 DEF Staged
<1>6. ASSUME NEW r \in 1..m PROVE \E k \in ready + 1 .. hi : Carries(k, t, r)'
  <2>1. PICK k \in ready + 1 .. hi : Carries(k, t, r)
    BY <1>5
  <2>2. k \in st.ReadySeq + 1 .. hi
    BY <1>3
  <2>3. Carries(k, t, r)' = Carries(k, t, r)
    BY <1>2, <2>2
  <2> QED BY <2>1, <2>3
<1>7. \A r \in 1..m : \E k \in ready + 1 .. hi : Carries(k, pos + 1, r)'
  BY <1>4, <1>6
<1>8. ASSUME NEW k \in ready + 1 .. hi
      PROVE  /\ Kind(k)' = "transaction_rows" /\ Tx(k)' = t
             /\ items'[k].body.first + items'[k].body.rows <= m + 1
  <2>1. k \in st.ReadySeq + 1 .. hi
    BY <1>3
  <2>2. /\ Kind(k) = "transaction_rows" /\ Tx(k) = t
        /\ items[k].body.first + items[k].body.rows <= m + 1
    BY <1>3, <2>1 DEF Staged
  <2> QED BY <1>2, <2>1, <2>2
<1> QED BY <1>4, <1>7, <1>8 DEF Staged

\* The goroutine and its decoder are where they were.
LEMMA StillStep ==
  ASSUME CaptureInv, QueueInv', SourceInv', WalGrows, Same, Kept(st.NextSeq),
         st'.NextSeq = st.NextSeq, st'.ReadySeq = st.ReadySeq,
         UNCHANGED <<pc, table, point, pos, ordinal, batch, durable>>,
         slot' = slot \/ (pc = "record" /\ slot' = durable)
  PROVE  CaptureInv'
<1>1. QueueInv /\ SourceInv /\ SlotInv /\ LogInv /\ DecoderInv /\ StampInv /\ SchemaInv
  BY DEF CaptureInv
<1>2. /\ st.NextSeq \in Nat /\ st.ReadySeq \in Nat /\ st.ReadySeq <= st.NextSeq
      /\ st.NextSeq <= st.NextSeq
  BY <1>1, SMT DEF QueueInv
<1>3. Settled
  BY DEF Settled, Same
<1>4. LogInv' /\ StampInv'
  BY <1>1, <1>2, <1>3, LogKept
<1>5. SlotInv'
  <2>1. Len(wal) \in Nat /\ Len(wal') \in Nat /\ Len(wal) <= Len(wal')
    BY DEF WalGrows
  <2>2. point \in 0..Len(wal) => point \in 0..Len(wal')
    BY <2>1, SMT
  <2>3. st.DurableLSN \in Nat /\ st.DurableLSN <= Len(wal) =>
          st.DurableLSN <= Len(wal') /\ st.DurableLSN <= st.DurableLSN
    BY <2>1, SMT
  <2> QED BY <1>1, <2>2, <2>3 DEF SlotInv, Same, Placed, Decoding, Snapping, Refreshing
<1>6. SchemaInv'
  <2>1. PICK k, v, w : k = st.NextSeq + 1 /\ v = st.SchemaHash /\ w = table
    OBVIOUS
  <2>2. k = st'.NextSeq + 1 /\ v = st'.SchemaHash /\ w = table'
    BY <2>1 DEF Same
  <2>3. ASSUME st.NextSeq > 0, NEW x, InForce(k, x) PROVE InForce(k, x)'
    <3>1. st.NextSeq \in Nat \ {0} /\ k \in 1..st.NextSeq + 1
      BY <1>2, <2>1, <2>3, SMT
    <3> QED BY <2>3, <3>1, InForceKept
  <2>4. pc \in Stamping => st.NextSeq > 0 /\ InForce(k, v)
    BY <1>1, <2>1 DEF SchemaInv
  <2>5. pc = "refresh-publish" => st.NextSeq > 0 /\ InForce(k, w)
    BY <1>1, <2>1 DEF SchemaInv
  <2>6. /\ pc' \in Stamping => st'.NextSeq > 0 /\ InForce(st.NextSeq + 1, st.SchemaHash)'
        /\ pc' = "refresh-publish" => st'.NextSeq > 0 /\ InForce(st.NextSeq + 1, table)'
    BY <2>2, <2>3, <2>4, <2>5
  <2>7. pc \in Copying => VersionAt(point)' = VersionAt(point)
    <3>1. pc \in Copying => pc \in Placed
      BY DEF Copying, Placed
    <3>2. pc \in Copying => point \in 0..Len(wal) /\ Len(wal) \in Nat
      BY <1>1, <3>1 DEF SlotInv, WalGrows
    <3>3. pc \in Copying => point = 0 \/ point \in 1..Len(wal)
      BY <3>2, SMT
    <3> QED BY <3>3 DEF VersionAt, WalGrows
  <2> QED BY <1>1, <2>6, <2>7 DEF SchemaInv, Same
<1>7. DecoderInv'
  <2>1. st'.DurableLSN = st.DurableLSN
    BY DEF Same
  <2>2. ASSUME pc \in Refreshing \ {"refresh"}
        PROVE  \A k \in st.ReadySeq + 1 .. st.NextSeq : ~Moved(k)'
    <3>1. \A k \in st.ReadySeq + 1 .. st.NextSeq : k \in 1..st.NextSeq
      BY <1>2, SMT
    <3> QED BY <1>1, <1>2, <2>2, <3>1, KeptFields DEF DecoderInv
  <2>3. ASSUME pc \in Decoding, pos = st.DurableLSN
        PROVE  Staged(IF pc = "publish" THEN st.NextSeq - 1 ELSE st.NextSeq)'
    <3>1. PICK hi : hi = IF pc = "publish" THEN st.NextSeq - 1 ELSE st.NextSeq
      OBVIOUS
    <3>2. hi \in Int /\ hi <= st.NextSeq
      BY <1>2, <3>1, SMT
    <3>3. Staged(hi)
      BY <1>1, <2>3, <3>1 DEF DecoderInv
    <3>4. Staged(hi)'
      BY <1>2, <3>2, <3>3, StagedKept
    <3>5. hi = IF pc' = "publish" THEN st'.NextSeq - 1 ELSE st'.NextSeq
      BY <3>1
    <3> QED BY <3>4, <3>5
  <2>4. ASSUME pc \in Decoding
        PROVE  /\ ordinal > 0 => pos < Len(wal') /\ ordinal <= Len(wal'[pos + 1].rows)
               /\ batch > 0 => BatchFits'
    <3>1. /\ pos \in Nat /\ ordinal \in Nat /\ batch \in Nat /\ batch <= ordinal
          /\ ordinal > 0 => pos < Len(wal) /\ ordinal <= Len(wal[pos + 1].rows)
          /\ batch > 0 => BatchFits
      BY <1>1, <2>4 DEF DecoderInv
    <3>2. pos < Len(wal) => wal'[pos + 1] = wal[pos + 1] /\ pos < Len(wal')
      BY <3>1, SMT DEF WalGrows
    <3>3. batch > 0 => ordinal > 0
      BY <3>1, SMT
    <3>4. wal'[pos + 1] = wal[pos + 1] => BatchFits' = BatchFits
      BY <1>1 DEF BatchFits, RowAt, Same
    <3> QED BY <3>1, <3>2, <3>3, <3>4
  <2>5. ASSUME pc \in Decoding \ {"record"}
        PROVE  /\ pos < Len(wal') /\ wal'[pos + 1] = wal[pos + 1]
    <3>1. pos \in Nat /\ pos < Len(wal)
      BY <1>1, <2>5 DEF DecoderInv
    <3> QED BY <3>1, SMT DEF WalGrows
  <2>6. ASSUME pc = "publish"
        PROVE  Kind(st.NextSeq)' = "transaction_end" /\ Tx(st.NextSeq)' = pos + 1
    <3>1. PICK n : n = st.NextSeq
      OBVIOUS
    <3>2. n \in 1..n /\ n \in Nat /\ Kept(n)
      BY <1>1, <1>2, <2>6, <3>1, SMTT(30) DEF DecoderInv
    <3>3. Kind(n)' = Kind(n) /\ Tx(n)' = Tx(n)
      BY <3>2, KeptFields
    <3>4. Kind(n)' = "transaction_end" /\ Tx(n)' = pos + 1
      BY <1>1, <2>6, <3>1, <3>3 DEF DecoderInv
    <3> QED BY <3>1, <3>4
  <2>7. pc' = pc /\ pos' = pos /\ ordinal' = ordinal /\ batch' = batch /\ table' = table
    OBVIOUS
  <2>8. pc' \in Decoding =>
          /\ pos' \in Nat /\ ordinal' \in Nat /\ batch' \in Nat
          /\ batch' <= ordinal' /\ pos' <= st'.DurableLSN
          /\ ordinal' > 0 => pos' < Len(wal') /\ ordinal' <= Len(wal'[pos' + 1].rows)
          /\ pos' < st'.DurableLSN => batch' = 0 /\ st'.NextSeq = st'.ReadySeq
          /\ batch' > 0 => BatchFits'
    BY <1>1, <2>1, <2>4, <2>7 DEF DecoderInv
  <2>9. pc' \in {"commit", "publish"} => /\ batch' = 0 /\ ordinal' = Len(wal'[pos' + 1].rows)
                                         /\ wal'[pos' + 1].kind # "truncate"
    BY <1>1, <2>5, <2>7 DEF DecoderInv, Decoding
  <2>10. pc' \in Decoding \ {"record"} => pos' = st'.DurableLSN /\ pos' < Len(wal')
    BY <1>1, <2>1, <2>5, <2>7 DEF DecoderInv
  <2> QED
    BY <1>1, <2>1, <2>2, <2>3, <2>6, <2>7, <2>8, <2>9, <2>10, ZenonT(40) DEF DecoderInv
<1> QED BY <1>4, <1>5, <1>6, <1>7 DEF CaptureInv

\* The queue is left alone.
LEMMA QueueSame ==
  ASSUME CaptureInv, UNCHANGED <<st, items>>, WalGrows
  PROVE  /\ QueueInv' /\ LogInv' /\ StampInv' /\ Same /\ Kept(st.NextSeq)
         /\ st'.NextSeq = st.NextSeq /\ st'.ReadySeq = st.ReadySeq
<1>1. QueueInv /\ SlotInv /\ LogInv /\ StampInv
  BY DEF CaptureInv
<1>2. QueueInv' /\ Same /\ Kept(st.NextSeq) /\ Settled /\ Kept(st'.NextSeq)
  BY <1>1 DEF QueueInv, Same, Kept, Settled
<1>3. st'.NextSeq <= st.NextSeq
  BY <1>1, SMT DEF QueueInv
<1>4. LogInv' /\ StampInv'
  BY <1>1, <1>2, <1>3, LogKept
<1> QED BY <1>2, <1>4

\* An attempt ends, with an error or a crash.
LEMMA EndStep ==
  ASSUME CaptureInv, UNCHANGED <<st, items, wal, slot, table>>, pc' \in {"down", "dead"}
  PROVE  CaptureInv'
<1>1. SourceInv /\ SlotInv
  BY DEF CaptureInv
<1>2. QueueInv' /\ LogInv' /\ StampInv'
  BY <1>1, WalSame, QueueSame
<1>3. /\ pc' \notin Snapping \cup Placed \cup Decoding \cup Refreshing \cup Stamping
      /\ pc' \notin {"create", "point", "begin", "connect", "refresh", "refresh-publish"}
  BY DEF Snapping, Placed, Decoding, Refreshing, Stamping
<1>4. SlotInv'
  BY <1>1, <1>3 DEF SlotInv
<1>5. DecoderInv'
  BY <1>3 DEF DecoderInv, Decoding, Refreshing
<1>6. SchemaInv'
  BY <1>3 DEF SchemaInv
<1>7. SourceInv'
  BY <1>1 DEF SourceInv
<1> QED BY <1>2, <1>4, <1>5, <1>6, <1>7 DEF CaptureInv

\* Capture ends with an error.
LEMMA FatalStep ==
  ASSUME CaptureInv, NEW why, Fatal(why)
  PROVE  CaptureInv'
<1>1. UNCHANGED <<st, items, wal, slot, table>> /\ pc' \in {"down", "dead"}
  BY DEF Fatal, queueVars, sourceVars
<1> QED BY <1>1, EndStep

\* The collector crashes.
LEMMA CrashStep ==
  ASSUME CaptureInv, Crash
  PROVE  CaptureInv'
<1>1. UNCHANGED <<st, items, wal, slot, table>> /\ pc' \in {"down", "dead"}
  BY DEF Crash, queueVars, sourceVars
<1> QED BY <1>1, EndStep

\* Nothing the invariant speaks of changes.
LEMMA Unmoved ==
  ASSUME CaptureInv,
         UNCHANGED <<st, items, wal, slot, pc, table, point, pos, ordinal, batch, durable>>
  PROVE  CaptureInv'
<1>1. SourceInv /\ SourceInv'
  BY DEF CaptureInv, SourceInv
<1>2. WalGrows
  BY <1>1, WalSame
<1> QED BY <1>1, <1>2, QueueSame, StillStep

\* append waits for the delivery, or finds that waiting would not help.
LEMMA WaitedStep ==
  ASSUME CaptureInv, Waited
  PROVE  CaptureInv'
<1>1. CASE Fatal("capacity")
  BY <1>1, FatalStep
<1>2. CASE UNCHANGED <<pc, queueVars>> /\ Quiet
  <2>1. UNCHANGED <<st, items, wal, slot, pc, table, point, pos, ordinal, batch, durable>>
    BY <1>2 DEF Quiet, queueVars, sourceVars, decoderVars
  <2> QED BY <2>1, Unmoved
<1> QED BY <1>1, <1>2 DEF Waited

\* Lengths are natural numbers, and what is in the log has its type.
LEMMA CatalogNat ==
  ASSUME SourceInv
  PROVE  /\ Len(wal) \in Nat /\ Catalog \in Versions
         /\ \A n \in 1..Len(wal) : /\ Len(wal[n].rows) \in Nat /\ wal[n].version \in Versions
                                   /\ \A i \in 1..Len(wal[n].rows) : wal[n].rows[i] \in Change
<1> DEFINE R == [kind : Changes, rows : Seq(Change), version : Versions]
<1>1. wal \in Seq(R)
  BY DEF SourceInv
<1> HIDE DEF R
<1>2. Len(wal) \in Nat /\ \A n \in 1..Len(wal) : wal[n] \in R
  BY <1>1, SMT
<1>3. \A n \in 1..Len(wal) : wal[n].rows \in Seq(Change) /\ wal[n].version \in Versions
  BY <1>2 DEF R
<1>4. \A rows \in Seq(Change) : Len(rows) \in Nat /\ \A i \in 1..Len(rows) : rows[i] \in Change
  BY SMT
<1>5. Catalog \in Versions
  <2>1. CASE Len(wal) = 0
    BY <2>1, CaptureAssumption DEF Catalog, VersionAt
  <2>2. CASE Len(wal) # 0
    <3>1. Len(wal) \in 1..Len(wal)
      BY <1>2, <2>2, SMT
    <3> QED BY <1>3, <2>2, <3>1 DEF Catalog, VersionAt
  <2> QED BY <2>1, <2>2
<1> QED BY <1>2, <1>3, <1>4, <1>5

\* wal2json sends records of its type.
LEMMA RecordedType ==
  ASSUME NEW c \in Change, NEW v \in Versions
  PROVE  Recorded(c, v) \in Wire
<1>1. c.op \in {"insert", "update", "delete"}
  BY DEF Change
<1>2. Schemas[v].columns \subseteq Typed /\ Schemas[v].key \subseteq Typed
  BY SchemaAssumption DEF Typed
<1>3. CASE c.op = "insert"
  BY <1>2, <1>3, SMT DEF Recorded, Wire
<1>4. CASE c.op = "update"
  BY <1>2, <1>4, SMT DEF Recorded, Wire
<1>5. CASE c.op = "delete"
  BY <1>2, <1>5, SMT DEF Recorded, Wire
<1> QED BY <1>1, <1>3, <1>4, <1>5

\* A record that convert accepts fits the tables it was compared with.
LEMMA ConvertFits ==
  ASSUME NEW v \in Versions, NEW r, convert(r, v) = "row"
  PROVE  Fits(r, v)
<1>1. Decodes(r, v) /\ Identified(r, v) /\ Whole(r, v)
  BY DEF convert
<1>2. PICK C : C = Schemas[v].columns
  OBVIOUS
<1>3. /\ IsFiniteSet(C) /\ r.columns \in SUBSET C /\ r.identity \in SUBSET C
      /\ r.columns \cup r.identity \subseteq C
  BY <1>1, <1>2, SchemaAssumption DEF Decodes
<1>4. \A T \in SUBSET C : Cardinality(C) = Cardinality(T) => C = T
  BY <1>3, FS_Subset
<1>5. r.op = "insert" => r.columns = C
  BY <1>1, <1>2, <1>3, <1>4 DEF Whole
<1>6. r.op # "insert" => (IF Schemas[v].key = {} THEN C ELSE Schemas[v].key) \subseteq r.identity
  BY <1>1, <1>2, <1>3, <1>4 DEF Identified
<1> QED BY <1>2, <1>3, <1>5, <1>6 DEF Fits

\* A row of the snapshot fits the tables it is read from.
LEMMA CopiedFits ==
  ASSUME NEW v \in Versions, VersionAt(point) = v
  PROVE  Fits(Copied, v) /\ Copied \in Wire
<1>1. PICK c : c = [op |-> "insert", toast |-> {}]
  OBVIOUS
<1>2. c.op = "insert" /\ c \in Change
  BY <1>1 DEF Change
<1>3. Copied = Recorded(c, v)
  BY <1>1 DEF Copied
<1>4. /\ Recorded(c, v).op = "insert" /\ Recorded(c, v).columns = Schemas[v].columns
      /\ Recorded(c, v).identity = {}
  BY <1>2, SMT DEF Recorded
<1> QED BY <1>2, <1>3, <1>4, RecordedType DEF Fits

\* The source commits a transaction.
LEMMA CommittedStep ==
  ASSUME CaptureInv, NEW kind, NEW rows \in Seq(Change), NEW version \in Versions,
         Committed(kind, rows, version)
  PROVE  CaptureInv'
<1>1. /\ UNCHANGED <<st, items, slot, pc, table, point, pos, ordinal, batch, durable>>
      /\ wal' = Append(wal, [kind |-> kind, rows |-> rows, version |-> version])
  BY DEF Committed, queueVars, decoderVars
<1>2. PICK w : w = [kind |-> kind, rows |-> rows, version |-> version]
  OBVIOUS
<1>3. SourceInv /\ w \in [kind : Changes, rows : Seq(Change), version : Versions]
  BY <1>2 DEF CaptureInv, Committed
<1>4. SourceInv'
  BY <1>1, <1>2, <1>3, SMTT(30) DEF SourceInv
<1>5. WalGrows
  BY <1>1, <1>2, <1>3, SMTT(30) DEF SourceInv, WalGrows
<1> QED BY <1>1, <1>4, <1>5, QueueSame, StillStep

\* The steps of the application.
LEMMA SourceStep ==
  ASSUME CaptureInv, Source
  PROVE  CaptureInv'
<1>1. SourceInv /\ <<>> \in Seq(Change)
  BY SMT DEF CaptureInv
<1>2. Catalog \in Versions
  BY <1>1, CatalogNat
<1>3. CASE AlterTable
  BY <1>1, <1>3, CommittedStep DEF AlterTable
<1>4. CASE TruncateTable
  BY <1>1, <1>2, <1>4, CommittedStep DEF TruncateTable
<1>5. CASE \E rows \in RowChanges : CommitRows(rows)
  <2>1. PICK rows \in RowChanges : CommitRows(rows)
    BY <1>5
  <2>2. rows \in Seq(Change)
    BY CaptureAssumption
  <2> QED BY <1>2, <2>1, <2>2, CommittedStep DEF CommitRows
<1> QED BY <1>3, <1>4, <1>5 DEF Source

\* The delivery acknowledges a message.
LEMMA DeliverStep ==
  ASSUME CaptureInv, Deliver
  PROVE  CaptureInv'
<1>1. UNCHANGED <<wal, slot, pc, table, point, pos, ordinal, batch, durable>>
  BY DEF Deliver, sourceVars, decoderVars
<1>2. PICK seq, id : Q!Ack(seq, id, {})
  BY DEF Deliver
<1>3. QueueInv /\ SourceInv /\ SourceInv'
  BY <1>1 DEF CaptureInv, SourceInv
<1>4. /\ QueueInv' /\ Same /\ \A n \in 1..st.NextSeq : items'[n] = items[n]
      /\ st'.NextSeq = st.NextSeq /\ st'.ReadySeq = st.ReadySeq
  BY <1>2, <1>3, AckQueue
<1>5. Kept(st.NextSeq) /\ WalGrows
  BY <1>1, <1>3, <1>4, WalSame DEF Kept
<1> QED BY <1>1, <1>3, <1>4, <1>5, StillStep

\* Feedback moves the slot to the durable position.
LEMMA FeedbackStep ==
  ASSUME CaptureInv, Feedback
  PROVE  CaptureInv'
<1>1. /\ UNCHANGED <<st, items, wal, pc, table, point, pos, ordinal, batch, durable>>
      /\ pc = "record" /\ slot' \in {slot, durable}
  BY DEF Feedback, queueVars, decoderVars
<1>2. SourceInv /\ SourceInv'
  BY <1>1 DEF CaptureInv, SourceInv
<1>3. WalGrows
  BY <1>1, <1>2, WalSame
<1> QED BY <1>1, <1>2, <1>3, QueueSame, StillStep

-----------------------------------------------------------------------------
(* Attempts, refreshes and the snapshot.                                   *)

\* Nothing is required of the decoder while no stream is read.
LEMMA DecoderIdle ==
  ASSUME pc' \notin Decoding \cup Refreshing \cup {"connect"}
  PROVE  DecoderInv'
BY DEF DecoderInv, Decoding, Refreshing

\* Recover leaves the published log.
LEMMA Recovered ==
  ASSUME CaptureInv, Q!Recover, wal' = wal
  PROVE  /\ QueueInv' /\ LogInv' /\ StampInv' /\ Same
         /\ st'.NextSeq = st.ReadySeq /\ st'.ReadySeq = st.ReadySeq
<1>1. QueueInv /\ SourceInv /\ SlotInv /\ LogInv /\ StampInv
  BY DEF CaptureInv
<1>2. /\ QueueInv' /\ Same
      /\ st'.NextSeq = st.ReadySeq /\ st'.ReadySeq = st.ReadySeq
      /\ \A n \in 1..st.ReadySeq : items'[n] = items[n]
  BY <1>1, RecoverQueue
<1>3. st'.NextSeq <= st.NextSeq
  BY <1>1, <1>2 DEF QueueInv
<1>4. Kept(st'.NextSeq) /\ Settled /\ WalGrows
  BY <1>1, <1>2, WalSame DEF Kept, Settled, Same
<1>5. LogInv' /\ StampInv'
  BY <1>1, <1>2, <1>3, <1>4, LogKept
<1> QED BY <1>2, <1>5

\* A new attempt starts from the published log and the present catalogue.
LEMMA AttemptStep ==
  ASSUME CaptureInv, Attempt
  PROVE  CaptureInv'
<1>1. /\ Q!Recover /\ table' = Catalog /\ UNCHANGED <<wal, slot>>
      /\ pc' \in {"dead", "connect", "drop"}
      /\ pc' = "connect" => st.Phase = "stream" /\ st.SchemaHash = Catalog
      /\ pc' = "drop" => st.Phase # "stream"
  BY DEF Attempt, sourceVars
<1>2. SourceInv /\ SlotInv
  BY DEF CaptureInv
<1>3. /\ QueueInv' /\ LogInv' /\ StampInv' /\ Same
      /\ st'.NextSeq = st.ReadySeq /\ st'.ReadySeq = st.ReadySeq
  BY <1>1, Recovered
<1>4. SourceInv'
  BY <1>1, <1>2, CatalogNat DEF SourceInv
<1>5. /\ pc' \notin Placed \cup Decoding \cup Refreshing \cup Stamping
      /\ pc' \notin {"create", "point", "begin", "refresh", "refresh-publish"}
      /\ pc' \in Snapping => pc' = "drop"
  BY <1>1 DEF Snapping, Placed, Decoding, Refreshing, Stamping
<1>6. SlotInv'
  BY <1>1, <1>2, <1>3, <1>5 DEF SlotInv, Same
<1>7. DecoderInv'
  BY <1>3, <1>5 DEF DecoderInv, Decoding, Refreshing
<1>8. SchemaInv'
  BY <1>1, <1>3, <1>5 DEF SchemaInv, Same
<1> QED BY <1>3, <1>4, <1>6, <1>7, <1>8 DEF CaptureInv

\* A refresh drops what is staged and inspects the tables.
LEMMA RefreshStep ==
  ASSUME CaptureInv, Refresh
  PROVE  CaptureInv'
<1>1. CASE Fatal("schema")
  BY <1>1, FatalStep, ZenonT(40)
<1>2. CASE Q!Recover /\ table' = Catalog /\ pc' = "refresh-schema"
           /\ UNCHANGED <<sourceVars, decoderVars>>
  <2>1. pc = "refresh" /\ UNCHANGED <<wal, slot, durable>>
    BY <1>2 DEF Refresh, sourceVars, decoderVars
  <2>2. SourceInv /\ SlotInv
    BY DEF CaptureInv
  <2>3. /\ QueueInv' /\ LogInv' /\ StampInv' /\ Same
        /\ st'.NextSeq = st.ReadySeq /\ st'.ReadySeq = st.ReadySeq
    BY <1>2, <2>1, Recovered
  <2>4. SourceInv'
    BY <1>2, <2>1, <2>2, CatalogNat DEF SourceInv
  <2>5. /\ pc' \notin Snapping \cup Placed \cup Decoding \cup Stamping
        /\ pc' \notin {"create", "point", "begin", "connect", "refresh", "refresh-publish"}
        /\ pc \in Refreshing
    BY <1>2, <2>1 DEF Snapping, Placed, Decoding, Refreshing, Stamping
  <2>6. SlotInv'
    BY <2>1, <2>2, <2>3, <2>5 DEF SlotInv, Same
  <2>7. \A k \in st'.ReadySeq + 1 .. st'.NextSeq : ~Moved(k)'
    BY <2>3, SMT DEF QueueInv
  <2>8. DecoderInv'
    BY <2>5, <2>7 DEF DecoderInv, Decoding
  <2>9. SchemaInv'
    BY <2>5 DEF SchemaInv
  <2> QED BY <2>3, <2>4, <2>6, <2>8, <2>9 DEF CaptureInv
<1> QED BY <1>1, <1>2 DEF Refresh

\* A snapshot begins by dropping the old slot.
LEMMA DropSlotStep ==
  ASSUME CaptureInv, DropSlot
  PROVE  CaptureInv'
<1>1. /\ pc = "drop" /\ pc' = "initialize" /\ UNCHANGED <<st, items, wal, table>>
  BY DEF DropSlot, queueVars
<1>2. SourceInv /\ SlotInv
  BY DEF CaptureInv
<1>3. QueueInv' /\ LogInv' /\ StampInv'
  BY <1>1, <1>2, WalSame, QueueSame
<1>4. /\ pc' \notin Placed \cup Decoding \cup Refreshing \cup Stamping
      /\ pc' \notin {"create", "point", "begin", "connect", "refresh", "refresh-publish"}
      /\ pc \in Snapping
  BY <1>1 DEF Snapping, Placed, Decoding, Refreshing, Stamping
<1>5. SourceInv' /\ SlotInv' /\ SchemaInv'
  BY <1>1, <1>2, <1>4 DEF SourceInv, SlotInv, SchemaInv
<1>6. DecoderInv'
  BY <1>4, DecoderIdle
<1> QED BY <1>3, <1>5, <1>6 DEF CaptureInv

\* Initialize opens a new generation under the inspected schema.
LEMMA InitializeStep ==
  ASSUME CaptureInv, Initialize
  PROVE  CaptureInv'
<1>1. Q!Initialize(table) /\ pc' = "create" /\ UNCHANGED <<wal, table>>
  BY DEF Initialize, Go, Quiet, sourceVars
<1>2. /\ QueueInv' /\ st'.NextSeq = 0 /\ st'.ReadySeq = 0 /\ st'.Phase = "snapshot"
      /\ st'.SchemaHash = table
  BY <1>1, InitializeQueue
<1>3. /\ pc' \notin Placed \cup Decoding \cup Refreshing \cup Stamping
      /\ pc' \notin {"connect", "refresh", "refresh-publish"}
  BY <1>1 DEF Placed, Decoding, Refreshing, Stamping
<1>4. \A k \in 1..st'.NextSeq : FALSE
  BY <1>2, SMT
<1>5. LogInv' /\ StampInv'
  BY <1>2, <1>4 DEF LogInv, StampInv
<1>6. SourceInv' /\ SlotInv' /\ SchemaInv'
  BY <1>1, <1>2, <1>3 DEF SourceInv, SlotInv, SchemaInv, CaptureInv
<1>7. DecoderInv'
  BY <1>3, DecoderIdle
<1> QED BY <1>2, <1>5, <1>6, <1>7 DEF CaptureInv

\* The slot is created at the end of the log.
LEMMA CreateSlotStep ==
  ASSUME CaptureInv, CreateSlot
  PROVE  CaptureInv'
<1>1. /\ pc = "create" /\ pc' = "point" /\ UNCHANGED <<st, items, wal, table>>
      /\ slot' = Len(wal) /\ point' = Len(wal)
  BY DEF CreateSlot, queueVars
<1>2. SourceInv /\ SlotInv /\ SchemaInv
  BY DEF CaptureInv
<1>3. QueueInv' /\ LogInv' /\ StampInv'
  BY <1>1, <1>2, WalSame, QueueSame
<1>4. /\ pc' \notin Decoding \cup Refreshing \cup Stamping
      /\ pc' \notin {"connect", "refresh", "refresh-publish"} \cup (Placed \ {"point"})
      /\ pc \in Snapping
  BY <1>1 DEF Snapping, Placed, Decoding, Refreshing, Stamping
<1>5. Len(wal) \in 0..Len(wal)
  BY <1>2, CatalogNat, SMT
<1>6. SourceInv' /\ SlotInv' /\ SchemaInv'
  BY <1>1, <1>2, <1>4, <1>5 DEF SourceInv, SlotInv, SchemaInv
<1>7. DecoderInv'
  BY <1>4, DecoderIdle
<1> QED BY <1>3, <1>6, <1>7 DEF CaptureInv

\* The snapshot's point is saved.
LEMMA RecordPointStep ==
  ASSUME CaptureInv, RecordPoint
  PROVE  CaptureInv'
<1>1. /\ pc = "point" /\ pc' = "begin" /\ UNCHANGED <<wal, slot, table, point>>
      /\ Q!SnapshotPoint(point)
  BY DEF RecordPoint, Go, Quiet, sourceVars
<1>2. QueueInv /\ SourceInv /\ SlotInv /\ SchemaInv /\ LogInv /\ StampInv
  BY DEF CaptureInv
<1>3. /\ QueueInv' /\ items' = items
      /\ st'.NextSeq = st.NextSeq /\ st'.ReadySeq = st.ReadySeq
      /\ st'.Phase = st.Phase /\ st'.SnapshotLSN = point /\ st'.SchemaHash = st.SchemaHash
  BY <1>1, <1>2, PointQueue
<1>4. /\ pc' \notin Decoding \cup Refreshing \cup Stamping
      /\ pc' \notin {"connect", "refresh", "refresh-publish"}
      /\ pc \in Snapping /\ pc \in Placed
  BY <1>1 DEF Snapping, Placed, Decoding, Refreshing, Stamping
<1>5. st.Phase # "stream"
  BY <1>2, <1>4 DEF SlotInv
<1>6. Settled /\ Kept(st'.NextSeq) /\ WalGrows
  BY ZenonT(40), <1>1, <1>2, <1>3, <1>5, WalSame DEF Settled, Kept
<1>7. st'.NextSeq <= st.NextSeq
  BY <1>2, <1>3, SMT DEF QueueInv
<1>8. LogInv' /\ StampInv'
  BY <1>2, <1>3, <1>6, <1>7, LogKept
<1>9. SourceInv' /\ SlotInv' /\ SchemaInv'
  BY <1>1, <1>2, <1>3, <1>4, <1>5 DEF SourceInv, SlotInv, SchemaInv
<1>10. DecoderInv'
  BY <1>4, DecoderIdle
<1> QED BY <1>3, <1>8, <1>9, <1>10 DEF CaptureInv

\* What append adds.
LEMMA Appended ==
  ASSUME CaptureInv, NEW m, m.body \in Body, m.lsn = None, Q!AppendMessage(m), wal' = wal,
         NEW N, N = st.NextSeq + 1
  PROVE  /\ QueueInv' /\ Same /\ Settled /\ Kept(st.NextSeq) /\ WalGrows
         /\ N \in Nat \ {0} /\ st'.NextSeq = N /\ st'.ReadySeq = st.ReadySeq
         /\ items'[N].body = m.body
         /\ m.version = None => items'[N].SchemaVersion = st.SchemaHash
         /\ m.version # None => items'[N].SchemaVersion = m.version
<1>1. QueueInv /\ SourceInv
  BY DEF CaptureInv
<1>2. /\ QueueInv' /\ Same
      /\ st'.NextSeq = N /\ st'.ReadySeq = st.ReadySeq
      /\ items'[N].body = m.body
      /\ items'[N].SchemaVersion = IF m.version = None THEN st.SchemaHash ELSE m.version
      /\ Kept(st.NextSeq)
  BY <1>1, AppendQueue DEF Kept
<1>3. N \in Nat \ {0}
  BY <1>1, SMT DEF QueueInv
<1>4. Settled /\ WalGrows
  BY <1>1, <1>2, WalSame DEF Settled, Same
<1> QED BY <1>2, <1>3, <1>4

\* Put waits for room or appends.
LEMMA PutCases ==
  ASSUME CaptureInv, NEW m, NEW here, NEW next, Put(m, here, next)
  PROVE  \/ CaptureInv'
         \/ /\ Q!AppendMessage(m) /\ pc = here /\ pc' = next
            /\ UNCHANGED <<wal, slot, table, point, pos, ordinal, batch, durable>>
<1>1. CASE UNCHANGED <<pc, queueVars>> /\ Quiet
  <2>1. UNCHANGED <<st, items, wal, slot, pc, table, point, pos, ordinal, batch, durable>>
    BY <1>1 DEF Quiet, queueVars, sourceVars, decoderVars
  <2> QED BY <2>1, Unmoved
<1>2. CASE Q!AppendMessage(m) /\ Go(next)
  BY <1>2 DEF Put, Go, Quiet, sourceVars, decoderVars
<1> QED BY <1>1, <1>2 DEF Put

\* An append of the snapshot.
LEMMA SnapshotPut ==
  ASSUME CaptureInv, NEW here \in {"begin", "schema", "rows", "end"},
         NEW next \in {"schema", "rows", "end", "seal"},
         NEW kind \in {"snapshot_begin", "schema", "snapshot_rows", "snapshot_end"},
         NEW rows \in Nat, NEW records,
         kind = "snapshot_rows" => here = "rows" /\ records = {Copied},
         kind # "snapshot_rows" => records = {},
         here = "begin" /\ pc = here => VersionAt(point) = st.SchemaHash,
         next = "rows" => here = "schema", next = "schema" => here = "begin",
         Put(Msg(kind, point, 0, rows, records), here, next)
  PROVE  CaptureInv'
<1>1. QueueInv /\ SourceInv /\ SlotInv /\ SchemaInv /\ LogInv /\ StampInv
  BY DEF CaptureInv
<1>2. PICK m : m = Msg(kind, point, 0, rows, records)
  OBVIOUS
<1>3. SUFFICES ASSUME Q!AppendMessage(m), pc = here, pc' = next,
                      UNCHANGED <<wal, slot, table, point, pos, ordinal, batch, durable>>
               PROVE  CaptureInv'
  BY <1>2, PutCases
<1>4. /\ pc \in Snapping /\ pc \in Placed \ {"point"}
      /\ pc' \in Snapping /\ pc' \in Placed \ {"point"} /\ pc' \in Stamping
      /\ pc' \notin Decoding \cup Refreshing
      /\ pc' \notin {"connect", "refresh-publish", "create", "point", "begin"}
      /\ here # "begin" => pc \in Stamping
  BY <1>3 DEF Snapping, Placed, Decoding, Refreshing, Stamping
<1>5. /\ point \in Nat /\ table \in Versions /\ 0 \in Nat
      /\ records \subseteq Wire
      /\ kind = "snapshot_rows" => \A r \in records : Fits(r, table)
  <2>1. point \in 0..Len(wal) /\ Len(wal) \in Nat /\ table \in Versions
    BY <1>1, <1>4, CatalogNat DEF SlotInv, SourceInv
  <2>2. point \in Nat /\ 0 \in Nat
    BY <2>1, SMT
  <2>3. kind = "snapshot_rows" => Fits(Copied, table) /\ Copied \in Wire
    BY <1>1, <1>3, <2>1, CopiedFits DEF SchemaInv, Copying, Stamping
  <2> QED BY <2>1, <2>2, <2>3
<1>6. /\ m.body \in Body /\ m.lsn = None /\ m.version = None
      /\ m.body.kind = kind /\ m.body.records = records
  <2>1. kind \in {"snapshot_begin", "schema", "snapshot_rows", "snapshot_end",
                 "transaction_rows", "transaction_end", "schema_end"}
    OBVIOUS
  <2> QED BY <1>2, <1>5, <2>1 DEF Msg, Body
<1>7. PICK N, v : N = st.NextSeq + 1 /\ v = st.SchemaHash
  OBVIOUS
<1>8. /\ QueueInv' /\ Same /\ Settled /\ Kept(st.NextSeq) /\ WalGrows
      /\ N \in Nat \ {0} /\ st'.NextSeq = N /\ st'.ReadySeq = st.ReadySeq
      /\ items'[N].body = m.body /\ items'[N].SchemaVersion = v
  BY ZenonT(40), <1>3, <1>6, <1>7, Appended
<1>9. Kind(N)' = kind /\ ~Moved(N)' /\ Kind(N)' # "schema_end"
  BY <1>6, <1>8 DEF Kind, Moved
<1>10. ASSUME here # "begin" PROVE InForce(N, v)'
  <2>1. st.NextSeq \in Nat \ {0} /\ N \in 1..st.NextSeq + 1 /\ InForce(N, v)
    BY <1>1, <1>4, <1>7, <1>10, SMTT(30) DEF SchemaInv, QueueInv
  <2> QED BY ZenonT(40), <1>8, <2>1, InForceKept
<1>11. InForce(N + 1, v)'
  <2>1. CASE here # "begin"
    BY <1>8, <1>9, <1>10, <2>1, InForceNext
  <2>2. CASE here = "begin"
    <3>1. N = 1
      BY <1>1, <1>3, <1>7, <2>2, SMTT(30) DEF SchemaInv
    <3>2. \A f \in 1..(N + 1)-1 : f = N
      BY <3>1, SMT
    <3> QED BY ZenonT(40), <1>8, <1>9, <3>1, <3>2 DEF InForce
  <2> QED BY <2>1, <2>2
<1>12. RowsOK(N)'
  <2>1. CASE kind = "snapshot_rows"
    <3>1. here # "begin" /\ v = table
      BY <1>1, <1>3, <1>4, <1>7, <2>1 DEF SchemaInv
    <3>2. \A r \in items'[N].body.records : Fits(r, items'[N].SchemaVersion)
      BY ZenonT(40), <1>5, <1>6, <1>8, <2>1, <3>1
    <3> QED BY <1>8, <1>10, <3>1, <3>2 DEF RowsOK, Fits
  <2>2. CASE kind # "snapshot_rows"
    BY <1>9, <2>2 DEF RowsOK
  <2> QED BY <2>1, <2>2
<1>13. LogInv' /\ StampInv'
  BY <1>1, <1>7, <1>8, <1>9, <1>12, LogAppended, ZenonT(40)
<1>14. SourceInv' /\ SlotInv'
  BY <1>1, <1>3, <1>4, <1>8 DEF SourceInv, SlotInv, Same
<1>15. SchemaInv'
  <2>1. st'.NextSeq > 0 /\ N + 1 = st'.NextSeq + 1 /\ v = st'.SchemaHash /\ table' = v
    BY <1>1, <1>3, <1>4, <1>7, <1>8, SMTT(30) DEF Same, SchemaInv
  <2>2. pc' \in Stamping /\ pc' \in Copying => VersionAt(point)' = table'
    <3>1. VersionAt(point)' = VersionAt(point)
      BY <1>3 DEF VersionAt
    <3>2. next \in Copying => VersionAt(point) = table
      BY <1>1, <1>3 DEF SchemaInv, Copying, Stamping
    <3> QED BY <1>3, <3>1, <3>2
  <2> QED BY <1>4, <1>11, <2>1, <2>2, ZenonT(40) DEF SchemaInv
<1>16. DecoderInv'
  BY <1>4, DecoderIdle
<1> QED BY ZenonT(40), <1>8, <1>13, <1>14, <1>15, <1>16 DEF CaptureInv

\* The messages of a snapshot are appended one by one.
LEMMA SnapshotPutSteps ==
  ASSUME CaptureInv, SnapshotBegin \/ SnapshotSchema \/ SnapshotRows \/ SnapshotEnd
  PROVE  CaptureInv'
<1>1. 0 \in Nat /\ 1 \in Nat
  BY SMT
<1>2. CASE SnapshotBegin
  <2>1. CASE Fatal("schema")
    BY <2>1, FatalStep
  <2>2. CASE /\ ~(pc = "begin" /\ ~waiting /\ VersionAt(point) # st.SchemaHash)
             /\ Put(Msg("snapshot_begin", point, 0, 0, {}), "begin", "schema")
    <3>1. ~waiting
      BY <2>2 DEF Put
    <3> QED BY <1>1, <2>2, <3>1, SnapshotPut, ZenonT(40)
  <2> QED BY <1>2, <2>1, <2>2 DEF SnapshotBegin
<1>3. CASE SnapshotSchema
  BY <1>1, <1>3, SnapshotPut DEF SnapshotSchema
<1>4. CASE SnapshotRows
  BY <1>1, <1>4, SnapshotPut DEF SnapshotRows
<1>5. CASE SnapshotEnd
  BY <1>1, <1>5, SnapshotPut DEF SnapshotEnd
<1> QED BY <1>2, <1>3, <1>4, <1>5

\* The sealed snapshot is the start of an empty log of transactions.
LEMMA SealStep ==
  ASSUME CaptureInv, Seal
  PROVE  CaptureInv'
<1>1. QueueInv /\ SourceInv /\ SlotInv /\ SchemaInv /\ LogInv /\ StampInv
  BY DEF CaptureInv
<1>2. PICK seal : seal = TRUE
  OBVIOUS
<1>3. /\ pc = "seal" /\ pc' = "connect" /\ Q!Publish(point, seal) /\ seal \in BOOLEAN
      /\ UNCHANGED <<wal, slot, table>>
  BY <1>2 DEF Seal, Go, Quiet, sourceVars
<1>4. /\ QueueInv' /\ items' = items
      /\ st'.NextSeq = st.NextSeq /\ st'.ReadySeq = st.NextSeq
      /\ st'.Phase = "stream" /\ st'.SnapshotLSN = st.SnapshotLSN
      /\ st'.DurableLSN = point /\ st'.SchemaHash = st.SchemaHash
  BY <1>1, <1>2, <1>3, PublishQueue
<1>5. /\ pc \in Snapping /\ pc \in Placed \ {"point"} /\ pc \in Stamping
      /\ pc' \notin Snapping \cup Placed \cup Decoding \cup Refreshing \cup Stamping
      /\ pc' \notin {"create", "point", "begin", "refresh", "refresh-publish"}
  BY <1>3 DEF Snapping, Placed, Decoding, Refreshing, Stamping
<1>6. /\ st.Phase # "stream" /\ slot = point /\ point \in 0..Len(wal) /\ Len(wal) \in Nat
      /\ st.SnapshotLSN = point /\ table = st.SchemaHash
      /\ st.NextSeq > 0 /\ InForce(st.NextSeq + 1, st.SchemaHash)
  BY <1>1, <1>5, CatalogNat DEF SlotInv, SchemaInv
<1>7. PICK n, v : n = st.NextSeq /\ v = st.SchemaHash
  OBVIOUS
<1>8. n \in Nat \ {0} /\ n \in Nat /\ Kept(n) /\ n + 1 \in 1..n+1
  BY <1>1, <1>4, <1>6, <1>7, SMTT(30) DEF Kept, QueueInv
<1>9. \A k \in 1..n : ~Moved(k)'
  BY <1>1, <1>6, <1>7, <1>8, KeptFields DEF LogInv
<1>10. LogInv'
  <2>1. \A i \in st'.SnapshotLSN + 1 .. st'.DurableLSN : FALSE
    BY <1>4, <1>6, SMTT(30)
  <2> QED BY <1>4, <1>7, <1>9, <2>1 DEF LogInv
<1>11. StampInv'
  <2>1. \A k \in 1..n : RowsOK(k)'
    BY <1>1, <1>7, <1>8, RowsKept DEF StampInv
  <2>2. InForce(n + 1, v)'
    BY <1>6, <1>7, <1>8, InForceKept
  <2>3. st'.NextSeq = n /\ st'.ReadySeq = n /\ st'.ReadySeq > 0 /\ st'.SchemaHash = v
    BY <1>4, <1>6, <1>7
  <2> QED BY <2>1, <2>2, <2>3 DEF StampInv
<1>12. SlotInv'
  <2>1. /\ point \in Nat /\ point <= point /\ point <= Len(wal)
    BY <1>6, SMT
  <2> QED BY <1>3, <1>4, <1>5, <1>6, <2>1 DEF SlotInv
<1>13. SourceInv' /\ SchemaInv'
  BY <1>1, <1>3, <1>4, <1>5, <1>6 DEF SourceInv, SchemaInv
<1>14. DecoderInv'
  BY <1>4, <1>5 DEF DecoderInv, Decoding, Refreshing
<1> QED BY ZenonT(40), <1>4, <1>10, <1>11, <1>12, <1>13, <1>14 DEF CaptureInv

-----------------------------------------------------------------------------
(* Streaming.                                                              *)

\* Nothing is staged and no row is counted when a transaction begins.
LEMMA StagedNothing ==
  ASSUME st'.NextSeq = st'.ReadySeq, st'.NextSeq \in Nat, ordinal' = 0, batch' = 0
  PROVE  Staged(st.NextSeq)'
<1>1. PICK R, n, o, b : R = st'.ReadySeq /\ n = st'.NextSeq /\ o = ordinal' /\ b = batch'
  OBVIOUS
<1>2. /\ \A k \in R + 1 .. n : FALSE
      /\ \A r \in 1..(o - b) : FALSE
  BY <1>1, SMT
<1> QED BY <1>1, <1>2 DEF Staged

\* The stream starts between the slot's position and the durable one.
LEMMA ConnectStep ==
  ASSUME CaptureInv, Connect
  PROVE  CaptureInv'
<1>1. QueueInv /\ SourceInv /\ SlotInv /\ DecoderInv /\ SchemaInv /\ LogInv /\ StampInv
  BY DEF CaptureInv
<1>2. SUFFICES ASSUME /\ durable' = st.DurableLSN /\ pos' \in slot..st.DurableLSN
                      /\ ordinal' = 0 /\ batch' = 0 /\ pc' = "record"
                      /\ UNCHANGED <<queueVars, sourceVars, table>>
               PROVE  CaptureInv'
  BY FatalStep DEF Connect
<1>3. pc = "connect" /\ UNCHANGED <<st, items, wal, slot, table>>
  BY <1>2 DEF Connect, queueVars, sourceVars
<1>4. /\ pc' \in Decoding /\ pc' \in Stamping
      /\ pc' \notin Snapping \cup Placed \cup Refreshing \cup Copying \cup (Decoding \ {"record"})
      /\ pc' \notin {"create", "point", "begin", "connect", "refresh", "refresh-publish",
                     "flush", "commit", "publish"}
  BY <1>2 DEF Snapping, Placed, Decoding, Refreshing, Stamping, Copying
<1>5. QueueInv' /\ LogInv' /\ StampInv'
  BY <1>1, <1>3, WalSame, QueueSame
<1>6. /\ st.Phase = "stream" /\ st.NextSeq = st.ReadySeq /\ st.NextSeq \in Nat
      /\ slot \in Nat /\ st.DurableLSN \in Nat /\ table = st.SchemaHash
      /\ st.ReadySeq > 0 /\ InForce(st.ReadySeq + 1, st.SchemaHash)
  BY <1>1, <1>3 DEF SlotInv, DecoderInv, SchemaInv, StampInv, QueueInv
<1>7. SourceInv' /\ SlotInv'
  BY ZenonT(40), <1>1, <1>2, <1>3, <1>4, <1>6 DEF SourceInv, SlotInv
<1>8. SchemaInv'
  BY <1>3, <1>4, <1>5, <1>6 DEF SchemaInv, StampInv
<1>9. DecoderInv'
  <2>1. /\ pos' \in Nat /\ ordinal' \in Nat /\ batch' \in Nat /\ pos' <= st.DurableLSN
        /\ batch' <= ordinal' /\ ~(ordinal' > 0) /\ ~(batch' > 0)
    BY <1>2, <1>6, SMTT(30)
  <2>2. Staged(st.NextSeq)'
    BY <1>2, <1>3, <1>6, StagedNothing
  <2> QED BY <1>2, <1>3, <1>4, <1>6, <2>1, <2>2, ZenonT(40) DEF DecoderInv
<1> QED BY <1>5, <1>7, <1>8, <1>9 DEF CaptureInv

\* The queue is left alone while a record is decoded.
LEMMA DecodeStep ==
  ASSUME CaptureInv, pc = "record", pc' \in {"record", "flush", "commit", "refresh"},
         UNCHANGED <<st, items, wal, slot, table, durable>>, DecoderInv'
  PROVE  CaptureInv'
<1>1. QueueInv /\ SourceInv /\ SlotInv /\ SchemaInv /\ LogInv /\ StampInv
  BY DEF CaptureInv
<1>2. QueueInv' /\ LogInv' /\ StampInv' /\ Kept(st.NextSeq)
  BY <1>1, WalSame, QueueSame
<1>3. /\ pc \in Decoding /\ pc \in Stamping
      /\ pc' \in Decoding \cup Refreshing
      /\ pc' \notin Snapping \cup Placed
      /\ pc' \notin {"create", "point", "begin", "refresh-publish"} /\ pc' \notin Copying
  BY DEF Snapping, Placed, Decoding, Refreshing, Stamping, Copying
<1>4. SourceInv' /\ SlotInv'
  BY <1>1, <1>3 DEF SourceInv, SlotInv
<1>5. SchemaInv'
  <2>1. PICK n, v : n = st.NextSeq /\ v = st.SchemaHash
    OBVIOUS
  <2>2. n \in Nat \ {0} /\ n + 1 \in 1..n+1
    BY <1>1, <1>3, <2>1, SMTT(30) DEF SchemaInv, QueueInv
  <2>3. InForce(n + 1, v)'
    BY ZenonT(40), <1>1, <1>2, <1>3, <2>1, <2>2, InForceKept DEF SchemaInv
  <2>4. st'.NextSeq = n /\ st'.SchemaHash = v /\ st'.NextSeq > 0 /\ table' = st'.SchemaHash
    BY <1>1, <1>3, <2>1 DEF SchemaInv
  <2> QED BY <1>3, <2>3, <2>4 DEF SchemaInv
<1> QED BY <1>2, <1>4, <1>5 DEF CaptureInv

\* The decoder between two records.
LEMMA RecordFacts ==
  ASSUME CaptureInv, pc = "record"
  PROVE  /\ pos \in Nat /\ ordinal \in Nat /\ batch \in Nat /\ batch <= ordinal
         /\ st.DurableLSN \in Nat /\ pos <= st.DurableLSN /\ durable = st.DurableLSN
         /\ ordinal > 0 => pos < Len(wal) /\ ordinal <= Len(wal[pos + 1].rows)
         /\ pos < st.DurableLSN => batch = 0 /\ st.NextSeq = st.ReadySeq
         /\ pos = st.DurableLSN => Staged(st.NextSeq)
         /\ batch > 0 => BatchFits
         /\ Len(wal) \in Nat /\ (pos < Len(wal) => Len(wal[pos + 1].rows) \in Nat)
         /\ st.NextSeq \in Nat
<1>1. QueueInv /\ SourceInv /\ SlotInv /\ DecoderInv
  BY DEF CaptureInv
<1>2. pc \in Decoding /\ pc # "publish"
  BY DEF Decoding
<1>3. /\ pos \in Nat /\ ordinal \in Nat /\ batch \in Nat /\ batch <= ordinal
      /\ pos <= st.DurableLSN
      /\ ordinal > 0 => pos < Len(wal) /\ ordinal <= Len(wal[pos + 1].rows)
      /\ pos < st.DurableLSN => batch = 0 /\ st.NextSeq = st.ReadySeq
      /\ pos = st.DurableLSN => Staged(st.NextSeq)
      /\ batch > 0 => BatchFits
  BY <1>1, <1>2 DEF DecoderInv
<1>4. st.DurableLSN \in Nat /\ durable = st.DurableLSN /\ st.NextSeq \in Nat
  BY <1>1, <1>2 DEF SlotInv, QueueInv
<1>5. Len(wal) \in Nat /\ \A n \in 1..Len(wal) : Len(wal[n].rows) \in Nat
  BY <1>1, CatalogNat
<1>6. pos < Len(wal) => pos + 1 \in 1..Len(wal)
  BY <1>3, <1>5, SMTT(30)
<1> QED BY <1>3, <1>4, <1>5, <1>6

\* Staged speaks of the rows counted and not in the batch.
LEMMA StagedSame ==
  ASSUME UNCHANGED <<st, items, pos>>, ordinal' - batch' = ordinal - batch,
         Staged(st.NextSeq)
  PROVE  Staged(st.NextSeq)'
BY DEF Staged, Kind, Tx, Carries

\* The decoder reads a row.
LEMMA RowStep ==
  ASSUME CaptureInv, Row
  PROVE  CaptureInv'
<1>1. /\ pc = "record" /\ pos < Len(wal) /\ ordinal < Len(wal[pos + 1].rows)
      /\ UNCHANGED <<st, items, wal, slot, table, pos, durable>>
  BY DEF Row, queueVars, sourceVars
<1>2. /\ pos \in Nat /\ ordinal \in Nat /\ batch \in Nat /\ batch <= ordinal
      /\ st.DurableLSN \in Nat /\ pos <= st.DurableLSN /\ durable = st.DurableLSN
      /\ pos < st.DurableLSN => batch = 0 /\ st.NextSeq = st.ReadySeq
      /\ pos = st.DurableLSN => Staged(st.NextSeq)
      /\ batch > 0 => BatchFits
      /\ Len(wal) \in Nat /\ Len(wal[pos + 1].rows) \in Nat
  BY <1>1, RecordFacts
<1>3. CASE Skip /\ ordinal' = ordinal + 1 /\ UNCHANGED <<batch, pc>>
  <2>1. /\ pos < st.DurableLSN /\ pos # st.DurableLSN /\ batch' = 0 /\ ~(batch' > 0)
        /\ ordinal' \in Nat /\ batch' <= ordinal' /\ ordinal' <= Len(wal[pos + 1].rows)
        /\ batch' \in Nat
    BY <1>1, <1>2, <1>3, SMTT(30) DEF Skip
  <2>2. /\ pc' = "record" /\ pc' \notin Refreshing
        /\ pc' \notin {"connect", "flush", "commit", "publish"}
    BY <1>1, <1>3 DEF Refreshing
  <2>3. DecoderInv'
    BY <1>1, <1>2, <2>1, <2>2 DEF DecoderInv
  <2> QED BY ZenonT(40), <1>1, <2>2, <2>3, DecodeStep
<1>4. CASE pc' = "dead"
  BY <1>1, <1>4, EndStep
<1>5. CASE pc' = "refresh"
  <2>1. DecoderInv'
    BY <1>5 DEF DecoderInv, Decoding, Refreshing
  <2> QED BY <1>1, <1>5, <2>1, DecodeStep
<1>6. CASE /\ ~Skip /\ convert(RowAt(pos + 1, ordinal + 1), table) = "row"
           /\ ordinal' = ordinal + 1 /\ batch' = batch + 1
           /\ pc' \in {"record", "flush"}
  <2>1. /\ pos = st.DurableLSN /\ ~(pos < st.DurableLSN) /\ batch' > 0
        /\ ordinal' \in Nat /\ batch' \in Nat /\ batch' <= ordinal'
        /\ ordinal' <= Len(wal[pos + 1].rows)
        /\ ordinal' - batch' = ordinal - batch
    BY <1>1, <1>2, <1>6, SMTT(30) DEF Skip
  <2>2. Staged(st.NextSeq)'
    BY <1>1, <1>2, <2>1, StagedSame
  <2>3. pc' \notin Refreshing /\ pc' \notin {"connect", "commit", "publish"}
    BY <1>6 DEF Refreshing
  <2>4. BatchFits'
    <3>1. Fits(RowAt(pos + 1, ordinal + 1), table)
      BY <1>6, ConvertFits DEF CaptureInv, SourceInv
    <3>2. \A i \in ordinal' - batch' + 1 .. ordinal' :
            i = ordinal + 1 \/ (batch > 0 /\ i \in ordinal - batch + 1 .. ordinal)
      BY <1>2, <1>6, SMTT(30)
    <3>3. \A i \in ordinal' - batch' + 1 .. ordinal' : Fits(RowAt(pos + 1, i), table)
      BY <1>2, <3>1, <3>2 DEF BatchFits
    <3>4. \A i : Fits(RowAt(pos + 1, i), table)' = Fits(RowAt(pos + 1, i), table)
      BY <1>1 DEF RowAt
    <3> QED BY <3>3, <3>4 DEF BatchFits
  <2>5. DecoderInv'
    BY <1>1, <1>2, <1>6, <2>1, <2>2, <2>3, <2>4, ZenonT(40) DEF DecoderInv
  <2> QED BY ZenonT(40), <1>1, <1>6, <2>5, DecodeStep
<1> QED BY <1>3, <1>4, <1>5, <1>6 DEF Row

\* The decoder reads a commit.
LEMMA CommitRecordStep ==
  ASSUME CaptureInv, CommitRecord
  PROVE  CaptureInv'
<1>1. /\ pc = "record" /\ pos < Len(wal) /\ ordinal = Len(wal[pos + 1].rows)
      /\ wal[pos + 1].kind # "truncate"
      /\ UNCHANGED <<st, items, wal, slot, table, batch, durable>>
  BY DEF CommitRecord, queueVars, sourceVars
<1>2. /\ pos \in Nat /\ ordinal \in Nat /\ batch \in Nat /\ batch <= ordinal
      /\ st.DurableLSN \in Nat /\ pos <= st.DurableLSN /\ durable = st.DurableLSN
      /\ ordinal > 0 => pos < Len(wal) /\ ordinal <= Len(wal[pos + 1].rows)
      /\ pos < st.DurableLSN => batch = 0 /\ st.NextSeq = st.ReadySeq
      /\ pos = st.DurableLSN => Staged(st.NextSeq)
      /\ batch > 0 => BatchFits
      /\ Len(wal) \in Nat /\ st.NextSeq \in Nat
  BY <1>1, RecordFacts
<1>3. CASE Skip /\ pos' = pos + 1 /\ ordinal' = 0 /\ UNCHANGED pc
  <2>1. /\ pos < st.DurableLSN /\ batch' = 0 /\ batch' <= ordinal' /\ ~(batch' > 0)
        /\ ordinal' \in Nat /\ ~(ordinal' > 0) /\ pos' \in Nat /\ pos' <= st'.DurableLSN
        /\ batch' \in Nat
    BY <1>1, <1>2, <1>3, SMTT(30) DEF Skip
  <2>2. /\ pc' = "record" /\ pc' \notin Refreshing
        /\ pc' \notin {"connect", "flush", "commit", "publish"}
    BY <1>1, <1>3 DEF Refreshing
  <2>3. st'.NextSeq = st'.ReadySeq /\ Staged(st.NextSeq)'
    BY ZenonT(40), <1>1, <1>2, <1>3, <2>1, StagedNothing
  <2>4. DecoderInv'
    BY <2>1, <2>2, <2>3 DEF DecoderInv
  <2> QED BY ZenonT(40), <1>1, <2>2, <2>4, DecodeStep
<1>4. CASE /\ ~Skip /\ UNCHANGED <<pos, ordinal>>
           /\ pc' = IF batch > 0 THEN "flush" ELSE "commit"
  <2>1. /\ pos = st.DurableLSN /\ ~(pos < st.DurableLSN)
        /\ ordinal' - batch' = ordinal - batch /\ (~(batch > 0) => batch = 0)
    BY <1>1, <1>2, <1>4, SMTT(30) DEF Skip
  <2>2. Staged(st.NextSeq)'
    BY ZenonT(40), <1>1, <1>2, <1>4, <2>1, StagedSame
  <2>3. /\ pc' \notin Refreshing /\ pc' \notin {"connect", "publish"}
        /\ pc' \in {"flush", "commit"}
        /\ pc' = "flush" => batch > 0
        /\ pc' = "commit" => batch = 0
    BY <1>4, <2>1 DEF Refreshing
  <2>4. BatchFits' = BatchFits
    BY <1>1, <1>4 DEF BatchFits, RowAt
  <2>5. DecoderInv'
    BY <1>1, <1>2, <1>4, <2>1, <2>2, <2>3, <2>4, ZenonT(40) DEF DecoderInv
  <2> QED BY ZenonT(40), <1>1, <2>3, <2>5, DecodeStep
<1> QED BY <1>3, <1>4 DEF CommitRecord

\* The decoder when it flushes a chunk or closes a transaction.
LEMMA FlushFacts ==
  ASSUME CaptureInv, pc \in {"flush", "commit"}
  PROVE  /\ pos \in Nat /\ ordinal \in Nat /\ batch \in Nat /\ batch <= ordinal
         /\ pos = st.DurableLSN /\ durable = st.DurableLSN /\ st.DurableLSN \in Nat
         /\ st.SnapshotLSN \in Nat
         /\ pos < Len(wal) /\ Len(wal) \in Nat /\ Len(wal[pos + 1].rows) \in Nat
         /\ \A i \in 1..Len(wal[pos + 1].rows) : RowAt(pos + 1, i) \in Wire
         /\ ordinal > 0 => ordinal <= Len(wal[pos + 1].rows)
         /\ Staged(st.NextSeq) /\ st.NextSeq \in Nat /\ st.ReadySeq \in Nat
         /\ st.ReadySeq <= st.NextSeq
         /\ batch > 0 => BatchFits
         /\ st.Phase = "stream" /\ table = st.SchemaHash
<1>1. QueueInv /\ SourceInv /\ SlotInv /\ DecoderInv /\ SchemaInv
  BY DEF CaptureInv
<1>2. pc \in Decoding /\ pc \in Decoding \ {"record"} /\ pc # "publish" /\ pc \in Stamping
  BY DEF Decoding, Stamping
<1>3. /\ pos \in Nat /\ ordinal \in Nat /\ batch \in Nat /\ batch <= ordinal
      /\ pos = st.DurableLSN /\ pos < Len(wal)
      /\ ordinal > 0 => ordinal <= Len(wal[pos + 1].rows)
      /\ Staged(st.NextSeq)
      /\ batch > 0 => BatchFits
  BY <1>1, <1>2 DEF DecoderInv
<1>4. /\ st.DurableLSN \in Nat /\ durable = st.DurableLSN /\ st.Phase = "stream"
      /\ st.SnapshotLSN \in Nat /\ table = st.SchemaHash
      /\ st.NextSeq \in Nat /\ st.ReadySeq \in Nat /\ st.ReadySeq <= st.NextSeq
  BY <1>1, <1>2 DEF SlotInv, QueueInv, SchemaInv
<1>5. /\ Len(wal) \in Nat
      /\ \A n \in 1..Len(wal) : /\ Len(wal[n].rows) \in Nat /\ wal[n].version \in Versions
                                /\ \A i \in 1..Len(wal[n].rows) : wal[n].rows[i] \in Change
  BY <1>1, CatalogNat
<1>6. pos + 1 \in 1..Len(wal)
  BY <1>3, <1>5, SMTT(30)
<1>7. \A i \in 1..Len(wal[pos + 1].rows) : RowAt(pos + 1, i) \in Wire
  BY <1>5, <1>6, RecordedType DEF RowAt
<1> QED BY ZenonT(40), <1>3, <1>4, <1>5, <1>6, <1>7

\* A chunk or the end of the transaction behind the durable position is staged.
LEMMA TransactionAppended ==
  ASSUME CaptureInv, pc \in {"flush", "commit"}, pc' \in {"record", "publish"},
         NEW m, m.body \in Body, m.lsn = None, m.version = None, m.body.tx = pos + 1,
         \/ m.body.kind = "transaction_end"
         \/ /\ m.body.kind = "transaction_rows" /\ m.body.first = ordinal - batch + 1
            /\ \A r \in m.body.records : Fits(r, table),
         Q!AppendMessage(m), UNCHANGED <<wal, slot, table, durable>>,
         NEW N, N = st.NextSeq + 1
  PROVE  /\ QueueInv' /\ SourceInv' /\ SlotInv' /\ LogInv' /\ StampInv' /\ SchemaInv'
         /\ Same /\ Kept(st.NextSeq) /\ N \in Nat \ {0} /\ st'.NextSeq = N
         /\ st'.ReadySeq = st.ReadySeq /\ items'[N].body = m.body
<1>1. QueueInv /\ SourceInv /\ SlotInv /\ SchemaInv /\ LogInv /\ StampInv
  BY DEF CaptureInv
<1>2. /\ pc \in Decoding /\ pc \in Stamping /\ pc' \in Decoding /\ pc' \in Stamping
      /\ pc' \notin Snapping \cup Placed \cup Refreshing \cup Copying
      /\ pc' \notin {"create", "point", "begin", "connect", "refresh-publish"}
  BY DEF Snapping, Placed, Decoding, Refreshing, Stamping, Copying
<1>3. PICK v : v = st.SchemaHash
  OBVIOUS
<1>4. /\ QueueInv' /\ Same /\ Settled /\ Kept(st.NextSeq) /\ WalGrows
      /\ N \in Nat \ {0} /\ st'.NextSeq = N /\ st'.ReadySeq = st.ReadySeq
      /\ items'[N].body = m.body /\ items'[N].SchemaVersion = v
  BY ZenonT(40), <1>3, Appended
<1>5. /\ pos \in Nat /\ pos = st.DurableLSN /\ Staged(st.NextSeq) /\ st.Phase = "stream"
      /\ st.NextSeq \in Nat /\ st.ReadySeq \in Nat /\ st.SnapshotLSN \in Nat /\ table = v
  BY <1>3, FlushFacts
<1>6. Kind(N)' # "schema_end" /\ Tx(N)' = pos + 1
  BY <1>4 DEF Kind, Tx
<1>7. ASSUME NEW j \in 1..st.NextSeq, Moved(j) PROVE Before(j, N)'
  <2>1. Kind(j)' = Kind(j) /\ Tx(j)' = Tx(j) /\ items'[j].body = items[j].body
    BY <1>4, <1>5, KeptFields
  <2>2. CASE j \in 1..st.ReadySeq
    <3>1. Tx(j) \in st.SnapshotLSN + 1 .. st.DurableLSN
      BY ZenonT(40), <1>1, <1>5, <1>7, <2>2 DEF LogInv
    <3>2. Tx(j) < pos + 1
      BY <1>5, <3>1, SMTT(30)
    <3> QED BY <1>6, <2>1, <3>2 DEF Before
  <2>3. CASE j \in st.ReadySeq + 1 .. st.NextSeq
    <3>1. /\ Kind(j) = "transaction_rows" /\ Tx(j) = pos + 1
          /\ items[j].body.first + items[j].body.rows <= ordinal - batch + 1
      BY <1>5, <2>3 DEF Staged
    <3>2. Kind(N)' = "transaction_rows" => items'[N].body.first = ordinal - batch + 1
      BY <1>4 DEF Kind
    <3> QED BY ZenonT(40), <1>6, <2>1, <3>1, <3>2 DEF Before
  <2>4. j \in 1..st.ReadySeq \/ j \in st.ReadySeq + 1 .. st.NextSeq
    BY <1>5, SMTT(30)
  <2> QED BY <2>2, <2>3, <2>4
<1>8. InForce(N, v)'
  <2>1. st.NextSeq \in Nat \ {0} /\ N \in 1..st.NextSeq + 1 /\ InForce(N, v)
    BY <1>1, <1>2, <1>3, <1>5, SMTT(30) DEF SchemaInv
  <2> QED BY ZenonT(40), <1>4, <2>1, InForceKept
<1>9. RowsOK(N)'
  <2>1. CASE m.body.kind = "transaction_end"
    BY <1>4, <2>1 DEF RowsOK, Kind
  <2>2. CASE \A r \in m.body.records : Fits(r, table)
    <3>1. \A r \in items'[N].body.records : Fits(r, items'[N].SchemaVersion)
      BY <1>4, <1>5, <2>2
    <3> QED BY <1>4, <1>8, <3>1 DEF RowsOK, Fits
  <2> QED BY <2>1, <2>2
<1>10. LogInv' /\ StampInv'
  BY ZenonT(40), <1>1, <1>4, <1>5, <1>7, <1>9, LogAppended
<1>11. SourceInv' /\ SlotInv'
  BY <1>1, <1>2, <1>4 DEF SourceInv, SlotInv, Same
<1>12. SchemaInv'
  <2>1. InForce(N + 1, v)'
    BY ZenonT(40), <1>4, <1>6, <1>8, InForceNext
  <2>2. st'.NextSeq > 0 /\ N = st'.NextSeq /\ v = st'.SchemaHash /\ table' = v
    BY <1>3, <1>4, <1>5, SMTT(30) DEF Same
  <2> QED BY <1>2, <2>1, <2>2 DEF SchemaInv
<1> QED BY <1>4, <1>10, <1>11, <1>12

\* The chunk extends what is staged by the rows of the batch.
LEMMA FlushStep ==
  ASSUME CaptureInv, Flush
  PROVE  CaptureInv'
<1>1. PICK m : m = Chunk
  OBVIOUS
<1>2. CASE UNCHANGED <<pc, queueVars, batch>>
  <2>1. UNCHANGED <<st, items, wal, slot, pc, table, point, pos, ordinal, batch, durable>>
    BY <1>2 DEF Flush, queueVars, sourceVars
  <2> QED BY <2>1, Unmoved
<1>3. CASE Q!AppendMessage(m) /\ batch' = 0 /\ pc' = "record"
  <2>1. pc = "flush" /\ UNCHANGED <<wal, slot, table, pos, ordinal, durable>> /\ batch > 0
    BY DEF Flush, sourceVars, CaptureInv, DecoderInv
  <2>2. /\ pos \in Nat /\ ordinal \in Nat /\ batch \in Nat /\ batch <= ordinal
        /\ pos = st.DurableLSN /\ pos < Len(wal) /\ Len(wal[pos + 1].rows) \in Nat
        /\ \A i \in 1..Len(wal[pos + 1].rows) : RowAt(pos + 1, i) \in Wire
        /\ ordinal > 0 => ordinal <= Len(wal[pos + 1].rows)
        /\ Staged(st.NextSeq) /\ st.NextSeq \in Nat /\ st.ReadySeq \in Nat
        /\ st.ReadySeq <= st.NextSeq /\ BatchFits
    BY <2>1, FlushFacts
  <2>3. /\ pos + 1 \in Nat /\ ordinal - batch + 1 \in Nat
        /\ \A i \in ordinal - batch + 1 .. ordinal : i \in 1..Len(wal[pos + 1].rows)
    <3>1. ordinal > 0
      BY <2>1, <2>2, SMTT(30)
    <3> QED BY <2>2, <3>1, SMTT(30)
  <2>4. /\ m.body \in Body /\ m.lsn = None /\ m.version = None
        /\ m.body.kind = "transaction_rows" /\ m.body.tx = pos + 1
        /\ m.body.first = ordinal - batch + 1 /\ m.body.rows = batch
        /\ \A r \in m.body.records : Fits(r, table)
    <3>1. PICK records : records = {RowAt(pos + 1, i) : i \in ordinal - batch + 1 .. ordinal}
      OBVIOUS
    <3>2. records \in SUBSET Wire
      BY <2>2, <2>3, <3>1
    <3>3. \A r \in records : Fits(r, table)
      BY <2>2, <3>1 DEF BatchFits
    <3>4. m = Msg("transaction_rows", pos + 1, ordinal - batch + 1, batch, records)
      BY <1>1, <3>1 DEF Chunk
    <3> QED BY ZenonT(40), <2>2, <2>3, <3>2, <3>3, <3>4 DEF Msg, Body
  <2>5. PICK N : N = st.NextSeq + 1
    OBVIOUS
  <2>6. /\ QueueInv' /\ SourceInv' /\ SlotInv' /\ LogInv' /\ StampInv' /\ SchemaInv'
        /\ Same /\ Kept(st.NextSeq) /\ N \in Nat \ {0} /\ st'.NextSeq = N
        /\ st'.ReadySeq = st.ReadySeq /\ items'[N].body = m.body
    BY <1>3, <2>1, <2>4, <2>5, TransactionAppended, ZenonT(40)
  <2>7. Staged(N)'
    <3>1. /\ ordinal' - batch' = ordinal
          /\ ordinal - batch + 1 + batch = ordinal + 1
      BY <1>3, <2>1, <2>2, SMTT(30)
    <3>2. ASSUME NEW k \in st.ReadySeq + 1 .. st.NextSeq
          PROVE  /\ Kind(k)' = "transaction_rows" /\ Tx(k)' = pos + 1
                 /\ items'[k].body.first + items'[k].body.rows <= ordinal + 1
                 /\ \A t, r : Carries(k, t, r)' = Carries(k, t, r)
      <4>1. k \in 1..st.NextSeq
        BY <2>2, SMT
      <4>2. /\ Kind(k)' = Kind(k) /\ Tx(k)' = Tx(k) /\ items'[k].body = items[k].body
            /\ \A t, r : Carries(k, t, r)' = Carries(k, t, r)
        BY ZenonT(40), <2>2, <2>6, <4>1, KeptFields
      <4>3. /\ Kind(k) = "transaction_rows" /\ Tx(k) = pos + 1
            /\ items[k].body.first + items[k].body.rows <= ordinal - batch + 1
            /\ items[k].body \in Body
        BY <2>2, <4>1 DEF Staged, QueueInv, CaptureInv
      <4>4. items[k].body.first \in Nat /\ items[k].body.rows \in Nat
        BY <4>3 DEF Body
      <4>5. items[k].body.first + items[k].body.rows <= ordinal + 1
        <5>1. \A x \in Nat : x <= ordinal - batch + 1 => x <= ordinal + 1
          BY <2>2, SMTT(30)
        <5>2. items[k].body.first + items[k].body.rows \in Nat
          BY <4>4, SMT
        <5> QED BY ZenonT(40), <4>3, <5>1, <5>2
      <4> QED BY ZenonT(40), <4>2, <4>3, <4>5
    <3>3. /\ Kind(N)' = "transaction_rows" /\ Tx(N)' = pos + 1
          /\ items'[N].body.first = ordinal - batch + 1 /\ items'[N].body.rows = batch
      BY <2>4, <2>6 DEF Kind, Tx
    <3>4. items'[N].body.first + items'[N].body.rows <= ordinal + 1
      BY <2>2, <3>3, SMTT(30)
    <3>5. \A k \in st.ReadySeq + 1 .. N : k \in st.ReadySeq + 1 .. st.NextSeq \/ k = N
      BY <2>2, <2>5, SMTT(30)
    <3>6. N \in st.ReadySeq + 1 .. N /\ \A k \in st.ReadySeq + 1 .. st.NextSeq :
            k \in st.ReadySeq + 1 .. N
      BY <2>2, <2>5, SMTT(30)
    <3>7. ASSUME NEW r \in 1..ordinal
          PROVE  \E k \in st.ReadySeq + 1 .. N : Carries(k, pos + 1, r)'
      <4>1. CASE r \in 1..(ordinal - batch)
        <5>1. PICK k \in st.ReadySeq + 1 .. st.NextSeq : Carries(k, pos + 1, r)
          BY <2>2, <4>1 DEF Staged
        <5> QED BY ZenonT(40), <2>1, <3>2, <3>6, <5>1
      <4>2. CASE r \notin 1..(ordinal - batch)
        <5>1. /\ items'[N].body.first <= r
              /\ r < items'[N].body.first + items'[N].body.rows
          BY <2>2, <3>3, <4>2, SMTT(30)
        <5>2. Carries(N, pos + 1, r)'
          BY <2>1, <3>3, <5>1 DEF Carries
        <5> QED BY <3>6, <5>2
      <4> QED BY <4>1, <4>2
    <3>8. pos' = pos /\ st'.ReadySeq = st.ReadySeq
      BY <2>1, <2>6
    <3>9. \A k \in st'.ReadySeq + 1 .. N :
            /\ Kind(k)' = "transaction_rows" /\ Tx(k)' = pos' + 1
            /\ items'[k].body.first + items'[k].body.rows <= ordinal' - batch' + 1
      BY <3>1, <3>2, <3>3, <3>4, <3>5, <3>8, ZenonT(40)
    <3>10. \A r \in 1..(ordinal' - batch') :
             \E k \in st'.ReadySeq + 1 .. N : Carries(k, pos + 1, r)'
      BY <3>1, <3>7, <3>8
    <3> QED BY <3>9, <3>10 DEF Staged
  <2>8. /\ pc' \notin Refreshing /\ pc' \notin {"connect", "flush", "commit", "publish"}
        /\ pc' = "record"
    BY <1>3 DEF Refreshing
  <2>9. /\ batch' \in Nat /\ batch' <= ordinal /\ ~(batch' > 0) /\ ~(pos < st.DurableLSN)
        /\ pos <= st.DurableLSN
    BY <1>3, <2>2, SMTT(30)
  <2>10. DecoderInv'
    BY <2>1, <2>2, <2>6, <2>7, <2>8, <2>9, ZenonT(40) DEF DecoderInv, Same
  <2> QED BY <2>6, <2>10 DEF CaptureInv
<1> QED BY <1>1, <1>2, <1>3 DEF Flush

\* The end of the transaction is staged behind its chunks.
LEMMA TransactionEndStep ==
  ASSUME CaptureInv, TransactionEnd
  PROVE  CaptureInv'
<1>1. PICK m : m = Msg("transaction_end", pos + 1, 0, 0, {})
  OBVIOUS
<1>2. SUFFICES ASSUME Q!AppendMessage(m), pc = "commit", pc' = "publish",
                      UNCHANGED <<wal, slot, table, point, pos, ordinal, batch, durable>>
               PROVE  CaptureInv'
  BY <1>1, PutCases DEF TransactionEnd
<1>3. /\ pos \in Nat /\ ordinal \in Nat /\ batch \in Nat /\ batch <= ordinal
      /\ pos = st.DurableLSN /\ pos < Len(wal)
      /\ ordinal > 0 => ordinal <= Len(wal[pos + 1].rows)
      /\ Staged(st.NextSeq) /\ st.NextSeq \in Nat /\ st.ReadySeq \in Nat
      /\ st.ReadySeq <= st.NextSeq /\ (batch > 0 => BatchFits)
  BY <1>2, FlushFacts
<1>4. batch = 0 /\ ordinal = Len(wal[pos + 1].rows) /\ wal[pos + 1].kind # "truncate"
  BY <1>2 DEF CaptureInv, DecoderInv
<1>5. pos + 1 \in Nat /\ 0 \in Nat
  BY <1>3, SMT
<1>6. /\ m.body \in Body /\ m.lsn = None /\ m.version = None
      /\ m.body.kind = "transaction_end" /\ m.body.tx = pos + 1
  BY <1>1, <1>3, <1>5 DEF Msg, Body
<1>7. PICK N : N = st.NextSeq + 1
  OBVIOUS
<1>8. /\ QueueInv' /\ SourceInv' /\ SlotInv' /\ LogInv' /\ StampInv' /\ SchemaInv'
      /\ Same /\ Kept(st.NextSeq) /\ N \in Nat \ {0} /\ st'.NextSeq = N
      /\ st'.ReadySeq = st.ReadySeq /\ items'[N].body = m.body
  BY ZenonT(40), <1>2, <1>6, <1>7, TransactionAppended
<1>9. Kind(N)' = "transaction_end" /\ Tx(N)' = pos' + 1
  BY <1>2, <1>6, <1>8 DEF Kind, Tx
<1>10. PICK h : h = st.NextSeq
  OBVIOUS
<1>11. h \in Int /\ h <= h /\ h \in Nat /\ h = st'.NextSeq - 1 /\ N > st.ReadySeq
  BY <1>3, <1>7, <1>8, <1>10, SMTT(30)
<1>12. Staged(h)'
  BY <1>2, <1>3, <1>8, <1>10, <1>11, StagedKept, ZenonT(40)
<1>13. pc' \notin Refreshing /\ pc' \notin {"connect", "flush"} /\ pc' = "publish"
  BY <1>2 DEF Refreshing
<1>14. ~(batch > 0) /\ ~(pos < st.DurableLSN) /\ pos <= st.DurableLSN
  BY <1>3, <1>4, SMTT(30)
<1>15. Staged(st.NextSeq - 1)'
  BY <1>11, <1>12
<1>16. Kind(st.NextSeq)' = "transaction_end" /\ Tx(st.NextSeq)' = pos' + 1
  BY <1>8, <1>9
<1>17. DecoderInv'
  BY <1>2, <1>3, <1>4, <1>8, <1>11, <1>13, <1>14, <1>15, <1>16, ZenonT(40) DEF DecoderInv, Same
<1> QED BY <1>8, <1>17 DEF CaptureInv

\* A transaction of the log stays complete when more is published.
LEMMA CompleteGrows ==
  ASSUME NEW R \in Nat, R = st.ReadySeq, NEW n \in Nat, R <= n, st'.ReadySeq = n, Kept(n),
         wal' = wal, NEW i, Complete(i)
  PROVE  Complete(i)'
<1>1. \A k \in 1..R : k \in 1..n
  BY SMT
<1>2. \A k \in 1..n : /\ Kind(k)' = Kind(k) /\ Tx(k)' = Tx(k)
                      /\ \A t, r : Carries(k, t, r)' = Carries(k, t, r)
  BY KeptFields
<1>3. ASSUME NEW r \in 1..Len(wal[i].rows) PROVE \E k \in 1..n : Carries(k, i, r)'
  <2>1. PICK k \in 1..R : Carries(k, i, r)
    BY DEF Complete
  <2> QED BY <1>1, <1>2, <2>1
<1>4. PICK e \in 1..R : Kind(e) = "transaction_end" /\ Tx(e) = i
  BY DEF Complete
<1>5. e \in 1..n /\ Kind(e)' = "transaction_end" /\ Tx(e)' = i
  BY <1>1, <1>2, <1>4
<1>6. wal'[i].kind # "truncate" /\ Len(wal'[i].rows) = Len(wal[i].rows)
  BY DEF Complete
<1> QED BY <1>3, <1>5, <1>6 DEF Complete

\* The transaction behind the durable position becomes the last of the log.
LEMMA PublishStep ==
  ASSUME CaptureInv, Publish
  PROVE  CaptureInv'
<1>1. QueueInv /\ SourceInv /\ SlotInv /\ DecoderInv /\ SchemaInv /\ LogInv /\ StampInv
  BY DEF CaptureInv
<1>2. PICK seal : seal = FALSE
  OBVIOUS
<1>3. /\ pc = "publish" /\ pc' = "record" /\ Q!Publish(pos + 1, seal) /\ seal \in BOOLEAN
      /\ durable' = pos + 1 /\ pos' = pos + 1 /\ ordinal' = 0
      /\ UNCHANGED <<wal, slot, table, batch>>
  BY <1>2 DEF Publish, sourceVars
<1>4. /\ pc \in Decoding /\ pc \in Decoding \ {"record"} /\ pc \in Stamping
      /\ pc' \in Decoding /\ pc' \in Stamping
      /\ pc' \notin Snapping \cup Placed \cup Refreshing \cup Copying
      /\ pc' \notin {"create", "point", "begin", "connect", "refresh-publish", "flush",
                     "commit", "publish"}
  BY <1>3 DEF Snapping, Placed, Decoding, Refreshing, Stamping, Copying
<1>5. /\ pos \in Nat /\ ordinal \in Nat /\ batch = 0 /\ pos = st.DurableLSN /\ pos < Len(wal)
      /\ ordinal = Len(wal[pos + 1].rows) /\ wal[pos + 1].kind # "truncate"
      /\ Staged(st.NextSeq - 1)
      /\ st.NextSeq > st.ReadySeq
      /\ Kind(st.NextSeq) = "transaction_end" /\ Tx(st.NextSeq) = pos + 1
  BY <1>1, <1>3, <1>4 DEF DecoderInv
<1>6. /\ st.Phase = "stream" /\ st.DurableLSN \in Nat /\ st.SnapshotLSN \in Nat
      /\ st.SnapshotLSN <= st.DurableLSN /\ slot \in Nat /\ slot <= st.DurableLSN
      /\ st.NextSeq \in Nat /\ st.ReadySeq \in Nat /\ table = st.SchemaHash
      /\ Len(wal) \in Nat
  BY <1>1, <1>4, CatalogNat DEF SlotInv, QueueInv, SchemaInv
<1>7. /\ QueueInv' /\ items' = items
      /\ st'.NextSeq = st.NextSeq /\ st'.ReadySeq = st.NextSeq
      /\ st'.Phase = "stream" /\ st'.SnapshotLSN = st.SnapshotLSN
      /\ st'.DurableLSN = pos + 1 /\ st'.SchemaHash = st.SchemaHash
  BY <1>1, <1>3, <1>6, PublishQueue
<1>8. PICK n, v, R, S, D : /\ n = st.NextSeq /\ v = st.SchemaHash /\ R = st.ReadySeq
                           /\ S = st.SnapshotLSN /\ D = pos + 1
  OBVIOUS
<1>9. /\ n \in Nat \ {0} /\ n \in Nat /\ Kept(n) /\ n + 1 \in 1..n+1 /\ R \in Nat /\ n > R
      /\ S \in Nat /\ D \in Nat /\ n \in 1..n /\ D \in S + 1 .. D
      /\ D = st.DurableLSN + 1
  <2>1. n > R /\ n \in Nat /\ R \in Nat /\ pos = st.DurableLSN /\ Kept(n)
    BY ZenonT(40), <1>5, <1>6, <1>7, <1>8 DEF Kept
  <2>2. n \in Nat \ {0} /\ n + 1 \in 1..n+1 /\ n \in 1..n
    BY <2>1, SMTT(30)
  <2>3. S \in Nat /\ D \in Nat /\ D \in S + 1 .. D /\ D = st.DurableLSN + 1
    BY <1>6, <1>8, <2>1, SMTT(30)
  <2> QED BY <2>1, <2>2, <2>3
<1>10. \A k \in 1..n : /\ Kind(k)' = Kind(k) /\ Tx(k)' = Tx(k) /\ Moved(k)' = Moved(k)
                       /\ \A t, r : Carries(k, t, r)' = Carries(k, t, r)
                       /\ \A j \in 1..n : Before(j, k)' = Before(j, k)
  BY <1>9, KeptFields
<1>11. LogInv'
  <2>1. \A k \in 1..n : \A j \in 1..k-1 : j \in 1..n
    BY <1>9, SMTT(30)
  <2>2. \A k \in 1..n : \A j \in 1..k-1 : Moved(j)' /\ Moved(k)' => Before(j, k)'
    BY ZenonT(40), <1>1, <1>8, <1>10, <2>1 DEF LogInv
  <2>3. ASSUME NEW k \in 1..n, Moved(k)' PROVE Tx(k)' \in S + 1 .. D
    <3>1. CASE k \in 1..R
      <4>1. Tx(k) \in S + 1 .. st.DurableLSN
        BY <1>1, <1>6, <1>8, <1>10, <2>3, <3>1, ZenonT(40) DEF LogInv
      <4>2. Tx(k) \in S + 1 .. D
        BY <1>6, <1>9, <4>1, SMTT(30)
      <4> QED BY <1>10, <4>2
    <3>2. CASE k \in R + 1 .. n - 1
      <4>1. Tx(k) = D
        BY <1>5, <1>8, <3>2 DEF Staged
      <4> QED BY <1>9, <1>10, <4>1
    <3>3. CASE k = n
      BY ZenonT(40), <1>5, <1>8, <1>9, <1>10, <3>3
    <3>4. k \in 1..R \/ k \in R + 1 .. n - 1 \/ k = n
      BY <1>9, SMTT(30)
    <3> QED BY ZenonT(40), <3>1, <3>2, <3>3, <3>4
  <2>4. ASSUME NEW i \in S + 1 .. D PROVE Complete(i)'
    <3>1. wal'[i].kind = wal[i].kind /\ Len(wal'[i].rows) = Len(wal[i].rows) /\ st'.ReadySeq = n
      BY <1>3, <1>7, <1>8
    <3>2. CASE i = D
      <4>1. \A k \in R + 1 .. n - 1 : k \in 1..n
        BY <1>9, SMTT(30)
      <4>2. ordinal - batch = ordinal
        BY <1>5, SMT
      <4>3. ASSUME NEW r \in 1..Len(wal[D].rows) PROVE \E k \in 1..n : Carries(k, D, r)'
        <5>1. PICK k \in R + 1 .. n - 1 : Carries(k, D, r)
          BY <1>5, <1>8, <4>2 DEF Staged
        <5> QED BY <1>10, <4>1, <5>1
      <4>4. wal[D].kind # "truncate" /\ Kind(n)' = "transaction_end" /\ Tx(n)' = D
        BY ZenonT(40), <1>5, <1>8, <1>9, <1>10
      <4> QED BY <1>9, <3>1, <3>2, <4>3, <4>4, ZenonT(40) DEF Complete
    <3>3. CASE i \in S + 1 .. st.DurableLSN
      <4>1. Complete(i)
        BY ZenonT(40), <1>1, <1>6, <1>8, <3>3 DEF LogInv
      <4>2. n \in Nat /\ R <= n /\ wal' = wal
        BY <1>3, <1>9, SMTT(30)
      <4> QED BY <1>8, <1>9, <3>1, <4>1, <4>2, CompleteGrows, ZenonT(40)
    <3>4. i = D \/ i \in S + 1 .. st.DurableLSN
      BY <1>6, <1>9, SMTT(30)
    <3> QED BY <3>2, <3>3, <3>4
  <2> QED BY <1>7, <1>8, <2>2, <2>3, <2>4, ZenonT(40) DEF LogInv
<1>12. InForce(n + 1, v)' /\ n > 0
  <2>1. InForce(n + 1, v)
    BY <1>1, <1>4, <1>8 DEF SchemaInv
  <2> QED BY <1>9, <2>1, InForceKept, SMTT(30)
<1>13. StampInv'
  <2>1. \A k \in 1..n : RowsOK(k)'
    BY ZenonT(40), <1>1, <1>8, <1>9, RowsKept DEF StampInv
  <2>2. st'.NextSeq = n /\ st'.ReadySeq = n /\ st'.SchemaHash = v
    BY <1>7, <1>8
  <2> QED BY <1>12, <2>1, <2>2 DEF StampInv
<1>14. SchemaInv'
  <2>1. st'.NextSeq = n /\ st'.SchemaHash = v /\ table' = v
    BY ZenonT(40), <1>3, <1>6, <1>7, <1>8
  <2> QED BY <1>4, <1>12, <2>1 DEF SchemaInv
<1>15. SourceInv' /\ SlotInv'
  <2>1. /\ pos + 1 \in Nat /\ slot <= pos + 1 /\ st.SnapshotLSN <= pos + 1
        /\ pos + 1 <= Len(wal)
    BY <1>5, <1>6, SMTT(30)
  <2> QED BY <1>1, <1>3, <1>4, <1>6, <1>7, <2>1, ZenonT(40) DEF SourceInv, SlotInv
<1>16. DecoderInv'
  <2>1. /\ pos' \in Nat /\ pos' <= st'.DurableLSN /\ ordinal' \in Nat /\ batch' \in Nat
        /\ batch' <= ordinal' /\ ~(ordinal' > 0) /\ ~(batch' > 0) /\ batch' = 0
    BY <1>3, <1>5, <1>7, SMTT(30)
  <2>2. Staged(st.NextSeq)'
    BY ZenonT(40), <1>3, <1>6, <1>7, <2>1, StagedNothing
  <2> QED BY <1>3, <1>4, <1>7, <2>1, <2>2, ZenonT(40) DEF DecoderInv
<1> QED BY <1>7, <1>11, <1>13, <1>14, <1>15, <1>16, ZenonT(40) DEF CaptureInv

-----------------------------------------------------------------------------
(* refreshSchemaForReplay.                                                 *)

\* The appends of a refresh: nothing of a transaction, and the barrier sets the version.
LEMMA RefreshPut ==
  ASSUME CaptureInv, NEW here, NEW next, NEW kind,
         \/ here = "refresh-schema" /\ next = "refresh-end" /\ kind = "schema"
         \/ here = "refresh-end" /\ next = "refresh-publish" /\ kind = "schema_end",
         PutNow(Versioned(Msg(kind, durable, 0, 0, {})), here, next)
  PROVE  CaptureInv'
<1>1. QueueInv /\ SourceInv /\ SlotInv /\ DecoderInv /\ SchemaInv /\ LogInv /\ StampInv
  BY DEF CaptureInv
<1>2. PICK m : m = Versioned(Msg(kind, durable, 0, 0, {}))
  OBVIOUS
<1>3. SUFFICES ASSUME Q!AppendMessage(m), Go(next)
               PROVE  CaptureInv'
  BY <1>2, FatalStep DEF PutNow
<1>4. pc = here /\ pc' = next /\ UNCHANGED <<wal, slot, table, durable>>
  BY <1>3 DEF PutNow, Go, Quiet, sourceVars, decoderVars
<1>5. /\ pc \in Refreshing \ {"refresh"} /\ pc' \in Refreshing /\ pc' # "refresh"
      /\ pc' \notin Snapping \cup Placed \cup Decoding \cup Stamping
      /\ pc' \notin {"create", "point", "begin", "connect", "refresh"}
  BY <1>4 DEF Snapping, Placed, Decoding, Refreshing, Stamping
<1>6. durable \in Nat /\ table # None /\ 0 \in Nat
  <2>1. durable \in Nat /\ table \in Versions
    BY <1>1, <1>5 DEF SlotInv, SourceInv
  <2>2. 0 \in Nat
    BY SMT
  <2> QED BY <2>1, <2>2, CaptureAssumption
<1>7. /\ m.body \in Body /\ m.lsn = None /\ m.version = table /\ m.body.kind = kind
  <2>1. PICK b : b = [kind |-> kind, tx |-> durable, first |-> 0, rows |-> 0, records |-> {}]
    OBVIOUS
  <2>2. m = [body |-> b, version |-> table, lsn |-> None]
    BY <1>2, <2>1 DEF Versioned, Msg
  <2>3. kind \in {"snapshot_begin", "schema", "snapshot_rows", "snapshot_end",
                 "transaction_rows", "transaction_end", "schema_end"}
    OBVIOUS
  <2>4. b \in Body /\ b.kind = kind
    BY <1>6, <2>1, <2>3 DEF Body
  <2> QED BY <2>2, <2>4
<1>8. PICK N, v : N = st.NextSeq + 1 /\ v = table
  OBVIOUS
<1>9. /\ QueueInv' /\ Same /\ Settled /\ Kept(st.NextSeq) /\ WalGrows
      /\ N \in Nat \ {0} /\ st'.NextSeq = N /\ st'.ReadySeq = st.ReadySeq
      /\ items'[N].body = m.body /\ items'[N].SchemaVersion = v
  <2>1. wal' = wal /\ m.version # None
    BY <1>4, <1>6, <1>7
  <2> QED BY <1>3, <1>7, <1>8, <2>1, Appended, ZenonT(40)
<1>10. Kind(N)' = kind /\ ~Moved(N)' /\ RowsOK(N)'
  BY <1>7, <1>9 DEF Kind, Moved, RowsOK
<1>11. LogInv' /\ StampInv'
  BY <1>1, <1>8, <1>9, <1>10, LogAppended, ZenonT(40)
<1>12. SourceInv' /\ SlotInv'
  BY <1>1, <1>4, <1>5, <1>9 DEF SourceInv, SlotInv, Same
<1>13. SchemaInv'
  <2>1. CASE pc' = "refresh-publish"
    <3>1. kind = "schema_end"
      BY <1>4, <2>1
    <3>2. InForce(N + 1, v)'
      BY <1>9, <1>10, <3>1, InForceNext, ZenonT(40)
    <3>3. st'.NextSeq > 0 /\ st'.NextSeq = N /\ table' = v
      BY <1>4, <1>8, <1>9, SMTT(30)
    <3> QED BY <1>5, <3>2, <3>3 DEF SchemaInv
  <2>2. CASE pc' # "refresh-publish"
    BY <1>5, <2>2 DEF SchemaInv
  <2> QED BY <2>1, <2>2
<1>14. DecoderInv'
  <2>1. \A k \in st.ReadySeq + 1 .. N : k = N \/ (k \in st.ReadySeq + 1 .. st.NextSeq
                                                  /\ k \in 1..st.NextSeq)
    BY <1>1, <1>8, SMTT(30) DEF QueueInv
  <2>2. \A k \in st.ReadySeq + 1 .. st.NextSeq : ~Moved(k)
    BY <1>1, <1>5 DEF DecoderInv
  <2>3. \A k \in 1..st.NextSeq : Moved(k)' = Moved(k)
    BY <1>1, <1>9, KeptFields DEF QueueInv
  <2>4. \A k \in st'.ReadySeq + 1 .. st'.NextSeq : ~Moved(k)'
    BY <1>9, <1>10, <2>1, <2>2, <2>3, ZenonT(40)
  <2> QED BY <1>5, <2>4 DEF DecoderInv, Decoding
<1> QED BY ZenonT(40), <1>9, <1>11, <1>12, <1>13, <1>14 DEF CaptureInv

\* The refresh publishes its barrier, no transaction, at the durable position.
LEMMA RefreshPublishStep ==
  ASSUME CaptureInv, RefreshPublish
  PROVE  CaptureInv'
<1>1. QueueInv /\ SourceInv /\ SlotInv /\ DecoderInv /\ SchemaInv /\ LogInv /\ StampInv
  BY DEF CaptureInv
<1>2. /\ pc = "refresh-publish" /\ pc' = "down" /\ Q!PublishSchema(durable, table)
      /\ UNCHANGED <<wal, slot, table, durable>>
  BY DEF RefreshPublish, Go, Quiet, sourceVars, decoderVars
<1>3. /\ QueueInv' /\ items' = items
      /\ st'.NextSeq = st.NextSeq /\ st'.ReadySeq = st.NextSeq
      /\ st.Phase = "stream" /\ st'.Phase = "stream" /\ st'.SnapshotLSN = st.SnapshotLSN
      /\ st'.DurableLSN = durable /\ st'.SchemaHash = table
  BY <1>1, <1>2, PublishSchemaQueue
<1>4. /\ pc \in Refreshing \ {"refresh"}
      /\ pc' \notin Snapping \cup Placed \cup Decoding \cup Refreshing \cup Stamping
      /\ pc' \notin {"create", "point", "begin", "connect", "refresh", "refresh-publish"}
  BY <1>2 DEF Snapping, Placed, Decoding, Refreshing, Stamping
<1>5. /\ durable = st.DurableLSN /\ st.NextSeq \in Nat /\ st.ReadySeq \in Nat
      /\ st.ReadySeq <= st.NextSeq /\ st.NextSeq > 0
      /\ \A k \in st.ReadySeq + 1 .. st.NextSeq : ~Moved(k)
  BY <1>1, <1>2, <1>4 DEF SlotInv, QueueInv, SchemaInv, DecoderInv
<1>6. PICK n, v, R : n = st.NextSeq /\ v = table /\ R = st.ReadySeq
  OBVIOUS
<1>7. n \in Nat \ {0} /\ n \in Nat /\ R \in Nat /\ R <= n /\ n + 1 \in 1..n+1
  BY <1>5, <1>6, SMTT(30)
<1>8. Kept(n)
  BY <1>3 DEF Kept
<1>9. LogInv'
  <2>1. \A k \in 1..n : /\ Tx(k)' = Tx(k) /\ Moved(k)' = Moved(k)
                        /\ \A j \in 1..n : Before(j, k)' = Before(j, k)
    BY <1>7, <1>8, KeptFields
  <2>2. \A k \in 1..n : \A j \in 1..k-1 : j \in 1..n
    BY <1>7, SMTT(30)
  <2>3. \A k \in 1..n : \A j \in 1..k-1 : Moved(j)' /\ Moved(k)' => Before(j, k)'
    BY <1>1, <1>6, <2>1, <2>2, ZenonT(40) DEF LogInv
  <2>4. \A k \in 1..n : k \in 1..R \/ k \in R + 1 .. n
    BY <1>7, SMT
  <2>5. \A k \in 1..n : Moved(k)' => Tx(k)' \in st.SnapshotLSN + 1 .. st.DurableLSN
    BY <1>1, <1>3, <1>5, <1>6, <2>1, <2>4, ZenonT(40) DEF LogInv
  <2>6. ASSUME NEW i \in st.SnapshotLSN + 1 .. st.DurableLSN PROVE Complete(i)'
    <3>1. Complete(i) /\ st'.ReadySeq = n
      BY <1>1, <1>3, <1>6 DEF LogInv
    <3> QED BY <1>2, <1>6, <1>7, <1>8, <3>1, CompleteGrows
  <2> QED BY <1>3, <1>5, <1>6, <2>3, <2>5, <2>6, ZenonT(40) DEF LogInv
<1>10. StampInv'
  <2>1. \A k \in 1..n : RowsOK(k)'
    BY <1>1, <1>6, <1>7, <1>8, RowsKept, ZenonT(40) DEF StampInv
  <2>2. InForce(n + 1, v)'
    BY <1>1, <1>2, <1>6, <1>7, <1>8, InForceKept, ZenonT(40) DEF SchemaInv
  <2>3. st'.NextSeq = n /\ st'.ReadySeq = n /\ st'.SchemaHash = v /\ n > 0
    BY <1>3, <1>5, <1>6
  <2> QED BY <2>1, <2>2, <2>3 DEF StampInv
<1>11. SourceInv' /\ SlotInv' /\ SchemaInv'
  BY ZenonT(40), <1>1, <1>2, <1>3, <1>4, <1>5 DEF SourceInv, SlotInv, SchemaInv
<1>12. DecoderInv'
  BY <1>4, DecoderIdle
<1> QED BY <1>3, <1>9, <1>10, <1>11, <1>12, ZenonT(40) DEF CaptureInv

-----------------------------------------------------------------------------
(* The invariant holds.                                                    *)

\* The invariant holds of a new database.
LEMMA InitHolds ==
  ASSUME Init
  PROVE  CaptureInv
<1>1. /\ st = Q!Blank(0, None, "empty", 0) /\ items = [n \in {} |-> None]
      /\ wal = <<>> /\ pc = "down" /\ table = 1
  BY DEF Init, Q!Open
<1>2. /\ StateFields \subseteq DOMAIN st /\ st.NextSeq = 0 /\ st.ReadySeq = 0
      /\ st.DeliveredSeq = 0 /\ st.EarliestSeq = 0 /\ st.ArchiveBytes = 0
      /\ st.Phase # "stream"
  BY <1>1 DEF Q!Blank, StateFields
<1>3. \A k \in 1..st.NextSeq : FALSE
  BY <1>2, SMT
<1>4. QueueInv
  <2>1. DOMAIN items = 1..st.NextSeq
    BY <1>1, <1>2, SMTT(30)
  <2>2. /\ st.DeliveredSeq \in Nat /\ st.ReadySeq \in Nat /\ st.NextSeq \in Nat
        /\ st.DeliveredSeq <= st.ReadySeq /\ st.ReadySeq <= st.NextSeq /\ st.NextSeq <= MaxSeq
    BY <1>2, CaptureAssumption, SMTT(30)
  <2> QED BY ZenonT(40), <1>2, <1>3, <2>1, <2>2 DEF QueueInv
<1>5. SourceInv
  <2>1. wal \in Seq([kind : Changes, rows : Seq(Change), version : Versions])
    BY <1>1, SMT
  <2> QED BY <1>1, <2>1, CaptureAssumption DEF SourceInv
<1>6. /\ pc \notin Snapping \cup Placed \cup Decoding \cup Refreshing \cup Stamping
      /\ pc \notin {"create", "point", "begin", "connect", "refresh", "refresh-publish"}
  BY <1>1 DEF Snapping, Placed, Decoding, Refreshing, Stamping
<1>7. SlotInv /\ LogInv /\ StampInv
  BY <1>2, <1>3, <1>6 DEF SlotInv, LogInv, StampInv
<1>8. DecoderInv /\ SchemaInv
  BY <1>6 DEF DecoderInv, SchemaInv, Decoding, Refreshing
<1> QED BY <1>4, <1>5, <1>7, <1>8, ZenonT(40) DEF CaptureInv

\* Every step keeps the invariant.
LEMMA NextKeeps ==
  ASSUME CaptureInv, [Next]_vars
  PROVE  CaptureInv'
<1>1. CASE Attempt
  BY <1>1, AttemptStep
<1>2. CASE Snapshot
  BY ZenonT(40), <1>2, DropSlotStep, InitializeStep, CreateSlotStep, RecordPointStep, SnapshotPutSteps,
     SealStep DEF Snapshot
<1>3. CASE Stream
  <2>1. CASE TruncateRecord
    BY <2>1, FatalStep DEF TruncateRecord
  <2> QED BY ZenonT(40), <1>3, <2>1, ConnectStep, RowStep, FlushStep, CommitRecordStep,
             TransactionEndStep, PublishStep DEF Stream
<1>4. CASE SchemaRefresh
  <2>1. CASE RefreshSchema
    BY <2>1, RefreshPut DEF RefreshSchema
  <2>2. CASE RefreshEnd
    BY <2>2, RefreshPut, ZenonT(40) DEF RefreshEnd
  <2> QED BY ZenonT(40), <1>4, <2>1, <2>2, RefreshStep, RefreshPublishStep DEF SchemaRefresh
<1>5. CASE Waited
  BY <1>5, WaitedStep
<1>6. CASE Feedback
  BY <1>6, FeedbackStep
<1>7. CASE Source
  BY <1>7, SourceStep
<1>8. CASE Deliver
  BY <1>8, DeliverStep
<1>9. CASE Crash
  BY <1>9, CrashStep
<1>10. CASE UNCHANGED vars
  <2>1. UNCHANGED <<st, items, wal, slot, pc, table, point, pos, ordinal, batch, durable>>
    BY <1>10 DEF vars, queueVars, sourceVars, decoderVars
  <2> QED BY <2>1, Unmoved
<1> QED BY <1>1, <1>2, <1>3, <1>4, <1>5, <1>6, <1>7, <1>8, <1>9, <1>10, ZenonT(40) DEF Next, Capture, Exited

\* The invariant is inductive (Run and everything it calls).
THEOREM CaptureInductive == Spec => []CaptureInv
<1>1. Init => CaptureInv
  BY InitHolds
<1>2. CaptureInv /\ [Next]_vars => CaptureInv'
  BY NextKeeps
<1> QED BY <1>1, <1>2, PTL DEF Spec

\* The slot never confirms more than is durable in the queue, so PostgreSQL keeps
\* the WAL that any crash would need again (feedback, CreateSlot, Publish).
THEOREM SlotStaysBehind == Spec => []FeedbackSafe
<1>1. CaptureInv => FeedbackSafe
  BY CaptureAssumption DEF CaptureInv, SlotInv, FeedbackSafe
<1> QED BY <1>1, CaptureInductive, PTL

\* The version in force is what the barrier of the target reads from the log.
LEMMA InForceIsActive ==
  ASSUME NEW k \in Nat, NEW v, InForce(k, v)
  PROVE  ActiveAt(k) = v
<1> DEFINE ends == {e \in 1..k-1 : items[e].body.kind = "schema_end"}
<1>1. CASE /\ \A f \in 1..k-1 : Kind(f) # "schema_end"
           /\ items[1].SchemaVersion = v
  <2>1. ends = {}
    BY <1>1 DEF Kind
  <2> QED BY <1>1, <2>1 DEF ActiveAt
<1>2. CASE \E e \in 1..k-1 : /\ Kind(e) = "schema_end" /\ items[e].SchemaVersion = v
                             /\ \A f \in e+1..k-1 : Kind(f) # "schema_end"
  <2>1. PICK e \in 1..k-1 : /\ Kind(e) = "schema_end" /\ items[e].SchemaVersion = v
                            /\ \A f \in e+1..k-1 : Kind(f) # "schema_end"
    BY <1>2
  <2>2. e \in ends /\ ends # {}
    BY <2>1 DEF Kind
  <2>3. \A f \in ends : f \notin e+1..k-1
    BY <2>1 DEF Kind
  <2>4. \A f \in ends : f <= e
    BY <2>3, SMT
  <2>5. PICK c : c = CHOOSE x \in ends : \A f \in ends : f <= x
    OBVIOUS
  <2>6. c \in ends /\ \A f \in ends : f <= c
    BY <2>2, <2>4, <2>5
  <2>7. c \in 1..k-1 /\ e <= c /\ c <= e
    BY <2>2, <2>4, <2>6
  <2>8. c = e
    BY <2>7, SMT
  <2> QED BY ZenonT(40), <2>1, <2>2, <2>5, <2>8 DEF ActiveAt
<1> QED BY <1>1, <1>2 DEF InForce

\* Rows are stamped with a version they fit (its columns and types, all of them
\* for an insert, its whole key or row for an update or delete), which is the one
\* the target's schema barrier expects at that place of the log, through
\* refreshes, redelivered transactions and crashes (convert, Refresh, Attempt).
THEOREM RowsFitAlways == Spec => []RowsFitTheirSchema
<1>1. ASSUME CaptureInv PROVE RowsFitTheirSchema
  <2>1. QueueInv /\ StampInv
    BY <1>1 DEF CaptureInv
  <2>2. \A k \in 1..st.NextSeq : k \in Nat
    BY <2>1, SMT DEF QueueInv
  <2>3. ASSUME NEW k \in 1..st.NextSeq,
               items[k].body.kind \in {"snapshot_rows", "transaction_rows"}
        PROVE  /\ \A r \in items[k].body.records : Fits(r, items[k].SchemaVersion)
               /\ items[k].SchemaVersion = ActiveAt(k)
    <3>1. /\ \A r \in items[k].body.records : Fits(r, items[k].SchemaVersion)
          /\ InForce(k, items[k].SchemaVersion)
      BY <2>1, <2>3 DEF StampInv, RowsOK, Kind
    <3> QED BY <2>2, <3>1, InForceIsActive
  <2> QED BY <2>3 DEF RowsFitTheirSchema
<1> QED BY <1>1, CaptureInductive, PTL

\* Any two published messages of transactions are ordered.
LEMMA Ordered ==
  ASSUME CaptureInv, st.Phase = "stream", NEW j \in 1..st.ReadySeq, NEW k \in 1..st.ReadySeq,
         Moved(j), Moved(k)
  PROVE  /\ j = k \/ (j < k /\ Before(j, k)) \/ (k < j /\ Before(k, j))
         /\ Tx(j) \in Int /\ items[j].body.first \in Nat /\ items[j].body.rows \in Nat
         /\ Tx(j) \in st.SnapshotLSN + 1 .. st.DurableLSN
<1>1. QueueInv /\ SlotInv /\ LogInv
  BY DEF CaptureInv
<1>2. st.ReadySeq \in Nat /\ st.NextSeq \in Nat /\ st.ReadySeq <= st.NextSeq
  BY <1>1 DEF QueueInv
<1>3. /\ j \in 1..st.NextSeq /\ k \in 1..st.NextSeq
      /\ j = k \/ (j < k /\ j \in 1..k-1) \/ (k < j /\ k \in 1..j-1)
  BY <1>2, SMT
<1>4. j = k \/ (j < k /\ Before(j, k)) \/ (k < j /\ Before(k, j))
  BY <1>1, <1>3 DEF LogInv
<1>5. Tx(j) \in st.SnapshotLSN + 1 .. st.DurableLSN
  BY <1>1 DEF LogInv
<1>6. Tx(j) \in Int
  BY <1>5, SMT
<1>7. items[j].body \in Body
  BY <1>1, <1>3 DEF QueueInv
<1>8. items[j].body.first \in Nat /\ items[j].body.rows \in Nat
  BY <1>7 DEF Body
<1> QED BY ZenonT(40), <1>4, <1>5, <1>6, <1>8

\* The chunks and ends of a transaction, as messages of the log.
LEMMA ChunkMembers ==
  ASSUME NEW n, NEW k
  PROVE  /\ k \in Chunks(n) <=> k \in 1..st.ReadySeq /\ Kind(k) = "transaction_rows" /\ Tx(k) = n
         /\ k \in Ends(n) <=> k \in 1..st.ReadySeq /\ Kind(k) = "transaction_end" /\ Tx(k) = n
         /\ k \in Chunks(n) \cup Ends(n) => Moved(k)
BY DEF Chunks, Ends, Kind, Tx, Moved

\* Neither of two intervals that share a place ends before the other begins.
LEMMA Meeting ==
  ASSUME NEW a \in Nat, NEW b \in Nat, NEW c \in Nat, NEW d \in Nat, NEW r \in Int,
         a <= r /\ r < a + b /\ c <= r /\ r < c + d
  PROVE  ~(a + b <= c) /\ ~(c + d <= a)
  BY SMTT(30)

\* Everything the source committed between the snapshot's point and the durable
\* position is published once, complete, closed once and in commit order, and
\* nothing else is, whatever was redelivered or crashed (decoder, Publish, Recover).
THEOREM PublishedExactlyOnce == Spec => []ExactlyOnce
<1>1. ASSUME CaptureInv, st.Phase = "stream", NEW n \in 1..MaxTx,
             n > st.SnapshotLSN /\ n <= st.DurableLSN
      PROVE  /\ wal[n].kind # "truncate"
             /\ Cardinality(Ends(n)) = 1
             /\ \A r \in 1..Len(wal[n].rows) :
                  Cardinality({k \in Chunks(n) : LET b == items[k].body IN
                                 r \in b.first..(b.first + b.rows - 1)}) = 1
             /\ \A k \in Chunks(n), e \in Ends(n) : k < e
             /\ \A m \in 1..n-1 : \A e \in Ends(m), k \in Chunks(n) \cup Ends(n) : e < k
  <2>1. /\ st.SnapshotLSN \in Nat /\ st.DurableLSN \in Nat /\ n \in Int
        /\ n \in st.SnapshotLSN + 1 .. st.DurableLSN
    <3>1. st.SnapshotLSN \in Nat /\ st.DurableLSN \in Nat
      BY <1>1 DEF CaptureInv, SlotInv
    <3> QED BY <1>1, <3>1, CaptureAssumption, SMTT(30)
  <2>2. Complete(n)
    BY <1>1, <2>1 DEF CaptureInv, LogInv
  <2>3. ~(n < n)
    BY <2>1, SMT
  <2>4. PICK e \in 1..st.ReadySeq : Kind(e) = "transaction_end" /\ Tx(e) = n
    BY <2>2 DEF Complete
  <2>5. \A f \in Ends(n) : f = e
    <3>1. ASSUME NEW f \in Ends(n) PROVE f = e
      <4>1. f \in 1..st.ReadySeq /\ Kind(f) = "transaction_end" /\ Tx(f) = n
        BY <3>1, ChunkMembers
      <4>2. f = e \/ Before(f, e) \/ Before(e, f)
        BY ZenonT(40), <1>1, <2>4, <4>1, Ordered DEF Moved
      <4> QED BY ZenonT(40), <2>3, <2>4, <4>1, <4>2 DEF Before
    <3> QED BY <3>1
  <2>6. Ends(n) = {e}
    <3>1. e \in Ends(n)
      BY <2>4, ChunkMembers
    <3> QED BY <2>5, <3>1
  <2>7. Cardinality(Ends(n)) = 1
    BY <2>6, FS_Singleton
  <2>8. ASSUME NEW r \in 1..Len(wal[n].rows)
        PROVE  Cardinality({k \in Chunks(n) : LET b == items[k].body IN
                              r \in b.first..(b.first + b.rows - 1)}) = 1
    <3> DEFINE X == {k \in Chunks(n) : LET b == items[k].body IN
                       r \in b.first..(b.first + b.rows - 1)}
    <3>1. r \in Int
      BY <2>8, SMT
    <3>2. ASSUME NEW k PROVE k \in X <=> k \in 1..st.ReadySeq /\ Carries(k, n, r)
      <4>1. ASSUME k \in 1..st.ReadySeq, Kind(k) = "transaction_rows", Tx(k) = n
            PROVE  r \in items[k].body.first..(items[k].body.first + items[k].body.rows - 1)
                   <=> Carries(k, n, r)
        <5>1. items[k].body.first \in Nat /\ items[k].body.rows \in Nat
          BY <1>1, <4>1, Ordered, ZenonT(40) DEF Moved
        <5>2. r \in items[k].body.first..(items[k].body.first + items[k].body.rows - 1)
              <=> /\ items[k].body.first <= r
                  /\ r < items[k].body.first + items[k].body.rows
          BY <3>1, <5>1, SMTT(30)
        <5> QED BY <4>1, <5>2 DEF Carries
      <4> QED BY <4>1, ChunkMembers DEF Carries
    <3>3. PICK k \in 1..st.ReadySeq : Carries(k, n, r)
      BY <2>2 DEF Complete
    <3>4. ASSUME NEW j \in X PROVE j = k
      <4>1. j \in 1..st.ReadySeq /\ Carries(j, n, r)
        BY <3>2, <3>4
      <4>2. j = k \/ Before(j, k) \/ Before(k, j)
        BY <1>1, <3>3, <4>1, Ordered, ZenonT(40) DEF Carries, Moved
      <4>3. /\ items[j].body.first \in Nat /\ items[j].body.rows \in Nat
            /\ items[k].body.first \in Nat /\ items[k].body.rows \in Nat
        BY <1>1, <3>3, <4>1, Ordered, ZenonT(40) DEF Carries, Moved
      <4>4. /\ ~(items[j].body.first + items[j].body.rows <= items[k].body.first)
            /\ ~(items[k].body.first + items[k].body.rows <= items[j].body.first)
        <5>1. /\ items[j].body.first <= r /\ r < items[j].body.first + items[j].body.rows
              /\ items[k].body.first <= r /\ r < items[k].body.first + items[k].body.rows
          BY <3>3, <4>1 DEF Carries
        <5> QED BY ZenonT(40), <3>1, <4>3, <5>1, Meeting
      <4> QED BY <2>3, <3>3, <4>1, <4>2, <4>4, ZenonT(40) DEF Before, Carries
    <3>5. X = {k}
      BY <3>2, <3>3, <3>4
    <3> QED BY <3>5, FS_Singleton
  <2>9. ASSUME NEW k \in Chunks(n), NEW f \in Ends(n) PROVE k < f
    <3>1. /\ k \in 1..st.ReadySeq /\ Kind(k) = "transaction_rows" /\ Tx(k) = n
          /\ f \in 1..st.ReadySeq /\ Kind(f) = "transaction_end" /\ Tx(f) = n
      BY <2>9, ChunkMembers
    <3>2. k = f \/ k < f \/ Before(f, k)
      BY <1>1, <3>1, Ordered DEF Moved
    <3> QED BY <2>3, <3>1, <3>2 DEF Before
  <2>10. ASSUME NEW m \in 1..n-1, NEW f \in Ends(m), NEW k \in Chunks(n) \cup Ends(n)
         PROVE  f < k
    <3>1. /\ k \in 1..st.ReadySeq /\ Tx(k) = n /\ Moved(k)
          /\ f \in 1..st.ReadySeq /\ Tx(f) = m /\ Moved(f)
      BY <2>10, ChunkMembers
    <3>2. k = f \/ f < k \/ Before(k, f)
      BY ZenonT(40), <1>1, <3>1, Ordered
    <3>3. ~(n < m) /\ n # m
      BY <2>1, SMT
    <3> QED BY <3>1, <3>2, <3>3 DEF Before
  <2> QED BY <2>2, <2>7, <2>8, <2>9, <2>10, ZenonT(40) DEF Complete
<1>2. ASSUME CaptureInv, st.Phase = "stream", NEW n \in 1..MaxTx,
             ~(n > st.SnapshotLSN /\ n <= st.DurableLSN)
      PROVE  Chunks(n) = {} /\ Ends(n) = {}
  <2>1. st.SnapshotLSN \in Nat /\ st.DurableLSN \in Nat
    BY <1>2 DEF CaptureInv, SlotInv
  <2>2. n \notin st.SnapshotLSN + 1 .. st.DurableLSN
    BY <1>2, <2>1, CaptureAssumption, SMTT(30)
  <2>3. ASSUME NEW k, k \in Chunks(n) \cup Ends(n) PROVE FALSE
    <3>1. k \in 1..st.ReadySeq /\ Tx(k) = n /\ Moved(k)
      BY <2>3, ChunkMembers
    <3> QED BY ZenonT(40), <1>2, <2>2, <3>1, Ordered
  <2> QED BY <2>3
<1>3. CaptureInv => ExactlyOnce
  BY <1>1, <1>2 DEF ExactlyOnce
<1> QED BY <1>3, CaptureInductive, PTL
=============================================================================

----------------------------- MODULE PgCapture ------------------------------
(***************************************************************************)
(* PostgreSQL capture, internal/capture: an attempt recovers the queue     *)
(* (module Queue), inspects the catalogue, takes the initial snapshot at   *)
(* the consistent point of a new replication slot or resumes at the last   *)
(* durable position, and then turns the wal2json records of each committed *)
(* transaction into staged chunks that one Publish makes visible.          *)
(*                                                                         *)
(* The source is a sequence of committed transactions; the end LSN of a    *)
(* transaction is its place in it.  A transaction changes rows of the      *)
(* captured tables, alters their schema or truncates one.  wal2json        *)
(* describes a row by the schema in force when it was written, and capture *)
(* compares what the record names with the tables it inspected.            *)
(***************************************************************************)
EXTENDS Integers, Sequences, FiniteSets

CONSTANTS None,
          Versions,     \* schema versions, numbered from 1
          Schemas,      \* what each version makes of the table: its typed columns,
                        \* its primary key, whether its replica identity is FULL
          RowChanges,   \* sequences of row changes a source transaction may make
          Changes,      \* kinds of source transaction: rows, alter, truncate
          BatchRows,    \* batch_rows
          OnlineRefresh,\* delivery uses the standard gRPC transport
          MaxBytes,     \* queue_bytes; every message counts one
          MaxTx,        \* bound on source transactions
          MaxSeq,       \* bound on sequence numbers, never reached
          MaxCrashes,   \* bound on crashes and lost connections
          MaxAcks       \* bound on acknowledgements by the delivery

Typed == UNION {Schemas[v].columns : v \in Versions}

\* An update leaves out the columns whose values are unchanged and kept elsewhere.
Change == [op : {"insert", "update", "delete"}, toast : SUBSET Typed]

ASSUME CaptureAssumption == /\ BatchRows \in Nat \ {0} /\ RowChanges \subseteq Seq(Change)
                            /\ Versions \subseteq Nat /\ 1 \in Versions /\ None \notin Nat
                            /\ MaxTx \in Nat /\ MaxSeq \in Nat

ASSUME SchemaAssumption == \A v \in Versions : /\ IsFiniteSet(Schemas[v].columns)
                                               /\ Schemas[v].key \subseteq Schemas[v].columns

VARIABLES st, items, minted,   \* Queue
          wal,          \* committed source transactions
          slot,         \* the slot's confirmed position, or None
          pc,           \* the capture goroutine
          waiting,      \* append found the queue full and waits for the delivery
          table,        \* version of the tables the attempt inspected
          point,        \* consistent point of the slot just created
          pos,          \* transactions the stream has sent completely
          ordinal,      \* decoder.ordinal: rows seen of the current transaction
          batch,        \* rows of the chunk not yet appended
          durable,      \* decoder.durable
          crashes, error

queueVars == <<st, items, minted>>
sourceVars == <<wal, slot>>
decoderVars == <<pos, ordinal, batch, durable>>
vars == <<queueVars, sourceVars, pc, waiting, table, point, decoderVars, crashes, error>>

\* A wal2json record of a row: the typed columns it names.
Wire == [op : {"insert", "update", "delete"}, columns : SUBSET Typed, identity : SUBSET Typed]

Body == [kind : {"snapshot_begin", "schema", "snapshot_rows", "snapshot_end",
                 "transaction_rows", "transaction_end", "schema_end"},
         tx : Nat, first : Nat, rows : Nat, records : SUBSET Wire]

Q == INSTANCE Queue WITH Bodies <- Body, SizeOf <- [b \in Body |-> 1], LSNs <- 0..MaxTx,
       Hashes <- Versions, Tokens <- {}, LsnBytes <- 0, ReplayBytes <- MaxSeq,
       MaxGen <- MaxCrashes + 1

Msg(kind, tx, first, rows, records) ==
  [body |-> [kind |-> kind, tx |-> tx, first |-> first, rows |-> rows, records |-> records],
   version |-> None, lsn |-> None]

\* The version of the source schema once n transactions are committed.
VersionAt(n) == IF n = 0 THEN 1 ELSE wal[n].version

Catalog == VersionAt(Len(wal))

-----------------------------------------------------------------------------
(* The source database and the delivery.                                   *)

\* A transaction of some kind commits at the source.
Committed(kind, rows, version) ==
  /\ kind \in Changes /\ Len(wal) < MaxTx
  /\ wal' = Append(wal, [kind |-> kind, rows |-> rows, version |-> version])
  /\ UNCHANGED <<queueVars, slot, pc, waiting, table, point, decoderVars, crashes, error>>

CommitRows(rows) == Committed("rows", rows, Catalog)

AlterTable == Catalog + 1 \in Versions /\ Committed("alter", <<>>, Catalog + 1)

TruncateTable == Committed("truncate", <<>>, Catalog)

\* What wal2json makes of a change under version v: an insert names all columns,
\* an update those it sends, and an old row is named by its replica identity.
Recorded(c, v) ==
  [op |-> c.op,
   columns |-> CASE c.op = "insert" -> Schemas[v].columns
                 [] c.op = "update" -> Schemas[v].columns \ c.toast
                 [] c.op = "delete" -> {},
   identity |-> CASE c.op = "insert" -> {}
                  [] OTHER -> IF Schemas[v].full THEN Schemas[v].columns ELSE Schemas[v].key]

\* The record of row i of transaction n, and that of a row of the snapshot.
RowAt(n, i) == Recorded(wal[n].rows[i], wal[n].version)
Copied == Recorded([op |-> "insert", toast |-> {}], VersionAt(point))

Deliver == /\ st.DeliveredSeq < st.ReadySeq /\ st.DeliveredSeq < MaxAcks
           /\ Q!Ack(st.DeliveredSeq + 1, Q!MessageID(st.DeliveredSeq + 1), {})
           /\ UNCHANGED <<sourceVars, pc, waiting, table, point, decoderVars, crashes, error>>

-----------------------------------------------------------------------------
(* Steps of the capture goroutine.                                         *)

\* The source and the decoder are left alone.
Quiet == UNCHANGED <<sourceVars, table, point, decoderVars, crashes, error>>

\* The goroutine moves on to a step.
Go(next) == pc' = next /\ UNCHANGED waiting /\ Quiet

\* attempt returns an error that is not transient.
Fatal(why) == /\ pc' = "dead" /\ waiting' = FALSE /\ error' = why
              /\ UNCHANGED <<queueVars, sourceVars, table, point, decoderVars, crashes>>

\* batcher.append of m at step here, then step next.  On ErrFull it looks at
\* the queue again, in a transaction of its own.
Put(m, here, next) ==
  /\ pc = here /\ ~waiting
  /\ IF Q!Full(m) THEN waiting' = TRUE /\ UNCHANGED <<pc, queueVars>> /\ Quiet
     ELSE Q!AppendMessage(m) /\ Go(next)

\* Variant of Waited: staged messages count as something to wait for.
WaitedForStaged ==
  /\ waiting
  /\ IF st.NextSeq = st.DeliveredSeq
     THEN Fatal("capacity")
     ELSE waiting' = FALSE /\ UNCHANGED <<pc, queueVars>> /\ Quiet

\* The second half of append on ErrFull: wait for the delivery to free what is
\* published, or give up when nothing published is left.
Waited ==
  /\ waiting
  /\ IF st.ReadySeq = st.DeliveredSeq
     THEN Fatal("capacity")
     ELSE waiting' = FALSE /\ UNCHANGED <<pc, queueVars>> /\ Quiet

\* attempt up to the choice between snapshot and stream.
Attempt ==
  /\ pc = "down"
  /\ Q!Recover
  /\ table' = Catalog
  /\ IF st.Phase = "stream" /\ st.SchemaHash # Catalog
     THEN pc' = "dead" /\ error' = "schema"
     ELSE /\ pc' = IF st.Phase = "stream" THEN "connect" ELSE "drop"
          /\ UNCHANGED error
  /\ UNCHANGED <<sourceVars, waiting, point, decoderVars, crashes>>

\* snapshot: an abandoned slot of an earlier attempt is dropped.
DropSlot == /\ pc = "drop"
            /\ slot' = None /\ pc' = "initialize"
            /\ UNCHANGED <<queueVars, wal, waiting, table, point, decoderVars, crashes, error>>

Initialize == /\ pc = "initialize"
              /\ Q!Initialize(table)
              /\ Go("create")

\* The slot and the snapshot it exports start at the same point.
CreateSlot == /\ pc = "create"
              /\ slot' = Len(wal) /\ point' = Len(wal)
              /\ pc' = "point"
              /\ UNCHANGED <<queueVars, wal, waiting, table, decoderVars, crashes, error>>

RecordPoint == /\ pc = "point"
               /\ Q!SnapshotPoint(point)
               /\ Go("begin")

\* The exported snapshot must show the catalogue that was inspected.
SnapshotBegin == IF pc = "begin" /\ ~waiting /\ VersionAt(point) # st.SchemaHash THEN Fatal("schema")
                 ELSE Put(Msg("snapshot_begin", point, 0, 0, {}), "begin", "schema")

SnapshotSchema == Put(Msg("schema", point, 0, 0, {}), "schema", "rows")

SnapshotRows == Put(Msg("snapshot_rows", point, 0, 1, {Copied}), "rows", "end")

SnapshotEnd == Put(Msg("snapshot_end", point, 0, 0, {}), "end", "seal")

Seal == /\ pc = "seal"
        /\ Q!Publish(point, TRUE)
        /\ Go("connect")

-----------------------------------------------------------------------------
(* Streaming.                                                              *)

\* stream: the slot must not be ahead of the durable position.  The server may
\* send again transactions between the confirmed and the requested position.
Connect ==
  /\ pc = "connect"
  /\ IF slot = None \/ slot > st.DurableLSN THEN Fatal("slot")
     ELSE /\ durable' = st.DurableLSN
          /\ pos' \in slot..st.DurableLSN
          /\ ordinal' = 0 /\ batch' = 0 /\ pc' = "record"
          /\ UNCHANGED <<queueVars, sourceVars, waiting, table, point, crashes, error>>

\* Variant of Skip: only transactions before the durable position are skipped.
SkipOffByOne == pos + 1 < durable

\* The transaction being received was published before.
Skip == pos + 1 <= durable

\* The columns a record names are columns of the table, with their types.
Decodes(r, v) == r.columns \cup r.identity \subseteq Schemas[v].columns

\* The record says which row it is about: by all columns in a table without a
\* primary key, or else by the values of the key (which are not null).
Identified(r, v) ==
  IF Schemas[v].key = {}
  THEN r.op # "insert" => Cardinality(r.identity) = Cardinality(Schemas[v].columns)
  ELSE /\ r.op # "delete" => Schemas[v].key \subseteq r.columns
       /\ r.op # "insert" => Schemas[v].key \subseteq r.identity

\* An insert names as many columns as the table has.
Whole(r, v) == r.op = "insert" => Cardinality(r.columns) = Cardinality(Schemas[v].columns)

\* Variant of convert: only the number of columns of an insert is compared.
convertCounting(r, v) == IF ~Whole(r, v) THEN "mismatch" ELSE "row"

\* convert: the row of a record, errSchemaMismatch, or another error.
convert(r, v) == IF ~Decodes(r, v) THEN "mismatch"
                 ELSE IF ~Identified(r, v) THEN "error"
                 ELSE IF ~Whole(r, v) THEN "mismatch" ELSE "row"

\* A row record.  A chunk is full at BatchRows rows, or earlier by its bytes.
Row ==
  /\ pc = "record" /\ pos < Len(wal) /\ ordinal < Len(wal[pos + 1].rows)
  /\ LET outcome == convert(RowAt(pos + 1, ordinal + 1), table) IN
     \/ /\ Skip
        /\ ordinal' = ordinal + 1 /\ UNCHANGED <<batch, pc, waiting, error>>
     \/ /\ ~Skip /\ outcome = "mismatch"
        /\ pc' = "refresh" /\ UNCHANGED <<ordinal, batch, waiting, error>>
     \/ /\ ~Skip /\ outcome = "error"
        /\ pc' = "dead" /\ waiting' = FALSE /\ error' = "identity" /\ UNCHANGED <<ordinal, batch>>
     \/ /\ ~Skip /\ outcome = "row"
        /\ ordinal' = ordinal + 1 /\ batch' = batch + 1
        /\ pc' \in IF batch + 1 >= BatchRows THEN {"flush"} ELSE {"record", "flush"}
        /\ UNCHANGED <<waiting, error>>
  /\ UNCHANGED <<queueVars, sourceVars, table, point, pos, durable, crashes>>

\* flush, which a full chunk and the commit call.
Chunk == Msg("transaction_rows", pos + 1, ordinal - batch + 1, batch,
             {RowAt(pos + 1, i) : i \in ordinal - batch + 1 .. ordinal})

Flush == /\ pc = "flush" /\ ~waiting
         /\ IF Q!Full(Chunk) THEN waiting' = TRUE /\ UNCHANGED <<pc, queueVars, batch>>
            ELSE Q!AppendMessage(Chunk) /\ batch' = 0 /\ pc' = "record" /\ UNCHANGED waiting
         /\ UNCHANGED <<sourceVars, table, point, pos, ordinal, durable, crashes, error>>

\* The commit record: a remaining chunk is flushed first.
CommitRecord ==
  /\ pc = "record" /\ pos < Len(wal) /\ ordinal = Len(wal[pos + 1].rows)
  /\ wal[pos + 1].kind # "truncate"
  /\ IF Skip THEN /\ pos' = pos + 1 /\ ordinal' = 0 /\ UNCHANGED <<pc>>
     ELSE /\ pc' = IF batch > 0 THEN "flush" ELSE "commit"
          /\ UNCHANGED <<pos, ordinal>>
  /\ UNCHANGED <<queueVars, sourceVars, waiting, table, point, batch, durable, crashes, error>>

\* A truncate record cannot be replayed by the target.
TruncateRecord == /\ pc = "record" /\ pos < Len(wal)
                  /\ wal[pos + 1].kind = "truncate"
                  /\ Fatal("truncate")

TransactionEnd == Put(Msg("transaction_end", pos + 1, 0, 0, {}), "commit", "publish")

Publish == /\ pc = "publish"
           /\ Q!Publish(pos + 1, FALSE)
           /\ durable' = pos + 1 /\ pos' = pos + 1 /\ ordinal' = 0
           /\ pc' = "record"
           /\ UNCHANGED <<sourceVars, waiting, table, point, batch, crashes, error>>

\* Variant of Feedback: the position received is confirmed.
FeedbackReceived == /\ pc = "record"
                    /\ slot' = IF pos + 1 > slot THEN pos + 1 ELSE slot
                    /\ UNCHANGED <<queueVars, wal, pc, waiting, table, point, decoderVars, crashes,
                           error>>

\* A standby status update confirms the durable position.
Feedback == /\ pc = "record"
            /\ slot' = IF durable > slot THEN durable ELSE slot
            /\ UNCHANGED <<queueVars, wal, pc, waiting, table, point, decoderVars, crashes,
                           error>>

-----------------------------------------------------------------------------
(* refreshSchemaForReplay.                                                 *)

\* The catalogue of now, not of the row that did not match.
Refresh ==
  /\ pc = "refresh"
  /\ IF ~OnlineRefresh \/ Catalog = table THEN Fatal("schema")
     ELSE /\ Q!Recover
          /\ table' = Catalog /\ pc' = "refresh-schema"
          /\ UNCHANGED <<sourceVars, waiting, point, decoderVars, crashes, error>>

\* The appends of a refresh do not wait: ErrFull is fatal.
PutNow(m, here, next) ==
  /\ pc = here
  /\ IF Q!Full(m) THEN Fatal("capacity")
     ELSE Q!AppendMessage(m) /\ Go(next)

Versioned(m) == [m EXCEPT !.version = table]

RefreshSchema == PutNow(Versioned(Msg("schema", durable, 0, 0, {})),
                        "refresh-schema", "refresh-end")

RefreshEnd == PutNow(Versioned(Msg("schema_end", durable, 0, 0, {})),
                     "refresh-end", "refresh-publish")

RefreshPublish == /\ pc = "refresh-publish"
                  /\ Q!PublishSchema(durable, table)
                  /\ Go("down")

-----------------------------------------------------------------------------

\* The process dies, a connection is lost or a stopped collector is started
\* again: Run makes another attempt.
Crash == /\ pc # "down"
         /\ crashes < MaxCrashes /\ crashes' = crashes + 1
         /\ pc' = "down" /\ waiting' = FALSE /\ error' = None
         /\ UNCHANGED <<queueVars, sourceVars, table, point, decoderVars>>

\* After a fatal error the collector has exited and nothing more happens.
Exited == pc = "dead" /\ UNCHANGED vars

Init == /\ Q!Open
        /\ wal = <<>> /\ slot = None
        /\ pc = "down" /\ waiting = FALSE /\ table = 1 /\ point = 0
        /\ pos = 0 /\ ordinal = 0 /\ batch = 0 /\ durable = 0
        /\ crashes = 0 /\ error = None

Snapshot == \/ DropSlot \/ Initialize \/ CreateSlot \/ RecordPoint \/ SnapshotBegin
            \/ SnapshotSchema \/ SnapshotRows \/ SnapshotEnd \/ Seal

Stream == Connect \/ Row \/ Flush \/ CommitRecord \/ TruncateRecord \/ TransactionEnd
          \/ Publish

SchemaRefresh == Refresh \/ RefreshSchema \/ RefreshEnd \/ RefreshPublish

Capture == Attempt \/ Snapshot \/ Stream \/ SchemaRefresh \/ Waited

Source == AlterTable \/ TruncateTable \/ \E rows \in RowChanges : CommitRows(rows)

Next == Capture \/ Feedback \/ Source \/ Deliver \/ Crash \/ Exited

Spec == Init /\ [][Next]_vars

FairSpec == Spec /\ WF_vars(Capture) /\ WF_vars(Deliver)

-----------------------------------------------------------------------------
(* Properties.                                                             *)

\* Types of the decoder's fields and of the slot.
TypeOK == /\ slot \in 0..MaxTx \cup {None}
          /\ pos \in 0..MaxTx /\ durable \in 0..MaxTx /\ point \in 0..MaxTx
          /\ batch \in 0..BatchRows
          /\ table \in Versions
          /\ error \in {None, "schema", "slot", "capacity", "truncate", "identity"}
          /\ st.NextSeq < MaxSeq

\* The published row chunks and ends of transaction n, as sequence numbers.
Chunks(n) == {k \in 1..st.ReadySeq : items[k].body.kind = "transaction_rows" /\ items[k].body.tx = n}
Ends(n) == {k \in 1..st.ReadySeq : items[k].body.kind = "transaction_end" /\ items[k].body.tx = n}

\* Exactly once: what is published after the snapshot is every transaction from
\* the snapshot's point to the durable position, each complete, closed once, in
\* commit order, whatever crashes and replays happened; none of them is a
\* truncate, which stops the capture instead (decoder, Publish).
ExactlyOnce ==
  st.Phase = "stream" =>
    \A n \in 1..MaxTx :
      IF n > st.SnapshotLSN /\ n <= st.DurableLSN
      THEN /\ wal[n].kind # "truncate"
           /\ Cardinality(Ends(n)) = 1
           /\ \A r \in 1..Len(wal[n].rows) :
                Cardinality({k \in Chunks(n) : LET b == items[k].body IN
                               r \in b.first..(b.first + b.rows - 1)}) = 1
           /\ \A k \in Chunks(n), e \in Ends(n) : k < e
           /\ \A m \in 1..n-1 : \A e \in Ends(m), k \in Chunks(n) \cup Ends(n) : e < k
      ELSE Chunks(n) = {} /\ Ends(n) = {}

\* The slot never confirms more than is durable in the queue, so PostgreSQL
\* keeps the WAL of everything a crash would need again (feedback).
FeedbackSafe == st.Phase = "stream" => slot # None /\ slot <= st.DurableLSN

\* The version in force at message k: that of the last schema_end before it.
ActiveAt(k) == LET ends == {e \in 1..k-1 : items[e].body.kind = "schema_end"}
               IN  IF ends = {} THEN items[1].SchemaVersion
                   ELSE items[CHOOSE e \in ends : \A f \in ends : f <= e].SchemaVersion

\* A record fits a version: what it names are columns of it, an insert gives all
\* of them, and an update or delete names its row by the whole key or row.
Fits(r, v) ==
  LET s == Schemas[v]
  IN  /\ r.columns \cup r.identity \subseteq s.columns
      /\ r.op = "insert" => r.columns = s.columns
      /\ r.op # "insert" => (IF s.key = {} THEN s.columns ELSE s.key) \subseteq r.identity

\* Rows are stamped with a version they fit, and that version is the one the
\* barrier of the receiving target expects at that place, whatever was altered,
\* staged, dropped by a refresh or sent again in between (convert, Append).  It
\* need not be the version they were written under: a keyed delete fits both.
RowsFitTheirSchema ==
  \A k \in 1..st.NextSeq : items[k].body.kind \in {"snapshot_rows", "transaction_rows"} =>
    /\ \A r \in items[k].body.records : Fits(r, items[k].SchemaVersion)
    /\ items[k].SchemaVersion = ActiveAt(k)

\* "容量满时采集等待接收端释放已发布数据；若只有不可见的大事务/快照占满容量则报错"
\* (docs/architecture.md): capture gives up for lack of capacity only when what
\* is staged and still invisible leaves no room.
\* The code does not keep it, since the state is read after the failed Append (README.md).
CapacityErrorReal == error = "capacity" =>
                       (st.NextSeq - st.ReadySeq) + 1 > MaxBytes

\* Everything the source commits is published in the end, in spite of crashes and
\* of a full queue, unless capture gave up with an error (Run's retry loop).
CatchesUp == <>[](error # None \/ (st.Phase = "stream" /\ st.DurableLSN = Len(wal)))
=============================================================================

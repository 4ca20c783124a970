------------------------------- MODULE Target -------------------------------
(***************************************************************************)
(* The receiving side's target, internal/server/target.go and schema.go:   *)
(* the metadata row sync_state with its staging tables, the business       *)
(* tables and the file store.                                              *)
(*                                                                         *)
(* store runs in one PostgreSQL transaction, so it is one action: Store    *)
(* when it commits, whether or not the process learns it, RolledBack when  *)
(* it fails after it began to apply the message.  Two things are outside   *)
(* that transaction and survive a rollback: the object store, and the      *)
(* column cache each server process keeps for its target.                  *)
(*                                                                         *)
(* A business table is a bag of row values, which covers the keyless       *)
(* tables; in a Keyed table a value may occur once.  A schema version      *)
(* stands for the column sets SchemaCols gives it.  A file's content is    *)
(* the sequence of its chunks, and is its own SHA-256.  A payload digest   *)
(* is the payload.  The empty string is None.                              *)
(***************************************************************************)
EXTENDS Integers, Sequences, FiniteSetsExt

CONSTANTS Servers,      \* server processes sharing the target database
          Versions,     \* schema hashes
          Tables,       \* configured tables
          Keyed,        \* the ones with a primary key
          Values,       \* row values
          Columns,      \* column names
          BaseColumns,  \* columns of every target table before any ALTER
          SchemaCols,   \* version -> columns the source tables then have
          Nullable,     \* columns safeTargetType can map and that allow NULL
          AutoAdd,      \* auto_add_nullable_columns
          Paths,        \* file paths
          FileOps,      \* file_storage.events
          Bodies,       \* message contents a collector may send
          None,         \* the empty string, an absent object
          MaxSeq,       \* bound on sequence numbers
          MaxGen        \* bound on generations

ASSUME TargetAssumption == /\ Keyed \subseteq Tables
                           /\ MaxSeq \in Nat /\ MaxGen \in Nat
                           /\ None \notin {"snapshot", "stream"}
                           /\ None \notin [gen : Nat, seq : Nat, body : Bodies]

\* Rows of a change or of a snapshot, which reads them.
Rows == [table : Tables, op : {"read", "insert", "update", "delete"},
         old : Values \cup {None}, new : Values \cup {None}, cols : SUBSET Columns]

\* What the collectors send: a file batch has no rows, a transaction no reads.
ASSUME BodyAssumption ==
  /\ None \notin [Tables -> [Values -> Int]]
  /\ \A b \in Bodies :
       /\ b.scope \subseteq Tables /\ b.rows \in Seq(Rows)
       /\ b.kind \in {"file_begin", "file_chunk"} => b.rows = <<>>
       /\ b.kind = "transaction_rows" => \A i \in DOMAIN b.rows : b.rows[i].op # "read"

VARIABLES db,           \* sync_state row and the staging tables, durable
          tables,       \* business tables: table -> value -> occurrences
          columns,      \* their columns
          files,        \* object store: path -> content
          types,        \* per process: table -> cached columns, or None
          retry,        \* the message whose store was rolled back, or None
          last,         \* the message of the latest store call, None if that
                        \* returned an error
          informed      \* history: the processes no ALTER TABLE has passed
                        \* unnoticed since they last read or dropped their cache

targetVars == <<db, tables, columns, files, types, retry, last, informed>>

Opens == {"transaction_rows", "file_begin", "file_chunk"}
Closes == {"transaction_end", "file_end"}
Applies == {"snapshot_end", "transaction_end", "schema_end", "file_end", "file_delete"}

-----------------------------------------------------------------------------
(* The transaction's view of the metadata.                                 *)

NoRow == [n \in {} |-> None]

\* The row migrate inserts, and what a generation switch leaves of it.
Fresh(gen, version, authorized) ==
  [Generation |-> gen, Received |-> 0, Applied |-> 0, Phase |-> None,
   OpenTransaction |-> None, SchemaVersion |-> version, Pending |-> None,
   Authorized |-> authorized, inbox |-> NoRow, snapshot_rows |-> NoRow,
   scope |-> {}, message_hash |-> NoRow, schema_stage |-> {}]

\* store's first step: a new generation drops everything staged for the old.
Current(m) == IF m.gen = db.Generation THEN db
              ELSE Fresh(m.gen, m.body.version, db.Authorized)

SwitchAllowed(m) == m.gen # db.Generation =>
                      m.seq = 1 /\ m.body.kind = "snapshot_begin"

\* Variant of Barrier: rows pass while a refresh is pending.
BarrierIgnoringPending(d, b) ==
  IF b.kind = "schema" /\ d.Phase = "stream"
  THEN b.version # None /\ d.Pending \in {None, b.version}
  ELSE IF b.kind = "schema_end"
  THEN d.Phase = "stream" /\ b.version # None /\ b.version = d.Pending
  ELSE b.version = d.SchemaVersion

\* The schema version barrier.
Barrier(d, b) ==
  IF b.kind = "schema" /\ d.Phase = "stream"
  THEN b.version # None /\ d.Pending \in {None, b.version}
  ELSE IF b.kind = "schema_end"
  THEN d.Phase = "stream" /\ b.version # None /\ b.version = d.Pending
  ELSE d.Pending = None /\ b.version = d.SchemaVersion

\* The persisted transaction identifier rejects interleaved batches.
Batch(d, b) ==
  /\ b.kind \in Opens => b.tx # None /\ d.OpenTransaction \in {None, b.tx}
  /\ b.kind \in Closes => b.tx # None /\ d.OpenTransaction = b.tx
  /\ b.kind \in {"file_delete", "schema"} => d.OpenTransaction = None

\* The phase checks of applyMessage.
InPhase(d, b) ==
  CASE b.kind = "snapshot_begin" -> TRUE
    [] b.kind = "schema" -> d.Phase \in {"snapshot", "stream"}
    [] b.kind \in {"snapshot_rows", "snapshot_end"} -> d.Phase = "snapshot"
    [] OTHER -> d.Phase = "stream"

Contiguous(d, m) == m.seq = d.Received + 1

Admissible(m) == LET d == Current(m) IN
  SwitchAllowed(m) /\ Contiguous(d, m) /\ Barrier(d, m.body)
                   /\ Batch(d, m.body) /\ InPhase(d, m.body)

-----------------------------------------------------------------------------
(* Schema: stageSchema and applyStagedSchemas.                             *)

Stages(b) == b.kind = "schema" /\ b.version # None

Staged(d, version) == {s \in d.schema_stage : s.version = version}

\* Every configured table is staged and each missing column may be added.
SchemasApply(d, version) ==
  /\ Cardinality(Staged(d, version)) = Cardinality(Tables)
  /\ \A s \in Staged(d, version) :
       \A c \in SchemaCols[version] \ columns[s.table] : AutoAdd /\ c \in Nullable

Alters(b) == b.kind = "schema_end" \/ (b.kind = "snapshot_end" /\ b.version # None)

ColumnsAfter(b) == IF Alters(b)
                   THEN [t \in Tables |-> columns[t] \cup SchemaCols[b.version]]
                   ELSE columns

-----------------------------------------------------------------------------
(* Rows: columnTypes, applyRow and the loops of applyMessage.              *)

\* columnTypes: the cached columns of a table, else the committed catalogue.
\* It reads through the pool, not through store's transaction.
Known(p, t) == IF types[p][t] = None THEN columns[t] ELSE types[p][t]

\* A row over the tables acc; None when applyRow returns an error.
ApplyRow(p, acc, row) ==
  LET count == acc[row.table]
      Put(v, n) == [acc EXCEPT ![row.table][v] = @ + n]
  IN  IF ~(row.cols \subseteq Known(p, row.table)) THEN None
      ELSE CASE row.op = "insert" ->
                  IF row.table \in Keyed /\ count[row.new] > 0 THEN None
                  ELSE Put(row.new, 1)
             [] row.op = "delete" ->
                  IF count[row.old] = 0 THEN None ELSE Put(row.old, -1)
             [] row.op = "update" ->
                  IF \/ count[row.old] = 0
                     \/ row.table \in Keyed /\ row.new # row.old /\ count[row.new] > 0
                  THEN None
                  ELSE [acc EXCEPT ![row.table] =
                          [v \in Values |-> @[v] - (IF v = row.old THEN 1 ELSE 0)
                                                 + (IF v = row.new THEN 1 ELSE 0)]]

ApplyRows(p, start, rows) ==
  LET acc[i \in 0..Len(rows)] ==
        IF i = 0 THEN start
        ELSE IF acc[i - 1] = None THEN None ELSE ApplyRow(p, acc[i - 1], rows[i])
  IN  acc[Len(rows)]

\* The lists lists[1] to lists[n] as one.
Joined(lists, n) ==
  LET upto[k \in 0..n] == IF k = 0 THEN <<>> ELSE upto[k - 1] \o lists[k] IN upto[n]

\* The rows of staged chunks, in sequence order.
InOrder(chunks) ==
  Joined([n \in 1..MaxSeq |-> IF n \in DOMAIN chunks THEN chunks[n].rows ELSE <<>>], MaxSeq)

AsInserts(rows) == [i \in DOMAIN rows |-> [rows[i] EXCEPT !.op = "insert"]]

OfTransaction(d, tx) == [n \in {k \in DOMAIN d.inbox : d.inbox[k].tx = tx} |-> d.inbox[n]]

\* Variant of Cleared: the old rows stay.
ClearedNothing(scope) == tables

\* snapshot_end empties the tables in scope before it inserts.
Cleared(scope) == [t \in Tables |-> IF t \in scope THEN [v \in Values |-> 0] ELSE tables[t]]

RowsApplied(d, b) ==
  CASE b.kind = "snapshot_end" -> AsInserts(InOrder(d.snapshot_rows))
    [] b.kind = "transaction_end" -> InOrder(OfTransaction(d, b.tx))
    [] OTHER -> <<>>

TablesAfter(p, d, b) ==
  ApplyRows(p, IF b.kind = "snapshot_end" THEN Cleared(d.scope) ELSE tables,
            RowsApplied(d, b))

\* Every table a row touches is in the cache afterwards, commit or not.
Loaded(p, d, b) ==
  LET used == {RowsApplied(d, b)[i].table : i \in DOMAIN RowsApplied(d, b)}
  IN  [types EXCEPT ![p] = [t \in Tables |-> IF t \in used THEN Known(p, t) ELSE @[t]]]

-----------------------------------------------------------------------------
(* Files: applyFile and file_delete.                                       *)

\* The inbox is one begin followed by all the chunks of the announced file.
FileComplete(d, b) ==
  /\ Cardinality(DOMAIN d.inbox) = Len(b.file.content) + 1
  /\ \A n \in DOMAIN d.inbox :
       LET c == d.inbox[n]
           i == Cardinality({k \in DOMAIN d.inbox : k < n})
       IN  /\ c.tx = b.tx /\ c.file = b.file
           /\ IF i = 0 THEN c.kind = "file_begin"
              ELSE c.kind = "file_chunk" /\ c.chunk = i - 1 /\ c.data = b.file.content[i]

\* Variant of FilesAfter: a file is truncated in place when its batch begins.
FilesAfterInPlace(b) ==
  IF b.kind \in {"file_begin", "file_end", "file_delete"} /\ b.file.op \in FileOps
  THEN [files EXCEPT ![b.file.path] =
          CASE b.kind = "file_begin" -> <<>>
            [] b.kind = "file_end" -> b.file.content
            [] OTHER -> None]
  ELSE files

FilesAfter(b) ==
  IF b.kind \in {"file_end", "file_delete"} /\ b.file.op \in FileOps
  THEN [files EXCEPT ![b.file.path] = IF b.kind = "file_end" THEN b.file.content ELSE None]
  ELSE files

\* What Put or Delete of the file store may leave behind when it fails, or when
\* the message is rolled back after it.  The content goes to a temporary file
\* first; where Rename can not replace a file the old one is removed before
\* the new one has its name.
FilesPartly(b) ==
  {files, FilesAfter(b)}
  \cup (IF FilesAfter(b) # files THEN {[files EXCEPT ![b.file.path] = None]} ELSE {})

-----------------------------------------------------------------------------
(* The metadata after a message.                                           *)

PhaseAfter(d, b) == CASE b.kind = "snapshot_begin" -> "snapshot"
                      [] b.kind = "snapshot_end" -> "stream"
                      [] OTHER -> d.Phase

OpenAfter(d, b) == IF b.kind \in Opens THEN b.tx
                   ELSE IF b.kind \in Closes THEN None ELSE d.OpenTransaction

PendingAfter(d, b) == IF b.kind = "schema" /\ d.Phase = "stream" THEN b.version
                      ELSE IF b.kind = "schema_end" THEN None ELSE d.Pending

\* Variant of InboxAfter: an applied batch stays staged.
InboxNeverEmptied(d, m) ==
  IF m.body.kind \in Opens
  THEN [n \in DOMAIN d.inbox \cup {m.seq} |-> IF n = m.seq THEN m.body ELSE d.inbox[n]]
  ELSE d.inbox

InboxAfter(d, m) ==
  CASE m.body.kind \in Opens ->
         [n \in DOMAIN d.inbox \cup {m.seq} |-> IF n = m.seq THEN m.body ELSE d.inbox[n]]
    [] m.body.kind = "transaction_end" ->
         [n \in DOMAIN d.inbox \ DOMAIN OfTransaction(d, m.body.tx) |-> d.inbox[n]]
    [] m.body.kind = "file_end" -> NoRow
    [] OTHER -> d.inbox

SnapshotAfter(d, m) ==
  CASE m.body.kind = "snapshot_rows" ->
         [n \in DOMAIN d.snapshot_rows \cup {m.seq} |->
            IF n = m.seq THEN m.body ELSE d.snapshot_rows[n]]
    [] m.body.kind \in {"snapshot_begin", "snapshot_end"} -> NoRow
    [] OTHER -> d.snapshot_rows

StageAfter(d, b) ==
  IF Stages(b) THEN d.schema_stage \cup {[version |-> b.version, table |-> b.table]}
  ELSE IF Alters(b) THEN d.schema_stage \ Staged(d, b.version)
  ELSE d.schema_stage

After(d, m) ==
  LET b == m.body
  IN  [d EXCEPT !.Received = m.seq,
                !.Applied = IF b.kind \in Applies THEN m.seq ELSE @,
                !.Phase = PhaseAfter(d, b),
                !.OpenTransaction = OpenAfter(d, b),
                !.SchemaVersion = IF b.kind = "schema_end" THEN d.Pending ELSE @,
                !.Pending = PendingAfter(d, b),
                !.inbox = InboxAfter(d, m),
                !.snapshot_rows = SnapshotAfter(d, m),
                !.scope = CASE b.kind = "snapshot_begin" -> b.scope
                            [] b.kind = "snapshot_end" -> {}
                            [] OTHER -> @,
                !.schema_stage = StageAfter(d, b),
                !.message_hash = [n \in DOMAIN @ \cup {m.seq} |->
                                    IF n = m.seq THEN b ELSE @[n]]]

\* What applyMessage checks beyond the phase, and what makes it fail.
Succeeds(p, d, b) ==
  /\ Stages(b) => [version |-> b.version, table |-> b.table] \notin d.schema_stage
  /\ Alters(b) => SchemasApply(d, b.version)
  /\ TablesAfter(p, d, b) # None
  /\ b.kind = "file_end" => FileComplete(d, b)

-----------------------------------------------------------------------------
(* Actions.                                                                *)

Init == /\ db = Fresh(0, None, FALSE)
        /\ tables = [t \in Tables |-> [v \in Values |-> 0]]
        /\ columns = [t \in Tables |-> BaseColumns]
        /\ files = [f \in Paths |-> None]
        /\ types = [p \in Servers |-> [t \in Tables |-> BaseColumns]]
        /\ retry = None
        /\ last = None
        /\ informed = Servers

\* Variant of TypesAfter: the cache outlives the ALTER TABLE.
TypesNotInvalidated(p, d, b) == Loaded(p, d, b)

\* invalidateTypes follows the commit of a message that may alter the tables.
TypesAfter(p, d, b) == IF b.kind \in {"snapshot_end", "schema_end"}
                       THEN [types EXCEPT ![p] = [t \in Tables |-> None]]
                       ELSE Loaded(p, d, b)

\* The transaction of a message the target does not have yet takes effect.
Commits(p, m) ==
  LET d == Current(m)
      b == m.body
  IN  /\ Admissible(m) /\ Succeeds(p, d, b)
      /\ db' = After(d, m)
      /\ tables' = TablesAfter(p, d, b)
      /\ columns' = ColumnsAfter(b)
      /\ files' = FilesAfter(b)
      /\ retry' = None

\* The processes whose cache a message leaves up to date.
StillInformed(b) == IF ColumnsAfter(b) = columns THEN informed ELSE {}

\* Commit returns nil: the message is acknowledged, the cache dropped if need be.
Answered(p, m) ==
  /\ types' = TypesAfter(p, Current(m), m.body)
  /\ informed' = StillInformed(m.body)
                 \cup (IF m.body.kind \in {"snapshot_end", "schema_end"} THEN {p} ELSE {})
  /\ last' = m

\* The answer of Commit is lost and store returns an error: the cache stays, and
\* the message is not acknowledged until it comes again as a duplicate.
Unanswered(p, m) ==
  /\ types' = Loaded(p, Current(m), m.body)
  /\ informed' = StillInformed(m.body)
  /\ last' = None

\* store commits a message it has not stored before.
Store(p, m) == Commits(p, m) /\ (Answered(p, m) \/ Unanswered(p, m))

\* Variant of Duplicate: the payload is not compared.
DuplicateUnchecked(m) ==
  /\ m.gen = db.Generation /\ m.seq \in 1..db.Received
  /\ last' = m
  /\ UNCHANGED <<db, tables, columns, files, types, retry, informed>>

\* A sequence already received is acknowledged again if its payload matches.
Duplicate(m) ==
  /\ m.gen = db.Generation /\ m.seq \in 1..db.Received
  /\ db.message_hash[m.seq] = m.body
  /\ last' = m
  /\ UNCHANGED <<db, tables, columns, files, types, retry, informed>>

\* store fails after applyMessage touched what a rollback does not undo: an
\* error of a later row, a lost database connection, a crash before Commit.
RolledBack(p, m) ==
  LET d == Current(m)
      b == m.body
  IN  /\ Admissible(m)
      /\ b.kind \in Applies
      /\ b.kind = "file_end" => FileComplete(d, b)
      /\ files' \in FilesPartly(b)
      /\ types' = Loaded(p, d, b)
      /\ retry' = m
      /\ last' = None
      /\ UNCHANGED <<db, tables, columns, informed>>

\* openTarget in a new process, or after a configuration reload.
Restart(p) ==
  /\ types' = [types EXCEPT ![p] = columns]
  /\ informed' = informed \cup {p}
  /\ UNCHANGED <<db, tables, columns, files, retry, last>>

-----------------------------------------------------------------------------
(* The collector: its queue holds one message per number, only number 1 is *)
(* snapshot_begin, and any of them may arrive at any time.                 *)

Offered(m) == (m.seq = 1) = (m.body.kind = "snapshot_begin")

\* A message that was rolled back comes again as it was.
Resent(m) == retry # None /\ m.gen = retry.gen /\ m.seq = retry.seq => m = retry

Arrives(m) ==
  /\ Offered(m)
  /\ \/ Duplicate(m)
     \/ Resent(m) /\ \E p \in Servers : Store(p, m) \/ RolledBack(p, m)

Next == \/ \E gen \in {db.Generation, db.Generation + 1} \cap 1..MaxGen :
             \E seq \in 1..MaxSeq, body \in Bodies :
               Arrives([gen |-> gen, seq |-> seq, body |-> body])
        \/ \E p \in Servers : Restart(p)

Spec == Init /\ [][Next]_targetVars

-----------------------------------------------------------------------------
(* Properties.                                                             *)

\* Types of the sync_state row, of its staging tables and of the business tables.
TypeOK == /\ db.Generation \in 0..MaxGen
          /\ db.Received \in 0..MaxSeq /\ db.Applied \in 0..MaxSeq
          /\ db.Phase \in {None, "snapshot", "stream"}
          /\ db.message_hash \in [1..db.Received -> Bodies]
          /\ DOMAIN db.inbox \subseteq 1..db.Received
          /\ tables \in [Tables -> [Values -> Nat]]
          /\ columns \in [Tables -> SUBSET Columns]

\* The rows a message brings into the tables, and those of the first n messages.
RowsOf(b) == CASE b.kind = "snapshot_rows" -> AsInserts(b.rows)
               [] b.kind = "transaction_rows" -> b.rows
               [] OTHER -> <<>>

LogRows(n) == Joined([k \in 1..n |-> RowsOf(db.message_hash[k])], n)

\* A row as a change of the number of its old and of its new value.
Counted(acc, row) ==
  [acc EXCEPT ![row.table] =
     [v \in Values |-> @[v] - (IF row.op # "insert" /\ v = row.old THEN 1 ELSE 0)
                            + (IF row.op # "delete" /\ v = row.new THEN 1 ELSE 0)]]

\* What the tables in the snapshot's scope hold once n messages are applied.
Expected(n) ==
  LET rows == LogRows(n)
      acc[i \in 0..Len(rows)] == IF i = 0 THEN [t \in Tables |-> [v \in Values |-> 0]]
                                 ELSE Counted(acc[i - 1], rows[i])
  IN  acc[Len(rows)]

\* Exactly once, in order and only whole batches: after any deliveries,
\* repetitions, failures and restarts, the tables of the snapshot hold what
\* the messages up to applied_seq say, each counted once (store, applyMessage).
AppliedExactlyOnce ==
  db.Applied > 0 =>
    \A t \in db.message_hash[1].scope : tables[t] = Expected(db.Applied)[t]

\* A batch is applied as soon as it is complete: what lies between applied_seq
\* and received_seq is one unfinished batch, and it is all staged.
OpenBatchStaged ==
  /\ db.Applied <= db.Received
  /\ \A n \in DOMAIN db.inbox : db.inbox[n].tx = db.OpenTransaction
  /\ db.Phase = "stream" =>
       DOMAIN db.inbox = {n \in db.Applied + 1 .. db.Received :
                            db.message_hash[n].kind \in Opens}
  /\ db.Phase = "snapshot" =>
       /\ db.Applied = 0
       /\ DOMAIN db.snapshot_rows = {n \in 1..db.Received :
                                       db.message_hash[n].kind = "snapshot_rows"}

\* "different content is rejected instead of silently acknowledged"
\* (docs/server.md): the last acknowledged message is the one stored.
AckedIsStored ==
  last # None /\ last.gen = db.Generation =>
    last.seq <= db.Received /\ db.message_hash[last.seq] = last.body

\* Rows are only applied under the schema version they were captured with,
\* and no row is received between the first schema message of a refresh and
\* its schema_end (the schema version barrier of store).
BarrierHolds ==
  \A n \in 1..db.Received : db.message_hash[n].kind = "transaction_rows" =>
    LET ends == {k \in 1..n : db.message_hash[k].kind = "schema_end"}
        active == IF ends = {} THEN db.message_hash[1].version
                  ELSE db.message_hash[Max(ends)].version
        refresh == {k \in 1..n : /\ db.message_hash[k].kind = "schema"
                                 /\ \E e \in 1..k : db.message_hash[e].kind = "snapshot_end"}
    IN  /\ db.message_hash[n].version = active
        /\ \A k \in refresh : \E e \in ends : k < e

\* Once a schema version is active and no refresh is under way, a process can
\* apply rows of that version, its cached columns cover it, provided that it
\* opened the target, or saw its own snapshot_end or schema_end committed, since
\* the tables were last altered: invalidateTypes reaches no other process, and
\* is not called when Commit returns an error.
InformedCacheCovers ==
  db.Phase = "stream" /\ db.SchemaVersion # None =>
    \A p \in informed, t \in Tables : SchemaCols[db.SchemaVersion] \subseteq Known(p, t)

\* The same of every process.  The code does not keep it (README.md).
ActiveSchemaApplicable ==
  db.Phase = "stream" /\ db.SchemaVersion # None =>
    \A p \in Servers, t \in Tables : SchemaCols[db.SchemaVersion] \subseteq Known(p, t)

\* A snapshot whose schema set is complete and whose missing columns may be
\* added can be published: its rows use only columns applyRow knows.
\* The code does not keep it, since columns are read outside the transaction (README.md).
SnapshotPublishable ==
  db.Phase = "snapshot" /\ db.SchemaVersion # None /\ SchemasApply(db, db.SchemaVersion) =>
    \A p \in Servers, n \in DOMAIN db.snapshot_rows :
      \A i \in DOMAIN db.snapshot_rows[n].rows :
        LET r == db.snapshot_rows[n].rows[i] IN r.cols \subseteq Known(p, r.table)

\* What a message leaves at its path.
Leaves(b) == IF b.kind = "file_end" THEN b.file.content ELSE None

Touches(b, f) == b.kind \in {"file_end", "file_delete"} /\ b.file.path = f
                 /\ b.file.op \in FileOps

\* The received messages that wrote or deleted a path.
Touched(f) == {k \in 1..db.Received : Touches(db.message_hash[k], f)}

\* The object store is written before Commit, yet a stored file is what the
\* last complete batch or deletion for its path says.  Only while a message for
\* that path is to be redelivered it may be what that message says, or absent
\* (directoryStore.Put): never a mixture, and replaying converges.
FilesMatchLog ==
  \A f \in Paths : Touched(f) # {} =>
    \/ files[f] = Leaves(db.message_hash[Max(Touched(f))])
    \/ retry # None /\ Touches(retry.body, f) /\ files[f] \in {Leaves(retry.body), None}
=============================================================================

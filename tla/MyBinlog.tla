------------------------------ MODULE MyBinlog ------------------------------
(***************************************************************************)
(* MySQL capture, internal/mysql: a snapshot at a binlog position taken    *)
(* under a global read lock, then the binlog from the durable position on. *)
(* Rows are staged until the XID event of their transaction publishes them.*)
(* A statement event outside a transaction makes the collector inspect the *)
(* tables again, as they are then.                                         *)
(*                                                                         *)
(* The binlog is a sequence of events, the position of an event its place  *)
(* in it.  A row event is decoded by the number of its columns.            *)
(***************************************************************************)
EXTENDS Integers, Sequences, FiniteSets

CONSTANTS None,
          Versions,     \* schema versions, numbered from 1
          Columns,      \* version -> number of columns
          Shapes,       \* contents of a transaction: rows and savepoints
          BatchRows,    \* batch_rows
          MaxEvents,    \* bound on binlog events
          MaxSeq,       \* bound on sequence numbers, never reached
          MaxCrashes,   \* bound on crashes and lost connections
          MayPurge      \* old binlog files expire

ASSUME ColumnsAssumption == Columns \in [Versions -> Nat] /\ BatchRows \in Nat \ {0}

VARIABLES st, items, minted,   \* Queue
          binlog,       \* events written
          catalog,      \* version of the tables now
          purged,       \* events up to here have expired
          locked,       \* FLUSH TABLES WITH READ LOCK is held
          pc,
          tables,       \* version the collector decodes rows with
          boundary,     \* binlog position of the snapshot
          pos,          \* events received
          ordinal, batch,       \* rows of the transaction, and of the chunk
          crashes

queueVars == <<st, items, minted>>
sourceVars == <<binlog, catalog, purged>>
streamVars == <<pos, ordinal, batch>>
vars == <<queueVars, sourceVars, locked, pc, tables, boundary, streamVars, crashes>>

Body == [kind : {"snapshot_begin", "schema", "snapshot_rows", "snapshot_end",
                 "transaction_rows", "transaction_end", "schema_end"},
         first : 0..MaxEvents, rows : 0..BatchRows, version : Versions]

Q == INSTANCE Queue WITH Bodies <- Body, SizeOf <- [b \in Body |-> 1], LSNs <- 0..MaxEvents,
       Hashes <- Versions, Tokens <- {}, LsnBytes <- 0, MaxBytes <- MaxSeq,
       ReplayBytes <- MaxSeq, MaxGen <- MaxCrashes + 1

Msg(kind, first, rows, version) ==
  [body |-> [kind |-> kind, first |-> first, rows |-> rows, version |-> version],
   version |-> None, lsn |-> None]

Streaming == pc \notin {"down", "dead", "lock", "position", "unlock", "initialize", "begin",
                        "schema", "rows", "end", "finalize", "seal", "check"}

-----------------------------------------------------------------------------
(* The source server.                                                      *)

Written(events) ==
  /\ ~locked /\ Len(binlog) + Len(events) <= MaxEvents
  /\ binlog' = binlog \o events
  /\ UNCHANGED <<queueVars, purged, locked, pc, tables, boundary, streamVars, crashes>>

\* A committed transaction: its rows and savepoints and the XID event.
CommitTransaction(shape) ==
  /\ Written(Append([i \in DOMAIN shape |-> [kind |-> shape[i], version |-> catalog]],
                    [kind |-> "xid", version |-> catalog]))
  /\ UNCHANGED catalog

\* A rollback that leaves a statement event, without rows of the tables.
RollbackTransaction == /\ Written(<<[kind |-> "rollback", version |-> catalog]>>)
                       /\ UNCHANGED catalog

\* A transaction of tables outside the selection and without an XID event (their
\* engine is not transactional): of its events only the COMMIT reaches a case.
CommitUnselected == /\ Written(<<[kind |-> "commit", version |-> catalog]>>)
                    /\ UNCHANGED catalog

AlterTable == /\ catalog + 1 \in Versions
              /\ catalog' = catalog + 1
              /\ Written(<<[kind |-> "statement", version |-> catalog + 1]>>)

\* Files before the one a connected reader is in may expire.
PurgeLogs == /\ MayPurge
             /\ purged' \in (purged + 1)..(IF Streaming THEN pos ELSE Len(binlog))
             /\ UNCHANGED <<queueVars, binlog, catalog, locked, pc, tables, boundary, streamVars,
                            crashes>>

Source == \/ \E shape \in Shapes : CommitTransaction(shape)
          \/ RollbackTransaction \/ CommitUnselected \/ AlterTable \/ PurgeLogs

-----------------------------------------------------------------------------
(* attempt and snapshot.                                                   *)

Quiet == UNCHANGED <<sourceVars, locked, tables, boundary, streamVars, crashes>>

Fatal == /\ pc' = "dead" /\ locked' = FALSE
         /\ UNCHANGED <<queueVars, sourceVars, tables, boundary, streamVars, crashes>>

\* One staged message; room in the queue is module PgCapture's subject.
Put(m, here, next) == pc = here /\ Q!AppendMessage(m) /\ pc' = next /\ Quiet

Attempt == /\ pc = "down"
           /\ Q!Recover
           /\ tables' = catalog
           /\ pc' = IF st.Phase = "stream" THEN "check" ELSE "lock"
           /\ UNCHANGED <<sourceVars, locked, boundary, streamVars, crashes>>

LockTables == /\ pc = "lock"
              /\ locked' = TRUE /\ pc' = "position"
              /\ UNCHANGED <<queueVars, sourceVars, tables, boundary, streamVars, crashes>>

\* SHOW MASTER STATUS, the consistent snapshot and the inspection inside it.
ReadPosition ==
  /\ pc = "position"
  /\ IF catalog # tables THEN Fatal
     ELSE /\ boundary' = Len(binlog) /\ pc' = "unlock"
          /\ UNCHANGED <<queueVars, sourceVars, locked, tables, streamVars, crashes>>

UnlockTables == /\ pc = "unlock"
                /\ locked' = FALSE /\ pc' = "initialize"
                /\ UNCHANGED <<queueVars, sourceVars, tables, boundary, streamVars, crashes>>

Initialize == pc = "initialize" /\ Q!Initialize(tables) /\ pc' = "begin" /\ Quiet

StageSnapshot == \/ Put(Msg("snapshot_begin", 0, 0, tables), "begin", "schema")
                 \/ Put(Msg("schema", 0, 0, tables), "schema", "rows")
                 \/ Put(Msg("snapshot_rows", 0, 1, tables), "rows", "end")
                 \/ Put(Msg("snapshot_end", 0, 0, tables), "end", "finalize")

Finalize == pc = "finalize" /\ Q!FinalizeSnapshotLSN(boundary) /\ pc' = "seal" /\ Quiet

Seal == pc = "seal" /\ Q!Publish(boundary, TRUE) /\ pc' = "check" /\ Quiet

\* validatePosition.
Expired == st.DurableLSN < purged

\* The durable schema must be the one inspected, the position still there.
CheckPosition ==
  /\ pc = "check"
  /\ IF st.SchemaHash # tables \/ Expired THEN Fatal
     ELSE /\ pos' = st.DurableLSN
          /\ ordinal' = 0 /\ batch' = 0 /\ pc' = "event"
          /\ UNCHANGED <<queueVars, sourceVars, locked, tables, boundary, crashes>>

-----------------------------------------------------------------------------
(* stream.                                                                 *)

Next1 == binlog[pos + 1]

Received(kind) == pc = "event" /\ pos < Len(binlog) /\ Next1.kind = kind

\* Variant of Decodes: every row event is taken.
DecodesAnything == TRUE

\* makeRow compares the number of values with the number of columns.
Decodes == Columns[Next1.version] = Columns[tables]

\* A row event.  A chunk is full at BatchRows rows, or earlier by its bytes.
RowEvent ==
  /\ Received("row")
  /\ IF ~Decodes THEN Fatal
     ELSE /\ pos' = pos + 1 /\ ordinal' = ordinal + 1 /\ batch' = batch + 1
          /\ pc' \in IF batch + 1 >= BatchRows THEN {"flush"} ELSE {"event", "flush"}
          /\ UNCHANGED <<queueVars, sourceVars, locked, tables, boundary, crashes>>

Flush(next) ==
  /\ Q!AppendMessage(Msg("transaction_rows", pos - batch + 1, batch, binlog[pos].version))
  /\ batch' = 0 /\ pc' = next
  /\ UNCHANGED <<sourceVars, locked, tables, boundary, pos, ordinal, crashes>>

FlushChunk == pc = "flush" /\ Flush("event")

\* Variant of XidEvent: a transaction without captured rows is passed over.
XidEventIgnoringEmpty ==
  /\ Received("xid")
  /\ IF batch > 0 THEN Flush("event")
     ELSE IF ordinal > 0 THEN pc' = "commit" /\ UNCHANGED queueVars /\ Quiet
     ELSE /\ pos' = pos + 1
          /\ UNCHANGED <<queueVars, sourceVars, locked, pc, tables, boundary, ordinal, batch, crashes>>

\* The XID event publishes; it is consumed once the publication is done.
XidEvent == /\ Received("xid")
            /\ IF batch > 0 THEN Flush("event")
               ELSE /\ pc' = IF ordinal > 0 THEN "commit" ELSE "publish"
                    /\ UNCHANGED queueVars /\ Quiet

TransactionEnd == Put(Msg("transaction_end", pos + 1, 0, tables), "commit", "publish")

\* Variant of Publish: the position before the event becomes durable.
PublishEarly == /\ pc = "publish"
                /\ Q!Publish(IF pos > 0 THEN pos - 1 ELSE 0, FALSE)
                /\ pos' = pos + 1 /\ ordinal' = 0 /\ pc' = "event"
                /\ UNCHANGED <<sourceVars, locked, tables, boundary, batch, crashes>>

Publish == /\ pc = "publish"
           /\ Q!Publish(pos + 1, FALSE)
           /\ pos' = pos + 1 /\ ordinal' = 0 /\ pc' = "event"
           /\ UNCHANGED <<sourceVars, locked, tables, boundary, batch, crashes>>

\* COMMIT is passed over: the durable position stays where it is.
CommitEvent == /\ Received("commit")
               /\ pos' = pos + 1
               /\ UNCHANGED <<queueVars, sourceVars, locked, pc, tables, boundary, ordinal, batch,
                              crashes>>

\* ROLLBACK: an error once rows are staged, a checkpoint otherwise.
RollbackEvent == Received("rollback") /\ IF ordinal # 0 THEN Fatal
                                         ELSE pc' = "publish" /\ UNCHANGED queueVars /\ Quiet

\* Any other statement.
StatementEvent ==
  /\ Received("statement") \/ Received("savepoint")
  /\ IF ordinal # 0 THEN Fatal ELSE pc' = "refresh" /\ UNCHANGED queueVars /\ Quiet

\* refreshSchema inspects the tables as they are now.
Refresh ==
  /\ pc = "refresh"
  /\ tables' = catalog
  /\ pc' = IF catalog = tables THEN "publish" ELSE "refresh-schema"
  /\ UNCHANGED <<queueVars, sourceVars, locked, boundary, streamVars, crashes>>

Versioned(m) == [m EXCEPT !.version = tables]

RefreshSchema ==
  \/ Put(Versioned(Msg("schema", 0, 0, tables)), "refresh-schema", "refresh-end")
  \/ Put(Versioned(Msg("schema_end", 0, 0, tables)), "refresh-end", "refresh-publish")

PublishSchema ==
  /\ pc = "refresh-publish"
  /\ Q!PublishSchema(pos + 1, tables)
  /\ pos' = pos + 1 /\ pc' = "event"
  /\ UNCHANGED <<sourceVars, locked, tables, boundary, ordinal, batch, crashes>>

\* Nothing to read: GetEvent waits.
Idle == pc = "event" /\ pos = Len(binlog) /\ UNCHANGED vars

-----------------------------------------------------------------------------

Crash == /\ pc # "down" /\ crashes < MaxCrashes
         /\ crashes' = crashes + 1 /\ pc' = "down" /\ locked' = FALSE
         /\ UNCHANGED <<queueVars, sourceVars, tables, boundary, streamVars>>

Exited == pc = "dead" /\ UNCHANGED vars

Init == /\ Q!Open
        /\ binlog = <<>> /\ catalog = 1 /\ purged = 0 /\ locked = FALSE
        /\ pc = "down" /\ tables = 1 /\ boundary = 0
        /\ pos = 0 /\ ordinal = 0 /\ batch = 0 /\ crashes = 0

Snapshot == \/ LockTables \/ ReadPosition \/ UnlockTables \/ Initialize \/ StageSnapshot
            \/ Finalize \/ Seal

Stream == \/ RowEvent \/ FlushChunk \/ XidEvent \/ TransactionEnd \/ Publish \/ CommitEvent
          \/ RollbackEvent \/ StatementEvent \/ Refresh \/ RefreshSchema \/ PublishSchema \/ Idle

Collector == Attempt \/ Snapshot \/ CheckPosition \/ Stream

Next == Collector \/ Source \/ Crash \/ Exited

Spec == Init /\ [][Next]_vars

FairSpec == Spec /\ WF_vars(Collector)

-----------------------------------------------------------------------------
(* Properties.                                                             *)

\* Types of the collector's fields.
TypeOK == /\ tables \in Versions /\ boundary \in 0..MaxEvents /\ pos \in 0..MaxEvents
          /\ batch \in 0..BatchRows /\ batch <= ordinal
          /\ st.NextSeq < MaxSeq

\* Published chunks that hold row event n.
Holding(n) == {k \in 1..st.ReadySeq : LET b == items[k].body IN
                 b.kind = "transaction_rows" /\ n \in b.first..(b.first + b.rows - 1)}

\* Once the snapshot is sealed, every row event between the snapshot and the
\* durable position is published exactly once, in binlog order, and only whole
\* transactions are visible; a position that expired stops the capture instead
\* of skipping changes ("refusing to skip changes").
ExactlyOnce ==
  st.Phase = "stream" =>
    /\ \A n \in DOMAIN binlog : binlog[n].kind = "row" =>
         Cardinality(Holding(n)) = IF n > st.SnapshotLSN /\ n <= st.DurableLSN THEN 1 ELSE 0
    /\ \A m, n \in DOMAIN binlog : \A j \in Holding(m), k \in Holding(n) : m < n => j <= k
    /\ items[st.ReadySeq].body.kind # "transaction_rows"

\* "a complete schema set is published atomically before subsequent row events
\* are decoded with the new structure" (docs/mysql.md): rows are stamped with the
\* version of the tables they were written to, and follow the schema_end of that
\* version unless it is the snapshot's.
RowsUnderTheirSchema ==
  \A k \in 1..st.NextSeq : items[k].body.kind = "transaction_rows" =>
    /\ items[k].SchemaVersion = items[k].body.version
    /\ \/ items[k].SchemaVersion = items[1].SchemaVersion
       \/ \E e \in 1..k-1 : items[e].body.kind = "schema_end"
                            /\ items[e].SchemaVersion = items[k].SchemaVersion

\* The capture reaches the end of the binlog in spite of crashes and reconnects,
\* unless it stopped with an error (Run): what its durable position leaves
\* behind are at most the COMMITs that stream passes over.
CatchesUp ==
  <>[](pc = "dead" \/ /\ st.Phase = "stream"
                      /\ \A n \in st.DurableLSN + 1 .. Len(binlog) : binlog[n].kind = "commit")
=============================================================================

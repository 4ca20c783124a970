---------------------------- MODULE LegacyOutbox ----------------------------
(***************************************************************************)
(* SQL Server legacy capture, internal/sqlserverlegacy: triggers write the *)
(* row images of every DML statement to an outbox table inside the source  *)
(* transaction; the collector takes a snapshot under table locks, discards *)
(* the outbox events the snapshot already shows, and then moves one        *)
(* statement at a time from the outbox to the durable queue.               *)
(*                                                                         *)
(* A statement is the identity of its first event and its event count.     *)
(* Identities are drawn when the statement runs, so transactions may       *)
(* commit out of identity order.  A reader may pass over uncommitted       *)
(* events (row versioning) or wait for them (locking); passing over them   *)
(* allows every order waiting allows.                                      *)
(***************************************************************************)
EXTENDS Integers, FiniteSets, FiniteSetsExt

CONSTANTS None,
          Versions,     \* schema versions, numbered from 1
          EventCounts,  \* row images a statement may write
          Rival,        \* another collector is configured for the same source
          MaxId,        \* bound on change_id
          MaxSeq,       \* bound on sequence numbers, never reached
          MaxCrashes    \* bound on crashes and lost connections

VARIABLES st, items, minted,   \* Queue
          catalog,      \* version of the source schema
          drawn,        \* last change_id drawn
          open,         \* statements of transactions still open
          committed,    \* statements committed
          outbox,       \* visible events: change_id and statement
          locked,       \* the snapshot holds TABLOCKX on every table
          lease,        \* who owns the application lock
          taken,        \* statements the other collector consumed
          pc, expected, boundary, statement,   \* the collector
          covers,       \* statements the last snapshot read shows
          crashes

queueVars == <<st, items, minted>>
sourceVars == <<catalog, drawn, open, committed, outbox>>
localVars == <<expected, boundary, statement, covers>>
vars == <<queueVars, sourceVars, locked, lease, taken, pc, localVars, crashes>>

Statement == [id : 1..MaxId, n : EventCounts]

Body == [kind : {"snapshot_begin", "schema", "snapshot_rows", "snapshot_end",
                 "transaction_rows", "transaction_end"},
         statement : Statement \cup {None}]

Q == INSTANCE Queue WITH Bodies <- Body, SizeOf <- [b \in Body |-> 1], LSNs <- 0..MaxId,
       Hashes <- Versions, Tokens <- Statement, LsnBytes <- 0, MaxBytes <- MaxSeq,
       ReplayBytes <- MaxSeq, MaxGen <- MaxCrashes + 1

Msg(kind, s, lsn) == [body |-> [kind |-> kind, statement |-> s], version |-> None, lsn |-> lsn]

Larger(a, b) == IF a > b THEN a ELSE b

-----------------------------------------------------------------------------
(* Applications at the source.                                             *)

\* The trigger fires: events are written but not yet visible.  TABLOCKX keeps
\* writers out.
Execute(n) == /\ ~locked /\ drawn + n <= MaxId
              /\ open' = open \cup {[id |-> drawn + 1, n |-> n]}
              /\ drawn' = drawn + n
              /\ UNCHANGED <<queueVars, catalog, committed, outbox, locked, lease, taken, pc,
                             localVars, crashes>>

Events(s) == {[id |-> i, statement |-> s] : i \in s.id..(s.id + s.n - 1)}

Commit(s) == /\ open' = open \ {s} /\ committed' = committed \cup {s}
             /\ outbox' = outbox \cup Events(s)
             /\ UNCHANGED <<queueVars, catalog, drawn, locked, lease, taken, pc, localVars, crashes>>

Rollback(s) == /\ open' = open \ {s}
               /\ UNCHANGED <<queueVars, catalog, drawn, committed, outbox, locked, lease, taken, pc,
                              localVars, crashes>>

AlterTable == /\ ~locked /\ open = {} /\ catalog + 1 \in Versions
              /\ catalog' = catalog + 1
              /\ UNCHANGED <<queueVars, drawn, open, committed, outbox, locked, lease, taken, pc,
                             localVars, crashes>>

Source == \/ \E n \in EventCounts : Execute(n)
          \/ \E s \in open : Commit(s) \/ Rollback(s)
          \/ AlterTable

-----------------------------------------------------------------------------
(* Steps of attempt.                                                       *)

Go(next) == pc' = next /\ UNCHANGED <<sourceVars, locked, lease, taken, localVars, crashes>>

\* Connections close with the attempt: their session's lock goes with them.
Stopped(next) == /\ pc' = next /\ locked' = FALSE
                 /\ lease' = IF lease = "us" THEN None ELSE lease
                 /\ UNCHANGED <<queueVars, sourceVars, taken, localVars>>

Fatal == Stopped("dead") /\ UNCHANGED crashes

Recover == /\ pc = "down"
           /\ Q!Recover
           /\ Go("lease")

\* sp_getapplock with no timeout, owned by the session of one connection.
AcquireLease == /\ pc = "lease"
                /\ IF lease # None THEN Fatal
                   ELSE /\ lease' = "us" /\ pc' = "inspect"
                        /\ UNCHANGED <<queueVars, sourceVars, locked, taken, localVars, crashes>>

\* A schema change after the snapshot was sealed is refused.
Inspect ==
  /\ pc = "inspect"
  /\ IF st.Phase = "stream" /\ st.SchemaHash # catalog THEN Fatal
     ELSE /\ expected' = catalog
          /\ IF st.Phase = "stream"
             THEN pc' = "discard" /\ boundary' = st.SnapshotLSN
             ELSE pc' = "initialize" /\ UNCHANGED boundary
          /\ UNCHANGED <<queueVars, sourceVars, locked, lease, taken, statement, covers, crashes>>

Initialize == /\ pc = "initialize"
              /\ Q!Initialize(expected)
              /\ Go("lock")

\* TABLOCKX waits for every transaction that changed the tables.
LockTables == /\ pc = "lock" /\ open = {}
              /\ locked' = TRUE /\ pc' = "boundary"
              /\ UNCHANGED <<queueVars, sourceVars, lease, taken, localVars, crashes>>

\* MAX(change_id), 0 when there are no events.
Highest == IF outbox = {} THEN 0 ELSE Max({e.id : e \in outbox})

ReadBoundary == /\ pc = "boundary"
                /\ boundary' = Highest /\ covers' = committed
                /\ pc' = "snapshot_begin"
                /\ UNCHANGED <<queueVars, sourceVars, locked, lease, taken, expected, statement, crashes>>

\* One staged message; room in the queue is module PgCapture's subject.
Put(kind, s, lsn, next) == /\ pc = kind
                           /\ Q!AppendMessage(Msg(kind, s, lsn))
                           /\ Go(next)

StageSnapshot == \/ Put("snapshot_begin", None, None, "schema")
                 \/ Put("schema", None, None, "snapshot_rows")
                 \/ Put("snapshot_rows", None, None, "snapshot_end")
                 \/ Put("snapshot_end", None, None, "unlock")

\* The transaction commits: writers go on before the snapshot is sealed.
UnlockTables == /\ pc = "unlock"
                /\ locked' = FALSE /\ pc' = "finalize"
                /\ UNCHANGED <<queueVars, sourceVars, lease, taken, localVars, crashes>>

Finalize == /\ pc = "finalize"
            /\ Q!FinalizeSnapshotLSN(boundary)
            /\ Go("seal")

Seal == /\ pc = "seal"
        /\ Q!Publish(boundary, TRUE)
        /\ Go("discard")

\* discardSnapshotEvents: one event per transaction, in order.
DiscardEvent ==
  /\ pc = "discard"
  /\ LET old == {e \in outbox : e.id <= boundary}
     IN  IF old = {} THEN Go("cleanup") /\ UNCHANGED queueVars
         ELSE /\ outbox' = outbox \ {CHOOSE e \in old : \A f \in old : e.id <= f.id}
              /\ UNCHANGED <<queueVars, catalog, drawn, open, committed, locked, lease, taken, pc,
                             localVars, crashes>>

-----------------------------------------------------------------------------
(* Polling.                                                                *)

\* deleteStatement.
Deleted(s) == {e \in outbox : e.statement # s}

\* Variant of CleanupDelete: the token is dropped without the deletion.
CleanupForgotten ==
  /\ pc = "cleanup"
  /\ IF st.SourceCleanup = None THEN Go("poll") /\ UNCHANGED queueVars
     ELSE /\ statement' = st.SourceCleanup /\ pc' = "clear"
          /\ UNCHANGED <<queueVars, sourceVars, locked, lease, taken, expected, boundary, covers, crashes>>

\* finishSourceCleanup: the statement may be gone already.
CleanupDelete ==
  /\ pc = "cleanup"
  /\ IF st.SourceCleanup = None THEN Go("poll") /\ UNCHANGED queueVars
     ELSE /\ outbox' = Deleted(st.SourceCleanup)
          /\ statement' = st.SourceCleanup /\ pc' = "clear"
          /\ UNCHANGED <<queueVars, catalog, drawn, open, committed, locked, lease, taken, expected,
                         boundary, covers, crashes>>

\* Variant of Oldest: events up to the durable position are passed over.
OldestAboveCheckpoint == LET new == {e \in outbox : st.DurableLSN # None /\ e.id > st.DurableLSN}
                         IN  IF new = {} THEN None
                             ELSE CHOOSE e \in new : \A f \in new : e.id <= f.id

\* SELECT TOP 1 ... ORDER BY change_id, whatever was published before.
Oldest == IF outbox = {} THEN None
          ELSE CHOOSE e \in outbox : \A f \in outbox : e.id <= f.id

\* The schema check of poll, and readStatement.  With nothing to read it waits.
ReadStatement ==
  /\ pc = "poll"
  /\ IF catalog # expected THEN Fatal
     ELSE IF Oldest = None THEN UNCHANGED vars
     ELSE /\ statement' = Oldest.statement /\ pc' = "transaction_rows"
          /\ UNCHANGED <<queueVars, sourceVars, locked, lease, taken, expected, boundary, covers, crashes>>

LastId == statement.id + statement.n - 1

Checkpoint == Larger(st.DurableLSN, LastId)

StageStatement == \/ Put("transaction_rows", statement, Checkpoint, "transaction_end")
                  \/ Put("transaction_end", statement, Checkpoint, "publish")

PublishStatement == /\ pc = "publish"
                    /\ Q!PublishSource(Checkpoint, FALSE, statement)
                    /\ Go("delete")

\* A statement that has disappeared is an error here.
DeleteStatement ==
  /\ pc = "delete"
  /\ IF Deleted(statement) = outbox THEN Fatal
     ELSE /\ outbox' = Deleted(statement) /\ pc' = "clear"
          /\ UNCHANGED <<queueVars, catalog, drawn, open, committed, locked, lease, taken,
                         localVars, crashes>>

ClearCleanup == /\ pc = "clear"
                /\ Q!ClearSourceCleanup(statement)
                /\ Go("poll")

-----------------------------------------------------------------------------
(* Failures, and another collector with a queue of its own.                *)

Crash == /\ pc # "down" /\ crashes < MaxCrashes
         /\ crashes' = crashes + 1
         /\ Stopped("down")

Exited == pc = "dead" /\ UNCHANGED vars

\* The connection that owns the application lock is lost.  The collector works
\* on other connections of the pool and does not look at this one again.
SessionLost == /\ Rival /\ lease = "us" /\ crashes < MaxCrashes
               /\ lease' = None /\ crashes' = crashes + 1
               /\ UNCHANGED <<queueVars, sourceVars, locked, taken, pc, localVars>>

RivalStarts == /\ Rival /\ lease = None
               /\ lease' = "rival"
               /\ UNCHANGED <<queueVars, sourceVars, locked, taken, pc, localVars, crashes>>

RivalConsumes == /\ lease = "rival" /\ ~locked
                 /\ Oldest # None
                 /\ taken' = taken \cup {Oldest.statement}
                 /\ outbox' = Deleted(Oldest.statement)
                 /\ UNCHANGED <<queueVars, catalog, drawn, open, committed, locked, lease, pc,
                                localVars, crashes>>

Init == /\ Q!Open
        /\ catalog = 1 /\ drawn = 0 /\ open = {} /\ committed = {} /\ outbox = {}
        /\ locked = FALSE /\ lease = None /\ taken = {}
        /\ pc = "down" /\ expected = 1 /\ boundary = 0 /\ statement = None /\ covers = {}
        /\ crashes = 0

Collector == \/ Recover \/ AcquireLease \/ Inspect \/ Initialize \/ LockTables \/ ReadBoundary
             \/ StageSnapshot \/ UnlockTables \/ Finalize \/ Seal \/ DiscardEvent
             \/ CleanupDelete \/ ReadStatement \/ StageStatement \/ PublishStatement
             \/ DeleteStatement \/ ClearCleanup

Next == Collector \/ Source \/ Crash \/ Exited \/ SessionLost \/ RivalStarts \/ RivalConsumes

Spec == Init /\ [][Next]_vars

\* The collector keeps running, and source transactions end.
FairSpec == Spec /\ WF_vars(Collector) /\ WF_vars(\E s \in open : Commit(s) \/ Rollback(s))

-----------------------------------------------------------------------------
(* Properties.                                                             *)

\* Types of the collector's fields.
TypeOK == /\ expected \in Versions /\ boundary \in 0..MaxId
          /\ statement \in Statement \cup {None}
          /\ lease \in {None, "us", "rival"}
          /\ taken \subseteq committed /\ covers \subseteq committed
          /\ st.NextSeq < MaxSeq

\* Sequence numbers under which statement s is published whole.
PublishedAt(s) == {k \in 2..st.ReadySeq : /\ items[k].body = [kind |-> "transaction_end", statement |-> s]
                                          /\ items[k-1].body = [kind |-> "transaction_rows", statement |-> s]}

\* "这个顺序的故障窗口只会重复，不会漏数" (docs/sqlserver-legacy.md): once the
\* snapshot is sealed, a committed statement is in the snapshot, published, or
\* complete in the outbox, unless the other collector took it.
NothingLost ==
  st.Phase = "stream" =>
    \A s \in committed : \/ s \in covers \/ s \in taken
                         \/ PublishedAt(s) # {}
                         \/ Events(s) \subseteq outbox

\* The cleanup token makes the capture exactly once within a generation: no
\* statement is published twice, nor when the snapshot shows it already.
PublishedOnce == st.Phase = "stream" =>
                   \A s \in committed : Cardinality(PublishedAt(s)) <= (IF s \in covers THEN 0 ELSE 1)

\* Every committed statement is published once, with its own collector's
\* crashes and a rival at any moment (poll, finishSourceCleanup).
ExactlyOnce == NothingLost /\ PublishedOnce

\* "拒绝两个采集器同时消费" (docs/sqlserver-legacy.md): while this collector works
\* on the outbox no other one owns the lease.
\* The code does not keep it, since the session of the lock is not watched (README.md).
OneConsumer == pc \notin {"down", "lease", "dead"} => lease # "rival"

\* Everything committed leaves the outbox in the end, in whatever order the
\* transactions committed, unless the collector refused a changed schema or another
\* collector has the lease.
OutboxDrains == <>[](pc = "dead" \/ lease = "rival" \/ (outbox = {} /\ open = {}))
=============================================================================

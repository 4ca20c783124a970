# Verification of go-sync

go-sync replicates database tables and files. A collector captures changes from
one source, stages them in a durable local queue and delivers them over HTTP or
gRPC; go-sync-server stores them in PostgreSQL staging tables and applies them.
This directory holds TLA+ models of that pipeline, the TLC runs that check them
on small instances, and TLAPS proofs about the queue, PostgreSQL and SQL Server
capture, the HTTP delivery, the gRPC session, the PostgreSQL target, the server's
reload and the capture lifecycle. `PROJECT.json` lists runs, mutants, the map from definitions to
source lines, findings, hazards and theorems.

## The system and its modules

```
 source database / files
        |  internal/capture, mysql, sqlserver, sqlserverlegacy, filewatch
        v                                 PgCapture MyBinlog CdcPoll CdcChanges
 capture --- internal/app (Controller)    LegacyOutbox FileWatch
        |  Append, Publish
        v
 queue     internal/queue                 Queue (implements Outbox)
        |  Peek/Get, Ack
        v
 delivery  internal/delivery              Delivery (HTTP), Session (gRPC)
        |
        v
 server    internal/server                Session, Reload, Reconciliation
        |  store
        v
 target    PostgreSQL, file store         Target
```

| Part | Module | State and actions |
|---|---|---|
| `internal/queue` | `Queue` | `st` is the saved `State`, `items` the bucket, `minted` the generations handed out. One action per exported transaction of `Store`. Free disk space is folded into the capacity; the age limit of the archive is a choice of which messages are old. |
| its promise | `Outbox` | Two sequences, `pending` and `staged`; stage, commit, discard, consume. |
| `internal/server/target.go`, `schema.go` | `Target` | `db` is the `sync_state` row with the staging tables, `tables` the business tables as bags of rows, `files` the object store, `types` the column cache of each process. `store` is one database transaction and so one action, `Store`, whose commit may take effect without the process learning it (`Unanswered`); the history variable `informed` has the processes that no ALTER TABLE passed unnoticed. `RolledBack` is the same call failing late, which leaves of the file it was writing the old content, the new one or, in the gap between removal and rename of the directory store, nothing. |
| `delivery/grpc.go`, `server.go` Connect, `server/reconcile.go` | `Session` | One stream as two FIFO channels, the handler of each server process, the advisory lease, pausing for a reconciliation. Composes `Queue` and `Target`. |
| `delivery/delivery.go` | `Delivery` | The HTTP sender with requests in flight and a receiver that keeps the contract of `docs/protocol.md` (external). Composes `Queue`. |
| `internal/app` | `Controller` | The capture goroutines, `cancel`/`done`, and the delivery goroutine that calls Reconcile, Resume and Repair. Uses `Outbox` for the queue. |
| `server/reconcile.go`, `server.go` Connect, audit rows | `Reconciliation` | Extends `Controller`: the server's daily schedule, the retry, one run with a request and an answer per table, the comparison, repair within its rate limit or resumption, and the audit row that the rate limit is read from. Streams break, answers and audit rows are lost, both processes crash, the application writes at any moment. |
| `internal/reconcile` | `Digest` | Rows as pairs of key and hash, buckets with count, sum and exclusive or, modulo a width. |
| `internal/capture` | `PgCapture` | WAL as a sequence of transactions, the slot's confirmed position, the decoder. A schema version has columns, a key and a replica identity (`Schemas`), a wal2json record the columns it names, and `convert` compares the two. Composes `Queue`. |
| `internal/mysql` | `MyBinlog` | The binlog as a sequence of events, expiry, DDL seen later than it happened, and the COMMIT statements of other tables that `stream` passes over. Composes `Queue`. |
| `internal/sqlserver` | `CdcPoll` | The transaction log, the capture and cleanup jobs behind it, the fence, polls in a snapshot-isolation view, deadlines. Composes `Queue`. |
| `sqlserver/stream.go` readChanges, `rows.go` | `CdcChanges` | Joined with `CdcPoll` in `MCCdcPoll`. Operators for the change rows the server records of a transaction (external) and for their ordering, pairing and conversion to row events. `Apply` is the server's `applyRow`, with the rows it refuses; the copy it leaves is compared with what the transaction did to the tables. |
| `internal/sqlserverlegacy` | `LegacyOutbox` | The outbox table with identities drawn before commit, the application lock, the cleanup token. Composes `Queue`. |
| `internal/filewatch` | `FileWatch` | Files with data and time, the scan in progress, the manifest. Composes `Queue`. |
| `server.go` reload, acquire, release | `Reload` | Configuration, target map and connected flags under the mutex; local variables of each reload and each stream. |

Every `MC*` module instantiates one of these; a `.cfg` gives the bounds.

Conventions: an LSN, binlog position or CDC LSN is the place of an event in its
log; a payload is its own digest; a schema hash is a version; messages count one
byte each except in `Queue`, which has real lengths. A crash is a step that loses
every local variable and keeps `st`, `items` and the databases. Definitions named
"Variant of X" are deliberate errors; they are used only by the mutants.

## Runs

| Run | What it shows |
|---|---|
| `queue` | Any order of queue transactions, from a new database or one older than the replay archive: contiguous messages of one generation (`ItemsExact`), exact byte counts within the limits (`Accounted`), and `Outbox` is implemented, so that nothing published is lost. |
| `target` | Snapshots, transactions, schema refreshes and file batches of two generations in any order, repeated or failing late: each batch is applied once, complete, and under its schema version; each path is what its last complete batch says although the object store is written before the database commits. A process that opened the target or saw its own schema change committed since the last ALTER TABLE can apply the rows of the active version (`InformedCacheCovers`), late failures and commits without an answer included. |
| `session` | A collector and two server processes with broken streams and a reconciliation: no acknowledgement before durability, one log on both sides, one writer, a repair only when everything is delivered, and the target converges, up to the first transaction without rows (see below), unless it is left with another generation for ever. |
| `delivery` | HTTP with lost, late and repeated requests: in order, no acknowledgement refused (both in `DeliveredInOrder`), everything delivered. |
| `reconcile` | `Reconciliation` with `Controller` and `Digest`. Scans run only while nothing is captured and nothing is queued, and captures never overlap, but for a capture that outlived the deadline of `stop`; digests agree exactly when the rows do, and a mismatch is reported only for an edited target, writes the capture had not come to, a late capture or a pending repair; a day has one run unless one fails or the server restarts; repairs keep their interval as far as audit rows were stored; capture always resumes. |
| `pgcapture` | Transactions exactly once and under a schema they fit, the one in force (`RowsFitTheirSchema`), through a crash at every step, redelivery, refreshes and a full queue; feedback never passes what is durable; everything is published unless capture ends with an error. |
| `mysql` | Row events exactly once and under the structure they were written to, with expiry, rollbacks, savepoints and DDL, for structures of different widths. The durable position reaches the end of the binlog but for COMMIT statements (`CatchesUp`). |
| `cdc` | The fence and the polls publish each transaction once whatever the delay of the capture job and the moment of cleanup; idle tables do not hold the position back. The row events made of the images of a transaction are accepted by the server and do to its copy what the transaction did (`EventsFaithful`). |
| `legacy` | Statements committing out of identity order are neither lost nor published twice (`ExactlyOnce`), and the outbox drains unless the collector stopped or lost its lock to a rival. |
| `filewatch` | A published file is one consistent content; files that stay converge. |
| `reload` | Reloads that do not overlap close only targets that are in no use (`OpenWhileUsed`); settings and targets stay paired; a replaced target is closed once its stream ends its batch. |
| `session_lost_ack` | Expected to fail: one lost gRPC acknowledgement, the server goes on from `received_seq + 1`, and the collector calls that acknowledgement non-contiguous, for ever. |

### Where the code and its documentation disagree

`session_lost_ack` is kept as a run; its finding in `PROJECT.json` quotes the
sentences. The models show other disagreements. For each, this table gives the
property and the change to the configuration under which TLC finds the
counterexample; the properties of the passing runs are stated so that they hold
beside them.

| Statement | What the code does | Property and configuration |
|---|---|---|
| docs/server.md:137, a repair replaces the target | `server.go:218` consumes the repair authorisation first; if the stream breaks before `snapshot_begin` is stored the new generation is refused for ever | `RepairCompletes` in `MCSession.cfg` |
| docs/server.md:53 and 74, several servers and online schema changes | `target.go:386` invalidates the column cache of its own process only, and only if Commit returned nil; after a failover, or when the answer of the commit is lost, a process refuses rows with a new column until it opens the target again | `ActiveSchemaApplicable` in `MCTarget.cfg` |
| docs/protocol.md:56 and 77, a transaction may have no rows | `capture/decode.go:98` sends the `transaction_end` of a transaction without captured rows; `target.go:338` refuses it, since no transaction is open, at every attempt, and nothing behind it is delivered | `EmptyTransactionsPass` in `MCSession.cfg` |
| docs/server.md:70, columns are added automatically | `target.go:863` reads the columns outside the transaction that added them, so the snapshot that needs the column can not be published | `SnapshotPublishable` in `MCTarget.cfg` with `v2` for `v1` in the snapshot of `RowBodies` |
| reconcile.go:14, lifecycle changes are serialised | `reconcile.go:52` gives up at the deadline; Resume then starts a second capture beside the first | `SerializedCaptures` in `MCReconciliation.cfg` |
| docs/server.md:139, repairs are rate limited | `server/reconcile.go:185` (repairAllowed) reads the last repair from the audit rows, which are written after the repair; when the answer or the insertion is lost, or the server crashes in between, the next run repairs again within the interval | `RepairsRateLimited` in `MCReconciliation.cfg` |
| docs/architecture.md:16, a full queue pauses capture | `capture/batch.go:43` reads the state after the failed Append; an acknowledgement in between ends capture although there is room | `CapacityErrorReal` in `MCPgCapture.cfg` |
| README.md:102 and docs/architecture.md:16 | `sqlserver/collector.go:125`: `query_timeout` passes while append waits for the delivery, and the collector exits | `WaitsForDelivery` in `MCCdcPoll.cfg` |
| docs/architecture.md:16 | `filewatch/collector.go:304` appends without waiting and exits on a full queue | `CapacityErrorReal` in `MCFileWatch.cfg` with `MaxBytes = 6` |
| docs/server.md:96, changes missed while offline are recovered | `filewatch/collector.go:138` saves the manifest after the scan; a file published before a crash and removed before the restart is never reported as deleted | `ReplicaMatchesScan` in `MCFileWatch.cfg` |
| docs/mysql.md:21, rows are decoded with their structure | `mysql/stream.go:158` inspects the catalogue of the moment; rows between two DDL statements get the later structure when the column counts agree | `RowsUnderTheirSchema` in `MCMyBinlog.cfg` with `Columns <- Renamed` |
| docs/sqlserver-legacy.md:10, no two collectors | `sqlserverlegacy/collector.go:84` does not watch the session that owns the lock; when it is lost a second collector is admitted | `OneConsumer` in `MCLegacyOutbox.cfg` |
| docs/server.md:123, one atomic switch of validated targets | `server.go:440` does not exclude another reload; the first can close a target that the second keeps | `ActiveTargetOpen` in `MCReload.cfg` with `Reloads = {r1, r2}` |

Two more limits of the code contradict no document. A row of the PostgreSQL capture
is stamped with a version it fits, which need not be the one it was written under: a
deletion names the key only, so one from before an ALTER TABLE that keeps the key
passes `convert` under the new version. And a COMMIT statement event, which ends a
transaction of tables with another engine than InnoDB, moves the position of the
MySQL stream but not the durable one (`mysql/stream.go:118`). If nothing else is
written until the binlog files expire, the next connection finds its position gone
and stops (`Expired`).

### Bounds

Sequence numbers, log lengths, crashes, acknowledgements, generations and writes
are bounded in guards by the constants named `Max*`. They are chosen so that the
cases that matter happen: in `queue` the third large message exceeds the limit
and the archive holds one large message; in the capture runs a transaction needs
more than one chunk, there is a crash at every step and another source event
after it; in `pgcapture` the queue holds four messages, so the snapshot just fits
a transaction of four rows fits or not depending on how it is cut, and the table is
given a key by one ALTER TABLE and loses a column by the next, so that a record may
fit the tables, not fit them or lack what identifies its row; in `target` two generations and two schema versions meet; in `session`
a stream breaks, is replaced, and breaks again while a reconciliation is on; in
`reload` one target can be replaced while streams of either syncer come and go,
and larger instances are left to the theorems; in `reconcile` there are two tables,
a write may fall between any two steps, a day has two ticks and the repair interval
one, and three slots let one capture outlive its deadline while another starts
(`MaxLate`); in `cdc` a transaction has two operations on a keyed table with a MAX
and a LOB column and on a keyless one, only the first with command numbers.
`MaxSeq` in the capture modules is never reached: an Append that met it would stop
the capture without an error, which their liveness properties exclude. `TypeOK`
of each module documents its state; it holds on these instances but is left out
of the runs, and for `Queue` and `Reload` it is proved. Deadlock is checked in every run: where a
collector exits for good the model has an explicit idle step.

### Fairness

`session`, `delivery`, `reconcile`, `reload` and the capture runs check liveness
and safety together under a fair specification; fairness does not restrict what
the invariants see. They assume weak fairness of the steps of goroutines that the code runs
in a loop (capture attempts, the sender, handlers, reloads), of the source's own
jobs (the CDC capture job, open transactions ending), of the deadline of a wait
for the fence (it is a context deadline, so it passes) and of the delivery where
the capture waits for it. Faults are bounded and never fair. `Reload` also
assumes strong fairness of a frame that closes the batch, since a collector only
publishes whole batches and sends idle frames in between.

## Proofs

| Module | Theorems |
|---|---|
| `QueueProofs` | Lemmas about the sum of message lengths over a range of sequence numbers (splitting, extending, agreement). `Invariance`, and from it `TypeCorrect`, `GapFree`, `AccountingExact` and `PublishedNeverLost`, for all message sizes, limits and numbers of messages. `QueueImplementsOutbox`: every queue transaction is an outbox step or invisible. |
| `ReloadProofs` | `PairingHolds`: settings and targets stay paired, however many reloads overlap. `InUseStaysOpen`: with at most one reload at a time no target of the map or of a connected stream is closed. Both for any number of syncers, streams and targets. |
| `ControllerProofs` | `CapturesSerialized`: captures never overlap but for those that outlived the deadline of `stop`. `ScansQuiesced`: a scan runs only while its capture is stopped and the queue is delivered. For any number of capture slots, queue length and requests. |
| `TargetProofs` | `OpenBatchAlwaysStaged`, `BarrierAlwaysHolds`, `AckedIsAlwaysStored` and `FilesAlwaysMatchLog`, for any messages, tables, paths, contents, schema versions and server processes; `RowsAppliedExactlyOnce`: the tables of the snapshot hold what the rows of the messages up to `applied_seq` add up to, each counted once; `InformedCacheAlwaysCovers`: the cached columns of a process that has not missed an ALTER TABLE cover the active version. |
| `DeliveryProofs` | `AlwaysInOrder`: HTTP delivery is in order, without repetition, and never acknowledges what the receiver has not stored, for any number of requests in flight and of restarts. |
| `CdcPollProofs` | `AlwaysExactlyOnce`: SQL Server capture publishes exactly the transactions between what the snapshot covers and the durable position, each once, for any log, queue capacity and timing of the capture and cleanup jobs. |
| `PgCaptureProofs` | `PublishedExactlyOnce`: PostgreSQL capture publishes every transaction between the snapshot's point and the durable position once, complete, closed once and in commit order. `RowsFitAlways`: each row fits the schema version it is stamped with, and that version is in force at its place in the log. `SlotStaysBehind`: the slot never confirms what is not durable. For any schemas, WAL, batch and queue size, and any crashes, redelivered transactions and refreshes. |
| `SessionProofs` | `AcknowledgedIsStored`, `OneLog`, `LeaseOrdersStores` and `RepairFindsDrained`: what the queue lets go of is in the target, both hold the same log, the holder of the lease only meets the event that is next, and a repair request finds nothing undelivered. For any number of server processes, broken streams, crashes, lost leases and reconciliations. |

The inductive invariant of the queue, `IndInv`, is the conjunction of the type
invariant, cursor order, contiguity, one generation, byte accounting and limits.
No conjunct is inductive alone: Ack subtracts the length of the message at
`DeliveredSeq + 1`, which exists only by contiguity; Recover subtracts the lengths
of the staged messages, which is what `Bytes` holds for them only by the exact
accounting; eviction stops at the delivered cursor only by cursor order. Each
action has a lemma that it preserves the invariant, and `NextInv` combines them.
The assumptions are those on the constants in `Queue`: sizes and limits are
natural numbers.

`Reload` needs two inductive invariants. `PairInv` adds to the pairing of the map
the pairing of what each running reload has read and opened, because the switch
copies the latter into the former. `UseInv` adds who owns a target: a stream uses
a target of its own syncer and excludes other streams of that syncer, a reload's
new targets are known to nobody else until the switch, and what a reload or a
stream has decided to close, but not closed yet, is unused. The last part is what
a second reload breaks, so the theorem assumes one reload at a time; the `reload`
run has one for the same reason, and overlapping reloads are left to
`PairingHolds`.
The assumption on the constants is `SyncersAssumption`.

The invariant of `Controller`, `CtlInv`, says of every slot that runs a capture that
it is the one `done` stands for or one that was given up at the deadline; that the
last capture is over, or was given up, whenever `cancel` is nil; that `cancel` is nil
throughout a reconciliation; and that the queue is delivered while a scan runs. The
theorems only speak of the slots and the queue, but starting a capture keeps them
apart only because of what `cancel = nil` means, and that depends on the step of the
stream goroutine. The assumption is `SlotsAssumption`: more slots than captures that
may be given up, so that a start always finds a free one.

`Target` works on the metadata of one generation, so its invariant `MetaInv(d)` is
stated of a metadata record: it holds of a fresh one and `After` preserves it for
every message `Store` admits; a new generation starts from a fresh record. Its four
parts need each other. `Phased` says where the log has its `snapshot_begin` and
`snapshot_end`; `Batched` says that at most one batch is open, that it is staged and
that nothing else is; `Versioned` says that the saved schema version is the one of
the last complete schema set in the log, and that no refresh is forgotten while none
is pending. `BarrierHolds` alone is not inductive, since it says nothing of the
saved version that the next row message is compared with. `FilesMatchLog` also needs
that the message to be redelivered after a late failure is the next of the log
(`RetryIsNext`): if another message could be stored first, what the failed attempt
left in the object store would stay there. `InformedCacheCovers` needs that the
columns of the tables cover the active version (`CacheInv`), and that what an informed
process has cached is what the tables have; ALTER TABLE makes every process uninformed
but the one that sees it committed, and that one drops its cache. The assumptions on the constants are in `TargetAssumption`.

`RowsAppliedExactlyOnce` compares two computations: the rows that `store` applied
batch by batch, from the staged chunks, and the sum over the whole log. Its
invariant `TablesInv` adds to `MetaInv` that what is staged is exactly the messages
after `applied_seq` (`Content`), so that a batch, once it is closed, brings the rows
the log has gained. Both sides are recursive functions over lists. The lemmas about
them (`RunUnique`, `JoinedTail`, `ResultOfBoth`: the result of two lists joined is
that of the second, started from the result of the first) are proved by induction
along an interval, with the property given as a set and the induction resting on
the least element of its complement (`UpTo`, `FromZero`). `BodyAssumption` says what
collectors send: rows of configured tables, no rows in file batches, and no
snapshot rows in a transaction.

`DeliveredInOrder` is not inductive either: whether the receiver may append a
request depends on where the request comes from. `DeliveryInv` says of every request
on its way, given up or not, that its message is in the receiver's log or is the
very next one, and of an answer that the message it acknowledges is stored. Of the
queue it needs cursor order, the presence of what is not acknowledged, and one
generation.

`CaptureInv` of `CdcPoll` has five parts. `QueueInv` is what capture relies on in the
queue. `ServerInv` says that a reader of the change tables sees every transaction
with rows from the low watermark to the high one, both now and in the view of the
poll. `SnapshotInv` says that nothing with rows is committed from the fence to the
reading of the tables, because the locks are held, so that the boundary and what the
snapshot covers differ by no row. `StreamInv` says that the published transactions
are in log order and are those with rows between the boundary and the durable
position. `PollInv` says that the transaction being published is the next of them;
this holds because `CheckRange` has refused a range that begins below the low
watermark of the same view. The assumption is `PollAssumption`. `RowsRejected` is
the answer of `readChanges` for the rows of a transaction. The theorem holds for
either answer; the run has it FALSE, which `EventsFaithful` of `CdcChanges`
justifies, as `Faithful` includes that no change rows are refused.

`CaptureInv` of `PgCapture` has seven parts, and its core is what is staged. The
stream never runs ahead of the durable position (`DecoderInv`): a transaction
redelivered from before it is read and dropped, and the one behind it is the only one
whose chunks are staged, covering exactly the rows counted and not in the batch. So
Publish turns it into the last transaction of a log in commit order (`LogInv`), and
Recover drops all of it and nothing else. `RowsFitTheirSchema` needs that the
version stamped on new messages is that of the last `schema_end` in the log and that
of the tables `convert` compares with (`StampInv`, `SchemaInv`), at each step of a
refresh, and that the rows of the batch fit it (`BatchFits`). That convert counts
columns where the property compares them (`ConvertFits`) rests on the finiteness of
the schemas. `FeedbackSafe` needs the phase
at each step (`SlotInv`): a slot exists with an unfinished snapshot, and its position
is that snapshot's point. The assumptions are `CaptureAssumption` and
`SchemaAssumption`.

`SessionInv` rests on the log. The target holds under each number what the queue
holds under it in the same generation (`LogOK`), and so does an event on its way
(`EventOK`); `received_seq` and the last message determine the phase and the open
transaction (`RowOK`). The rest is about who may act. A stream carries one
request or its answer, never both (`WireOK`), apart from an acknowledgement and the
pull behind it. Only the holder of the lease changes the target, and
its next pull says where the target is (`HoldersOK`); this is where a process that
lost its lease without noticing is excluded. The generation of a live handler is the
newest that any handler or the target has (`NewestOK`), and that of the holder is
never older than the target's, so a late event can not bring an older generation
back. The assumption is `SessionAssumption`.

The inductive invariants of `Reload`, the queue, `Target` (`Content` included),
`Delivery`, `CdcPoll`, `PgCapture` and `Session` were also checked with TLC on the
instances of the runs.

Only model-checked:

- every liveness property (fairness and ENABLED are outside the proof system);
- `DigestsDecide`, which holds only as far as no hashes collide, as on the instance of
  the run, and the other invariants of `Reconciliation` (but for those of
  `Controller`): the module uses the exclusive or of `Digest`, whose recursive
  definition keeps the provers from working in any module that reaches it;
- `EventsFaithful`, which compares folds of an operator over the rows of a transaction,
  and the provers can not unfold these;
- `ExactlyOnce` of `LegacyOutbox`, `ContentMatchesHash` of `FileWatch`, and the
  invariants of `MyBinlog`, for which no proof has been written.

## Inventory and what is not modelled

`PROJECT.json` lists every part. Not modelled:

- power failures of the host, which may undo a rename of the directory store, its
  temporary files, and the S3 and OSS clients (`internal/filestore`): `Target` has
  the outcomes of Put and Delete that a failing call or process can leave;
- the reconciliation scans of the four engines one by one: `Reconciliation` has one
  consistent read, which each of them arranges with the means of its database, and
  leaves out the normalisation of column values before they are hashed;
- value conversion, catalogue inspection, trigger text, embedded files,
  configuration, metrics, logging, generated code, Windows services and the
  plugin installer: no state that the properties distinguish, or input and
  output only.

Simplifications worth knowing: identity checks of the source (system identifier,
fingerprint, timeline) always succeed; `Session` reduces capture to its calls on
the queue, with transactions of one chunk or none, and a commit that takes effect
without an answer is its `StoreEvent` followed by a broken stream; in `PgCapture` the
values of key columns are not null and a transaction has one schema version; `CdcPoll` treats the rows of a transaction as one chunk, and its second
inspection happens together with the reading of the change rows, which is local;
`CdcChanges` takes update masks as sets of columns and leaves out tables that hold
the same row twice, since copies of a row are the subject of `Target`; `LegacyOutbox` leaves out a repair while a cleanup
token is pending; authentication is left out everywhere.

## What could follow

Proofs of exactly-once for `MyBinlog` and `LegacyOutbox`, on the pattern of
`PgCaptureProofs`, where what is staged and what is published are related in the same
way; of the schedule and the rate limit of `Reconciliation`, once apart from the
digests; and a composition of a capture
module with `Session`, which multiplies state spaces that are near the limit of a
short run already: the two sides meet in `Queue`, whose properties both rely on and
which is proved.

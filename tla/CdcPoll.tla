------------------------------ MODULE CdcPoll -------------------------------
(***************************************************************************)
(* SQL Server CDC capture, internal/sqlserver.  The server's capture job   *)
(* copies committed transactions from the log to the change tables some    *)
(* time later, and its cleanup job first advances the low watermark and    *)
(* then deletes change rows.  The collector finds the end of its initial   *)
(* snapshot by a fence row it commits while it holds the table locks, and  *)
(* then publishes one transaction per poll, read in a snapshot-isolation   *)
(* transaction.                                                            *)
(*                                                                         *)
(* The log is a sequence of transactions, the LSN of a transaction its     *)
(* place in it: "rows" of captured tables, "other", or a "fence".          *)
(***************************************************************************)
EXTENDS Integers, Sequences

CONSTANTS None,
          RowsRejected, \* readChanges refuses the change rows of a transaction
          Versions,     \* schema versions, numbered from 1
          MaxTx,        \* bound on log transactions
          MaxSeq,       \* bound on sequence numbers, never reached
          MaxBytes,     \* queue capacity, in messages
          MaxAcks,      \* bound on acknowledgements
          MaxCrashes,   \* bound on crashes, lost connections and timeouts
          MayClean      \* the cleanup job runs

ASSUME PollAssumption == /\ MaxTx \in Nat /\ MaxSeq \in Nat /\ MaxBytes \in Nat
                         /\ MaxCrashes \in Nat
                         /\ None \notin 0..MaxTx \cup Versions

VARIABLES st, items, minted,   \* Queue
          log,          \* committed transactions
          captured,     \* fn_cdc_get_max_lsn: copied by the capture job
          low,          \* fn_cdc_get_min_lsn: low watermark
          ct,           \* transactions in the change tables
          catalog,      \* version of the captured tables
          locked,       \* the snapshot holds TABLOCKX on every table
          pc, expected,
          waiting,      \* append found the queue full and waits for the delivery
          fence,        \* LSN of this generation's fence, known to the server
          boundary,     \* the fence's LSN once read
          view,         \* what the poll's transaction sees
          upper, target,        \* high watermark and transaction of this poll
          covers,       \* log length when the snapshot rows were read
          crashes

queueVars == <<st, items, minted>>
serverVars == <<log, captured, low, ct, catalog, fence>>
pollVars == <<view, upper, target>>
localVars == <<expected, waiting, boundary, covers>>
vars == <<queueVars, serverVars, locked, pc, pollVars, localVars, crashes>>

Body == [kind : {"snapshot_begin", "schema", "snapshot_rows", "snapshot_end",
                 "transaction_rows", "transaction_end"},
         tx : 0..MaxTx]

Q == INSTANCE Queue WITH Bodies <- Body, SizeOf <- [b \in Body |-> 1], LSNs <- 0..MaxTx,
       Hashes <- Versions, Tokens <- {}, LsnBytes <- 0,
       ReplayBytes <- MaxSeq, MaxGen <- MaxCrashes + 1

Msg(kind, tx, lsn) == [body |-> [kind |-> kind, tx |-> tx], version |-> None, lsn |-> lsn]

-----------------------------------------------------------------------------
(* The server.                                                             *)

\* Applications write captured tables only while the snapshot does not.
CommitTransaction(kind) ==
  /\ Len(log) < MaxTx
  /\ kind = "rows" => ~locked
  /\ log' = Append(log, kind)
  /\ UNCHANGED <<queueVars, captured, low, ct, catalog, fence, locked, pc, pollVars, localVars,
                 crashes>>

AlterTable == /\ ~locked /\ catalog + 1 \in Versions
              /\ catalog' = catalog + 1
              /\ UNCHANGED <<queueVars, log, captured, low, ct, fence, locked, pc, pollVars,
                             localVars, crashes>>

CaptureJob == /\ captured < Len(log)
              /\ captured' = captured + 1
              /\ ct' = IF log[captured + 1] = "other" THEN ct ELSE ct \cup {captured + 1}
              /\ UNCHANGED <<queueVars, log, low, catalog, fence, locked, pc, pollVars, localVars,
                             crashes>>

\* "Cleanup advances low watermarks before deleting CT rows."
AdvanceLow == /\ MayClean /\ low < captured
              /\ low' = low + 1
              /\ UNCHANGED <<queueVars, log, captured, ct, catalog, fence, locked, pc, pollVars,
                             localVars, crashes>>

DeleteChanges == /\ \E t \in ct : t < low
                 /\ ct' = {t \in ct : t >= low}
                 /\ UNCHANGED <<queueVars, log, captured, low, catalog, fence, locked, pc, pollVars,
                                localVars, crashes>>

Server == \/ \E kind \in {"rows", "other"} : CommitTransaction(kind)
          \/ AlterTable \/ CaptureJob \/ AdvanceLow \/ DeleteChanges

-----------------------------------------------------------------------------
(* attempt and snapshot.                                                   *)

Go(next) == /\ pc' = next /\ waiting' = FALSE
            /\ UNCHANGED <<serverVars, locked, pollVars, expected, boundary, covers, crashes>>

\* Transactions end with the attempt, and their locks with them.
Ends(state) == /\ pc' = state /\ waiting' = FALSE /\ locked' = FALSE
               /\ UNCHANGED <<queueVars, serverVars, pollVars, expected, boundary, covers>>

Fatal == Ends("dead") /\ UNCHANGED crashes

\* batch.append of one message.  A full queue is noticed in one transaction of
\* the queue and examined in the next.
Put(kind, tx, lsn, next) ==
  /\ pc = kind /\ ~waiting
  /\ IF Q!Full(Msg(kind, tx, lsn))
     THEN /\ waiting' = TRUE
          /\ UNCHANGED <<queueVars, serverVars, locked, pc, pollVars, expected, boundary,
                         covers, crashes>>
     ELSE Q!AppendMessage(Msg(kind, tx, lsn)) /\ Go(next)

Staged == {b.kind : b \in Body}

\* Wait for the delivery, or give up when nothing published is left.
Waited == /\ waiting
          /\ IF st.ReadySeq = st.DeliveredSeq THEN Fatal ELSE Go(pc) /\ UNCHANGED queueVars

\* The deadline of the poll (query_timeout) or of the snapshot passes while a
\* message is staged: its error is no databaseError, so Run does not retry.
StagingDeadline == /\ pc \in Staged /\ crashes < MaxCrashes
                   /\ Ends("dead") /\ crashes' = crashes + 1

Acknowledge == /\ st.DeliveredSeq < MaxAcks /\ st.DeliveredSeq < st.ReadySeq
               /\ Q!Ack(st.DeliveredSeq + 1, Q!MessageID(st.DeliveredSeq + 1), {})
               /\ UNCHANGED <<serverVars, locked, pc, pollVars, localVars, crashes>>

Attempt ==
  /\ pc = "down"
  /\ Q!Recover
  /\ expected' = catalog
  /\ pc' = CASE st.Phase # "stream" -> "initialize"
             [] st.Phase = "stream" /\ st.SchemaHash = catalog -> "poll"
             [] OTHER -> "dead"
  /\ UNCHANGED <<serverVars, locked, pollVars, waiting, boundary, covers, crashes>>

Initialize == pc = "initialize" /\ Q!Initialize(expected) /\ Go("lock")

LockTables == /\ pc = "lock"
              /\ locked' = TRUE /\ pc' = "inspect"
              /\ UNCHANGED <<queueVars, serverVars, pollVars, localVars, crashes>>

\* The tables are inspected again under the locks.
InspectLocked == /\ pc = "inspect"
                 /\ IF catalog # expected THEN Fatal ELSE Go("fence") /\ UNCHANGED queueVars

\* The marker commits in a transaction of its own while writers are blocked.
InsertFence == /\ pc = "fence" /\ Len(log) < MaxTx
               /\ log' = Append(log, "fence") /\ fence' = Len(log) + 1
               /\ pc' = "snapshot_begin"
               /\ UNCHANGED <<queueVars, captured, low, ct, catalog, locked, pollVars, localVars,
                              crashes>>

StageSnapshot == \/ Put("snapshot_begin", 0, None, "schema")
               \/ Put("schema", 0, None, "read")
               \/ Put("snapshot_rows", 0, None, "snapshot_end")
               \/ Put("snapshot_end", 0, None, "unlock")

SnapshotRows == /\ pc = "read"
                /\ covers' = Len(log) /\ pc' = "snapshot_rows"
                /\ UNCHANGED <<queueVars, serverVars, locked, pollVars, expected, waiting, boundary,
                               crashes>>

UnlockTables == /\ pc = "unlock"
                /\ locked' = FALSE /\ pc' = "wait"
                /\ UNCHANGED <<queueVars, serverVars, pollVars, localVars, crashes>>

\* Variant of WaitFence: the high watermark of the moment is the boundary.
WaitWatermark == /\ pc = "wait"
                 /\ boundary' = captured /\ pc' = "finalize"
                 /\ UNCHANGED <<queueVars, serverVars, locked, pollVars, expected, waiting, covers,
                                crashes>>

\* waitFence reads the marker's LSN from its change table, or times out.
WaitFence == /\ pc = "wait" /\ fence \in ct
             /\ boundary' = fence /\ pc' = "finalize"
             /\ UNCHANGED <<queueVars, serverVars, locked, pollVars, expected, waiting, covers,
                            crashes>>

\* The fence is late, or cleaned up before it was read.
FenceTimeout == pc = "wait" /\ Fatal

Finalize == pc = "finalize" /\ Q!FinalizeSnapshotLSN(boundary) /\ Go("seal")

Seal == pc = "seal" /\ Q!Publish(boundary, TRUE) /\ Go("poll")

-----------------------------------------------------------------------------
(* poll.                                                                   *)

Now == [max |-> captured, min |-> low, ct |-> ct]

\* Variant of View: every statement sees what is committed by then.
ViewReadCommitted == Now

\* Every statement of the transaction sees the state it began with.
View == view

\* The transaction begins with its inspection.
BeginPoll == /\ pc = "poll"
             /\ IF catalog # expected THEN Fatal
                ELSE /\ view' = Now /\ pc' = "range"
                     /\ UNCHANGED <<queueVars, serverVars, locked, upper, target, localVars, crashes>>

LastLSN == st.DurableLSN

\* Nothing new ends the poll; a range that begins below the low watermark or a
\* high watermark that moved back is an error.
CheckRange ==
  /\ pc = "range"
  /\ CASE View.max < LastLSN -> Fatal
       [] View.max = LastLSN -> Go("poll") /\ UNCHANGED queueVars
       [] View.max > LastLSN /\ LastLSN + 1 < View.min -> Fatal
       [] OTHER -> /\ upper' = View.max /\ pc' = "find"
                   /\ UNCHANGED <<queueVars, serverVars, locked, view, target, localVars, crashes>>

Changes == {t \in View.ct : t > LastLSN /\ t <= upper /\ log[t] = "rows"}

\* Variant of FindNext: an empty range leaves the position where it is.
FindNextKeeping ==
  /\ pc = "find"
  /\ IF Changes = {} THEN Go("poll") /\ UNCHANGED queueVars
     ELSE /\ target' \in Changes /\ \A t \in Changes : target' <= t
          /\ pc' = "changes"
          /\ UNCHANGED <<queueVars, serverVars, locked, view, upper, localVars, crashes>>

\* The first transaction of the range; an empty range moves the position on.
FindNext ==
  /\ pc = "find"
  /\ IF Changes = {} THEN Q!Publish(upper, FALSE) /\ Go("poll")
     ELSE /\ target' \in Changes /\ \A t \in Changes : target' <= t
          /\ pc' = "changes"
          /\ UNCHANGED <<queueVars, serverVars, locked, view, upper, localVars, crashes>>

\* readChanges and the second inspection: a transaction that has disappeared is an
\* error, and so are change rows it cannot make sense of and a changed catalog.
ReadChanges == /\ pc = "changes"
               /\ IF target \notin View.ct \/ RowsRejected \/ catalog # expected THEN Fatal
                  ELSE Go("transaction_rows") /\ UNCHANGED queueVars

FlushRows == Put("transaction_rows", target, target, "transaction_end")

TransactionEnd == Put("transaction_end", target, target, "publish")

PublishTransaction == pc = "publish" /\ Q!Publish(target, FALSE) /\ Go("poll")

-----------------------------------------------------------------------------

Crash == /\ pc # "down" /\ crashes < MaxCrashes
         /\ Ends("down") /\ crashes' = crashes + 1

Exited == pc = "dead" /\ UNCHANGED vars

\* No room for a fence within the bound on the log.
LogFull == pc = "fence" /\ Len(log) = MaxTx /\ UNCHANGED vars

Init == /\ Q!Open
        /\ log = <<>> /\ captured = 0 /\ low = 0 /\ ct = {} /\ catalog = 1 /\ fence = 0
        /\ locked = FALSE /\ pc = "down" /\ waiting = FALSE
        /\ expected = 1 /\ boundary = 0 /\ covers = 0
        /\ view = Now /\ upper = 0 /\ target = 0 /\ crashes = 0

Snapshot == \/ Initialize \/ LockTables \/ InspectLocked \/ InsertFence \/ StageSnapshot
            \/ SnapshotRows \/ UnlockTables \/ WaitFence \/ Finalize \/ Seal

Poll == \/ BeginPoll \/ CheckRange \/ FindNext \/ ReadChanges
        \/ FlushRows \/ TransactionEnd \/ PublishTransaction

Collector == Attempt \/ Snapshot \/ Poll \/ Waited

Next == Collector \/ Server \/ Acknowledge \/ FenceTimeout \/ StagingDeadline \/ Crash \/ Exited \/ LogFull

Spec == Init /\ [][Next]_vars

\* The collector, the capture job and the delivery keep working, and the timer of
\* waitFence fires.
FairSpec == /\ Spec /\ WF_vars(Collector) /\ WF_vars(CaptureJob) /\ WF_vars(Acknowledge)
            /\ WF_vars(FenceTimeout)

-----------------------------------------------------------------------------
(* Properties.                                                             *)

\* Types of the collector's fields.
TypeOK == /\ boundary \in 0..MaxTx /\ upper \in 0..MaxTx /\ target \in 0..MaxTx
          /\ covers \in 0..MaxTx
          /\ expected \in Versions
          /\ st.NextSeq < MaxSeq

Published(t) == {k \in 2..st.ReadySeq : /\ items[k].body = [kind |-> "transaction_end", tx |-> t]
                                        /\ items[k-1].body = [kind |-> "transaction_rows", tx |-> t]}

\* Whatever the delay of the capture job and the moment of a cleanup, every
\* captured transaction up to the durable position is either in the rows the
\* snapshot read or published, and never both, in commit order (waitFence, poll).
ExactlyOnce ==
  st.Phase = "stream" =>
    \A t \in DOMAIN log :
      /\ log[t] = "rows" =>
           IF t > covers /\ t <= st.DurableLSN THEN \E k \in 2..st.ReadySeq : Published(t) = {k}
           ELSE Published(t) = {}
      /\ \A s \in 1..t-1 : \A j \in Published(s), k \in Published(t) : j < k

\* While published messages wait for their acknowledgement, a capture that found
\* the queue full waits for the delivery to free them and does not give up
\* (docs/architecture.md on a full queue).
\* The code does not keep it, since query_timeout runs while append waits (README.md).
WaitsForDelivery == [][waiting /\ st.ReadySeq > st.DeliveredSeq => pc' # "dead"]_vars

\* Unless it stopped with an error the capture reaches the end of the log, also past
\* transactions that touch no captured table; within the bound on the log it may be
\* left without room for its fence.
CatchesUp == <>[](pc = "fence" \/ pc = "dead"
                  \/ (st.Phase = "stream" /\ st.DurableLSN = Len(log)))
=============================================================================

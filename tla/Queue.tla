------------------------------- MODULE Queue --------------------------------
(***************************************************************************)
(* The collector's durable local queue, internal/queue/queue.go.           *)
(*                                                                         *)
(* Every exported method that writes is one bbolt read-write transaction:  *)
(* bbolt admits one writer at a time, a method that returns an error rolls *)
(* its transaction back, and a crash leaves either all of it or none.  So  *)
(* each method is one action over the two things a transaction can touch,  *)
(* the State record and the items bucket, and an error return is a         *)
(* conjunct of the guard.  The whole state is on disk: a crash followed by *)
(* Open changes nothing.                                                   *)
(*                                                                         *)
(* A message is its body (a member of Bodies, whose encoded length is      *)
(* SizeOf) and the fields the queue itself fills in.  The empty string of  *)
(* a Go field is None, 0 for a generation, and "empty" for the phase.      *)
(***************************************************************************)
EXTENDS Integers

CONSTANTS Bodies,       \* message contents handed to AppendMessage
          SizeOf,       \* encoded length of a body without its lsn field
          LSNs,         \* source positions, opaque to the queue
          Hashes,       \* schema hashes
          Tokens,       \* source cleanup tokens
          None,         \* the empty string
          LsnBytes,     \* bytes the lsn field adds to an encoded message
          MaxBytes,     \* Store.maxBytes
          ReplayBytes,  \* Store.replayBytes
          MaxSeq,       \* bound on NextSeq
          MaxGen        \* bound on the generation tokens drawn

ASSUME SizeAssumption == SizeOf \in [Bodies -> Nat \ {0}]
ASSUME LimitAssumption == /\ LsnBytes \in Nat
                          /\ MaxBytes \in Nat
                          /\ ReplayBytes \in Nat
                          /\ MaxSeq \in Nat
                          /\ MaxGen \in Nat \ {0}
ASSUME NoneAssumption == None \notin LSNs \cup Hashes \cup Tokens

VARIABLES st,           \* the State record in the meta bucket
          items,        \* the items bucket: sequence number -> message
          minted        \* generation tokens drawn so far (crypto/rand never repeats)

queueVars == <<st, items, minted>>

Phases == {"empty", "snapshot", "stream"}

LSNValues == LSNs \cup {None}
HashValues == Hashes \cup {None}

Message == [Generation : 0..MaxGen, SchemaVersion : HashValues,
            LSN : LSNValues, body : Bodies, size : Nat]

State == [Generation : 0..MaxGen, SchemaHash : HashValues, Phase : Phases,
          SnapshotLSN : LSNValues, DurableLSN : LSNValues,
          SourceCleanup : Tokens \cup {None},
          NextSeq : Nat, ReadySeq : Nat, DeliveredSeq : Nat, Bytes : Int,
          EarliestSeq : Nat, ArchiveBytes : Int]

-----------------------------------------------------------------------------
(* Lengths and sums of lengths.                                            *)

LsnLen(lsn) == IF lsn = None THEN 0 ELSE LsnBytes

SizeAt(its, n) == IF n \in DOMAIN its THEN its[n].size ELSE 0

\* Upto(its)[n] is the length of all the messages of its numbered 1..n.
Upto(its) == LET sum[n \in Nat] == IF n = 0 THEN 0 ELSE sum[n-1] + SizeAt(its, n)
             IN  sum

\* The length of all the messages numbered lo..hi, for 1 <= lo.
Total(its, lo, hi) == Upto(its)[hi] - Upto(its)[lo-1]

\* Bounds(): what a puller may ask for.  EarliestSeq is 0 only in a database
\* written before the replay archive existed.
Earliest == IF st.EarliestSeq = 0 THEN st.DeliveredSeq + 1 ELSE st.EarliestSeq

MessageID(n) == <<items[n].Generation, n>>

-----------------------------------------------------------------------------
(* The transactions.                                                       *)

\* A state with no messages: the cursors and counters at zero.
Blank(gen, hash, phase, earliest) ==
  [Generation |-> gen, SchemaHash |-> hash, Phase |-> phase,
   SnapshotLSN |-> None, DurableLSN |-> None, SourceCleanup |-> None,
   NextSeq |-> 0, ReadySeq |-> 0, DeliveredSeq |-> 0, Bytes |-> 0,
   EarliestSeq |-> earliest, ArchiveBytes |-> 0]

\* Open saves the Go struct State{} in a new database.
Open == /\ st = Blank(0, None, "empty", 0)
        /\ items = [n \in {} |-> None]
        /\ minted = 0

\* A database of the release before the archive: acknowledged messages were
\* deleted, EarliestSeq and ArchiveBytes are absent from the saved state.
OpenLegacy ==
  \E delivered \in 0..MaxSeq, ready \in 0..MaxSeq, next \in 0..MaxSeq,
     hash \in Hashes, lsn \in LSNs :
    /\ delivered <= ready /\ ready <= next
    /\ \E body \in [delivered+1..next -> Bodies] :
         /\ items = [n \in delivered+1..next |->
                       [Generation |-> 1, SchemaVersion |-> hash, LSN |-> None,
                        body |-> body[n], size |-> SizeOf[body[n]]]]
         /\ Total(items, delivered + 1, next) <= MaxBytes
         /\ st = [Blank(1, hash, "stream", 0) EXCEPT
                    !.SnapshotLSN = lsn, !.DurableLSN = lsn,
                    !.NextSeq = next, !.ReadySeq = ready,
                    !.DeliveredSeq = delivered,
                    !.Bytes = Total(items, delivered + 1, next)]
    /\ minted = 1

\* Only a capture that was never sealed may be reset.  The caller's record
\* carries a fresh generation token and the schema hash it inspected.
Initialize(hash) ==
  /\ st.Phase \in {"empty", "snapshot"}
  /\ minted < MaxGen
  /\ minted' = minted + 1
  /\ items' = [n \in {} |-> None]
  /\ st' = Blank(minted + 1, hash, "snapshot", 1)

SnapshotPoint(lsn) ==
  /\ st' = [st EXCEPT !.SnapshotLSN = lsn]
  /\ UNCHANGED <<items, minted>>

\* The staged snapshot with the boundary written into every message.
Finalized(lsn) ==
  [n \in DOMAIN items |->
     IF n \in 1..st.NextSeq
     THEN [items[n] EXCEPT !.LSN = lsn,
             !.size = items[n].size - LsnLen(items[n].LSN) + LsnLen(lsn)]
     ELSE items[n]]

FinalizeSnapshotLSN(lsn) ==
  /\ st.Phase = "snapshot" /\ st.ReadySeq = 0
  /\ 1..st.NextSeq \subseteq DOMAIN items
  /\ Total(Finalized(lsn), 1, st.NextSeq) <= MaxBytes
  /\ items' = Finalized(lsn)
  /\ st' = [st EXCEPT !.Bytes = Total(Finalized(lsn), 1, st.NextSeq),
                      !.SnapshotLSN = lsn]
  /\ UNCHANGED minted

\* The message Append stores for m, a record of body, schema version and lsn.
Stamped(m) ==
  [Generation |-> st.Generation,
   SchemaVersion |-> IF m.version = None THEN st.SchemaHash ELSE m.version,
   LSN |-> m.lsn, body |-> m.body, size |-> SizeOf[m.body] + LsnLen(m.lsn)]

\* Append returns ErrFull on the size limit; running out of free disk is the
\* same error and is added where an environment that fills the disk is modelled.
Full(m) == st.Bytes + Stamped(m).size > MaxBytes

AppendMessage(m) ==
  /\ ~Full(m)
  /\ st.NextSeq < MaxSeq
  /\ items' = [n \in DOMAIN items \cup {st.NextSeq + 1} |->
                 IF n = st.NextSeq + 1 THEN Stamped(m) ELSE items[n]]
  /\ st' = [st EXCEPT !.NextSeq = @ + 1, !.Bytes = @ + Stamped(m).size]
  /\ UNCHANGED minted

\* Variant of PublishSource: the last staged message stays hidden.
PublishAllButLast(lsn, sealSnapshot, cleanup) ==
  /\ sealSnapshot => st.Phase = "snapshot"
  /\ st' = [st EXCEPT !.Phase = IF sealSnapshot THEN "stream" ELSE @,
                      !.ReadySeq = IF st.NextSeq > @ THEN st.NextSeq - 1 ELSE @,
                      !.DurableLSN = lsn, !.SourceCleanup = cleanup]
  /\ UNCHANGED <<items, minted>>

PublishSource(lsn, sealSnapshot, cleanup) ==
  /\ sealSnapshot => st.Phase = "snapshot"
  /\ st' = [st EXCEPT !.Phase = IF sealSnapshot THEN "stream" ELSE @,
                      !.ReadySeq = st.NextSeq, !.DurableLSN = lsn,
                      !.SourceCleanup = cleanup]
  /\ UNCHANGED <<items, minted>>

Publish(lsn, sealSnapshot) == PublishSource(lsn, sealSnapshot, None)

PublishSchema(lsn, hash) ==
  /\ lsn # None /\ hash # None
  /\ st.Phase = "stream"
  /\ st' = [st EXCEPT !.ReadySeq = st.NextSeq, !.DurableLSN = lsn,
                      !.SchemaHash = hash]
  /\ UNCHANGED <<items, minted>>

ClearSourceCleanup(expected) ==
  /\ st.SourceCleanup = expected
  /\ st' = [st EXCEPT !.SourceCleanup = None]
  /\ UNCHANGED <<items, minted>>

\* Messages that Recover's cursor passes over: everything past ReadySeq.
Unpublished == {n \in DOMAIN items : n > st.ReadySeq}

\* Variants of Recover: it keeps the staged messages; it keeps their bytes;
\* it restarts after the last acknowledged message, not the last published one.
RecoverKeepingItems ==
  /\ st' = [st EXCEPT !.Bytes = @ - Total(items, st.ReadySeq + 1, st.NextSeq),
                      !.NextSeq = st.ReadySeq]
  /\ UNCHANGED <<items, minted>>

RecoverKeepingBytes ==
  /\ items' = [n \in DOMAIN items \ Unpublished |-> items[n]]
  /\ st' = [st EXCEPT !.NextSeq = st.ReadySeq]
  /\ UNCHANGED minted

RecoverToDelivered ==
  /\ items' = [n \in {k \in DOMAIN items : k <= st.DeliveredSeq} |-> items[n]]
  /\ st' = [st EXCEPT !.Bytes = 0, !.NextSeq = st.DeliveredSeq,
                      !.ReadySeq = st.DeliveredSeq]
  /\ UNCHANGED minted

Recover ==
  /\ items' = [n \in DOMAIN items \ Unpublished |-> items[n]]
  /\ st' = [st EXCEPT !.Bytes = @ - Total(items, st.ReadySeq + 1, st.NextSeq),
                      !.NextSeq = st.ReadySeq]
  /\ UNCHANGED minted

ResetForSnapshot ==
  /\ st.Phase = "stream"
  /\ st.NextSeq = st.ReadySeq /\ st.DeliveredSeq = st.ReadySeq
  /\ items' = [n \in {} |-> None]
  /\ st' = Blank(0, None, "snapshot", 1)
  /\ UNCHANGED minted

\* Ack's eviction loop stops at the first retained message that is within
\* both archive limits, or once it has passed the last acknowledged message.
EvictionStops(e, first, seq, archive, expired) ==
  \/ e > seq
  \/ /\ e \in DOMAIN items
     /\ e \notin expired
     /\ archive - Total(items, first, e - 1) <= ReplayBytes

\* expired is the set of messages older than replayAge when Ack runs.
Ack(seq, id, expired) ==
  LET first   == IF st.EarliestSeq = 0 THEN 1 ELSE st.EarliestSeq
      archive == st.ArchiveBytes + SizeAt(items, seq)
  IN  /\ seq = st.DeliveredSeq + 1 /\ seq <= st.ReadySeq
      /\ seq \in DOMAIN items
      /\ id = MessageID(seq)
      /\ \E e \in first..(seq + 1) :
           /\ EvictionStops(e, first, seq, archive, expired)
           /\ \A k \in first..(e - 1) :
                 ~EvictionStops(k, first, seq, archive, expired)
           /\ items' = [n \in DOMAIN items \ (first..(e - 1)) |-> items[n]]
           /\ st' = [st EXCEPT !.Bytes = @ - SizeAt(items, seq),
                               !.ArchiveBytes = archive - Total(items, first, e - 1),
                               !.DeliveredSeq = seq, !.EarliestSeq = e]
      /\ UNCHANGED minted

-----------------------------------------------------------------------------
(* The queue under any user that keeps to the calling discipline of the    *)
(* collectors: nothing is staged before Initialize, and an unsealed        *)
(* snapshot is published only by the call that seals it.                   *)

Messages == [body : Bodies, version : HashValues, lsn : LSNValues]

Init == Open \/ OpenLegacy

Stage == /\ st.Generation # 0
         /\ \E m \in Messages : AppendMessage(m)

SealSnapshot == /\ st.Generation # 0
                /\ \E lsn \in LSNs : Publish(lsn, TRUE)

PublishTransaction == /\ st.Phase = "stream"
                      /\ \E lsn \in LSNs, cleanup \in Tokens \cup {None} :
                           PublishSource(lsn, FALSE, cleanup)

Deliver == \E expired \in SUBSET DOMAIN items, seq \in DOMAIN items :
             Ack(seq, MessageID(seq), expired)

Next == \/ \E hash \in Hashes : Initialize(hash)
        \/ /\ st.Phase = "snapshot"
           /\ \E lsn \in LSNs : SnapshotPoint(lsn) \/ FinalizeSnapshotLSN(lsn)
        \/ Stage
        \/ SealSnapshot
        \/ PublishTransaction
        \/ \E lsn \in LSNs, hash \in Hashes : PublishSchema(lsn, hash)
        \/ \E token \in Tokens : ClearSourceCleanup(token)
        \/ Recover
        \/ ResetForSnapshot
        \/ Deliver

Spec == Init /\ [][Next]_queueVars

-----------------------------------------------------------------------------
(* Properties.                                                             *)

\* Type correctness of the saved State record and of the items bucket.
TypeOK == /\ st \in State
          /\ minted \in 0..MaxGen
          /\ DOMAIN items \subseteq Nat \ {0}
          /\ \A n \in DOMAIN items : items[n] \in Message

\* The three cursors never cross, and nothing of a snapshot is visible before
\* the Publish that seals it (queue.go Publish, Ack, Recover, Initialize).
CursorOrder == /\ st.DeliveredSeq <= st.ReadySeq
               /\ st.ReadySeq <= st.NextSeq
               /\ st.EarliestSeq <= st.DeliveredSeq + 1
               /\ st.Phase # "stream" => st.ReadySeq = 0

\* The items bucket holds exactly the messages from the earliest retained one
\* to the last staged one: the "queue gap" errors of Peek, Get and
\* FinalizeSnapshotLSN and Ack's "ack references missing message" are dead code.
NoGap == DOMAIN items = Earliest..st.NextSeq

\* Every stored message was stamped with the current generation, so an
\* acknowledgement of a retired generation can never match a message id.
OneGeneration == /\ \A n \in DOMAIN items : items[n].Generation = st.Generation
                 /\ st.Generation <= minted

\* The items bucket holds the current generation from the earliest retained
\* message to the last staged one and nothing else (Append, Recover,
\* ResetForSnapshot).
ItemsExact == NoGap /\ OneGeneration

\* Bytes and ArchiveBytes, which every method adjusts by the length of the
\* message it touches, are exactly the lengths of the unacknowledged and of
\* the acknowledged messages that are stored: the limits never drift.
ByteAccounting ==
  /\ \A n \in DOMAIN items :
        items[n].size = SizeOf[items[n].body] + LsnLen(items[n].LSN)
  /\ st.Bytes = Total(items, st.DeliveredSeq + 1, st.NextSeq)
  /\ st.ArchiveBytes = Total(items, Earliest, st.DeliveredSeq)

\* Neither half of the store exceeds its configured capacity.
WithinLimits == /\ 0 <= st.Bytes /\ st.Bytes <= MaxBytes
                /\ 0 <= st.ArchiveBytes /\ st.ArchiveBytes <= ReplayBytes

\* The configured capacities hold for what is really stored, however many
\* appends, recoveries, acknowledgements and evictions there were.
Accounted == ByteAccounting /\ WithinLimits

\* "never evicts an undelivered message" (ConfigureReplay): a step keeps every
\* published, unacknowledged message as it is and where it is, except that the
\* oldest one may become acknowledged.
KeepsPublished ==
  \A n \in st.DeliveredSeq + 1 .. st.ReadySeq :
    \/ /\ n \in DOMAIN items' /\ items'[n] = items[n]
       /\ st'.DeliveredSeq < n /\ n <= st'.ReadySeq
    \/ n = st.DeliveredSeq + 1 /\ st'.DeliveredSeq = n

PublishedKept == [][KeepsPublished]_queueVars

\* The queue implements the transactional FIFO of module Outbox: what the
\* cursors delimit is its pending and its staged sequence.
Slice(its, lo, hi) == [i \in 1..(hi - lo) |-> its[lo + i].body]

Promise == INSTANCE Outbox
             WITH pending <- Slice(items, st.DeliveredSeq, st.ReadySeq),
                  staged  <- Slice(items, st.ReadySeq, st.NextSeq)

\* Refinement of Outbox: messages are exposed all at once, in the order they
\* were staged, are consumed one by one, and are never lost once exposed.
ImplementsOutbox == Promise!Spec
=============================================================================

--------------------------- MODULE SessionProofs ----------------------------
(***************************************************************************)
(* Proofs about Session: for any number of server processes and any order  *)
(* of broken streams, crashes, lost leases and reconciliations, what the   *)
(* queue lets go of is in the target, both hold the same log, the lease    *)
(* makes every store meet the message it expects, and a repair request     *)
(* finds the queue drained.                                                *)
(*                                                                         *)
(* The argument.  A published message is never rewritten under its number, *)
(* so that the event that carries it (EventOK) and the target's log        *)
(* (Copied) agree with the queue for as long as it holds the message, and  *)
(* the target's metadata is determined by received_seq and that log        *)
(* (TargetOK).  A stream carries at most one request or its answer         *)
(* (WireOK), the live handler is of the newest generation (NewestOK), and  *)
(* only the holder of the lease changes the target, which stays where the  *)
(* holder's next pull says it is (HoldersOK).                              *)
(***************************************************************************)
EXTENDS Session, TLAPS

-----------------------------------------------------------------------------
(* The inductive invariant.                                                *)

\* What may be staged under number n, and the messages that encode it.
KindsAt(n) == IF n = 1 THEN {Plain("snapshot_begin", None)}
              ELSE IF n = 2 THEN {Plain("snapshot_end", None)}
              ELSE {Plain("transaction_rows", "tx"), Plain("transaction_end", "tx")}

Encoded(k) == [kind |-> k.kind, tx |-> k.tx, scope |-> {}, rows |-> <<>>, version |-> Hash]

Messages == {Encoded(k) : k \in Kinds}

MessagesAt(n) == {Encoded(k) : k \in KindsAt(n)}

Drained == st.NextSeq = st.ReadySeq /\ st.DeliveredSeq = st.ReadySeq

StateFields == {"Generation", "SchemaHash", "Phase", "SnapshotLSN", "DurableLSN",
                "SourceCleanup", "NextSeq", "ReadySeq", "DeliveredSeq", "Bytes",
                "EarliestSeq", "ArchiveBytes"}

\* The snapshot is published as a whole, and what is staged is stored.
PhaseOK == /\ st.Generation # 0 => st.Phase \in {"snapshot", "stream"}
           /\ st.Phase # "stream" => st.ReadySeq = 0 /\ st.NextSeq <= 2
           /\ st.Phase = "stream" => st.ReadySeq >= 2
           /\ st.NextSeq > st.ReadySeq => st.NextSeq \in DOMAIN items

\* The queue: its generation is the newest one or none, its cursors are in
\* order, and it stores under a number what may be staged under it.
QueueOK ==
  /\ DOMAIN st = StateFields
  /\ minted \in Nat /\ st.Generation \in {0, minted}
  /\ st.Generation = 0 => st.ReadySeq = 0 /\ st.NextSeq = 0
  /\ st.NextSeq \in Nat /\ st.ReadySeq \in Nat /\ st.DeliveredSeq \in Nat
  /\ st.DeliveredSeq <= st.ReadySeq /\ st.ReadySeq <= st.NextSeq
  /\ st.Generation # 0 => st.SchemaHash = Hash
  /\ \A n \in DOMAIN items :
       /\ n \in Nat \ {0}
       /\ items[n].Generation = st.Generation /\ st.Generation # 0
       /\ items[n].SchemaVersion = Hash /\ items[n].body \in KindsAt(n)
  /\ PhaseOK

DbFields == {"Generation", "Received", "Applied", "Phase", "OpenTransaction",
             "SchemaVersion", "Pending", "Authorized", "inbox", "snapshot_rows",
             "scope", "message_hash", "schema_stage"}

\* received_seq and the log of a row determine its phase and its open batch.
RowOK(d) ==
  /\ DOMAIN d = DbFields /\ d.Received \in Nat /\ d.Pending = None
  /\ d.Received = 1 => d.Phase = "snapshot"
  /\ d.Received > 1 => d.Phase = "stream"
  /\ d.OpenTransaction = IF /\ d.Received > 0
                            /\ d.message_hash[d.Received].kind = "transaction_rows"
                         THEN "tx" ELSE None
  /\ DOMAIN d.message_hash = 1..d.Received
  /\ \A n \in 1..d.Received : d.message_hash[n] \in MessagesAt(n)

\* The target: its row, and a generation the queue once had.
TargetOK == /\ RowOK(db)
            /\ db.Generation \in 0..minted
            /\ db.Generation = 0 => db.Received = 0
            /\ db.Generation # 0 => db.SchemaVersion = Hash

\* The target's log is a prefix of what the queue published.
Copied == db.Generation = st.Generation =>
            \A n \in DOMAIN items : n <= db.Received => db.message_hash[n] = Payload(items[n])

LogOK == /\ db.Generation = st.Generation => db.Received <= st.ReadySeq
         /\ Copied

\* An event carries the message of its number, and a published one.
Carried(f) == f.gen = st.Generation /\ f.seq \in DOMAIN items => f.body = Payload(items[f.seq])

EventOK(f) == /\ f.gen \in 1..minted /\ f.seq \in Nat \ {0} /\ f.body \in MessagesAt(f.seq)
              /\ f.gen = st.Generation => f.seq <= st.ReadySeq
              /\ Carried(f)

\* An acknowledgement is of a message the target has.
AckOK(f) == /\ f.gen \in 1..minted /\ f.seq \in Nat \ {0}
            /\ f.gen = st.Generation => db.Generation = st.Generation /\ f.seq <= db.Received

Frames == [t : {"hello", "pull", "ack", "event", "idle", "unavailable", "reconcile", "digests",
                "failed", "resume", "resumed", "repair"},
           gen : Nat, seq : Nat, body : {None} \cup Messages]

Handlers == [pc : {"none", "lease", "resume", "wait", "store", "done"}, live : BOOLEAN,
             gen : Nat, next : Nat, event : Frames \cup {None}]

\* A handler has a generation the queue once had, and the event it asked for.
HandlerOK(s) ==
  /\ handler[s].gen <= minted
  /\ handler[s].pc # "none" => handler[s].gen > 0
  /\ handler[s].pc = "store" => /\ handler[s].event \in Frames
                                /\ EventOK(handler[s].event)
                                /\ handler[s].event.seq = handler[s].next
                                /\ handler[s].event.gen = handler[s].gen

HandlersOK == /\ handler \in [Servers -> Handlers]
              /\ lease \in Servers \cup {None}
              /\ \A s \in Servers : HandlerOK(s)

\* The holder of the lease is where the target is, or starts a newer generation.
HolderOK(s) ==
  /\ db.Generation <= handler[s].gen
  /\ handler[s].next = IF handler[s].gen = db.Generation THEN db.Received + 1 ELSE 1

HoldersOK == \A s \in Servers : lease = s /\ handler[s].pc \in {"wait", "store"} => HolderOK(s)

\* No handler is of a newer generation than gen, nor is the target.
Newest(gen) == db.Generation <= gen /\ \A s \in Servers : handler[s].gen <= gen

NewestOK == \A s \in Servers : handler[s].live => Newest(handler[s].gen)

\* One request or its answer is on the stream, or neither while the handler works.
Asking == {"pull", "reconcile", "resume", "repair"}
Answers == {"idle", "unavailable", "event", "digests", "failed", "resumed"}

Greeting == /\ \E f \in Frames : /\ conn.c2s = <<f>> /\ f.t = "hello"
                                 /\ f.gen \in 1..minted /\ Newest(f.gen)
            /\ conn.s2c = <<>> /\ sender # "get"
            /\ \A s \in Servers : ~handler[s].live

Working == /\ handler[conn.to].live /\ handler[conn.to].pc \in {"lease", "resume", "store"}
           /\ conn.c2s = <<>> /\ conn.s2c = <<>> /\ sender # "get"

Answering == /\ handler[conn.to].live /\ handler[conn.to].pc = "wait"
             /\ \E f \in Frames : /\ conn.c2s = <<f>> /\ f.t \in Answers
                                  /\ f.t = "event" => EventOK(f)
                                  /\ f.t = "digests" => paused /\ Drained
             /\ conn.s2c = <<>> /\ sender # "get"

Requesting == /\ handler[conn.to].live /\ handler[conn.to].pc = "wait"
              /\ \E f \in Frames : /\ conn.s2c = <<f>> /\ f.t \in Asking
                                   /\ f.t = "repair" => paused /\ Drained
                                   /\ sender = "get" => f.t = "pull"
              /\ conn.c2s = <<>>

Acking == /\ handler[conn.to].live /\ handler[conn.to].pc = "wait"
          /\ \E f, g \in Frames : /\ conn.s2c = <<f, g>> /\ f.t = "ack" /\ AckOK(f)
                                  /\ g.t = "pull"
          /\ conn.c2s = <<>> /\ sender # "get"

Streams == [up : BOOLEAN, to : Servers \cup {None}, c2s : Seq(Frames), s2c : Seq(Frames)]

WireOK ==
  /\ conn \in Streams
  /\ sender \in {"recv", "get", "stopped"} /\ paused \in BOOLEAN
  /\ \A s \in Servers : handler[s].live => conn.up /\ conn.to = s
  /\ ~conn.up => conn.c2s = <<>> /\ conn.s2c = <<>> /\ sender # "get"
  /\ conn.up => conn.to \in Servers /\
                (Greeting \/ Working \/ Answering \/ Requesting \/ Acking)

\* What makes the four invariants inductive.
SessionInv == /\ QueueOK /\ TargetOK /\ LogOK /\ HandlersOK /\ HoldersOK /\ NewestOK /\ WireOK
              /\ AckedIsDurable

-----------------------------------------------------------------------------
(* Sequences of one and of two frames.                                     *)

\* The default prover, for the leaves that name none.
USE Zenon

\* Receiving the only frame, or the first of two.
LEMMA Receive ==
  /\ \A f \in Frames : <<f>> # <<>> /\ Head(<<f>>) = f /\ Tail(<<f>>) = <<>>
  /\ \A f, g \in Frames : <<f, g>> # <<>> /\ Head(<<f, g>>) = f /\ Tail(<<f, g>>) = <<g>>
BY SMT

\* Sending one or two frames on an empty direction.
LEMMA Transmit ==
  /\ <<>> \in Seq(Frames)
  /\ \A f \in Frames : /\ <<f>> \in Seq(Frames)
                       /\ Append(<<>>, f) = <<f>> /\ <<>> \o <<f>> = <<f>>
  /\ \A f, g \in Frames : <<f, g>> \in Seq(Frames) /\ <<>> \o <<f, g>> = <<f, g>>
BY SMT

\* Every frame either side sends is one.
LEMMA PlainTypes ==
  \A t \in {"idle", "unavailable", "reconcile", "digests", "failed", "resume", "resumed",
            "repair"} : Plainly(t) \in Frames /\ Plainly(t).t = t
<1> DEFINE Contents == {None} \cup Messages
<1>1. None \in Contents
  OBVIOUS
<1>2. Frames = [t : {"hello", "pull", "ack", "event", "idle", "unavailable", "reconcile",
                     "digests", "failed", "resume", "resumed", "repair"},
                gen : Nat, seq : Nat, body : Contents]
  BY DEF Frames
<1> HIDE DEF Contents
<1> QED
  BY <1>1, <1>2, SMT DEF Plainly, Frame

\* A frame carries what it was made with.
LEMMA FrameTypes ==
  ASSUME NEW gen \in Nat, NEW n \in Nat
  PROVE  /\ \A t \in {"hello", "pull", "ack"} :
              /\ Frame(t, gen, n, None) \in Frames
              /\ Frame(t, gen, n, None).t = t /\ Frame(t, gen, n, None).gen = gen
              /\ Frame(t, gen, n, None).seq = n
         /\ \A m \in Messages :
              /\ Frame("event", gen, n, m) \in Frames
              /\ Frame("event", gen, n, m).t = "event"
              /\ Frame("event", gen, n, m).gen = gen
              /\ Frame("event", gen, n, m).seq = n
              /\ Frame("event", gen, n, m).body = m
<1> DEFINE Contents == {None} \cup Messages
<1>1. None \in Contents /\ \A m \in Messages : m \in Contents
  OBVIOUS
<1>2. Frames = [t : {"hello", "pull", "ack", "event", "idle", "unavailable", "reconcile",
                     "digests", "failed", "resume", "resumed", "repair"},
                gen : Nat, seq : Nat, body : Contents]
  BY DEF Frames
<1> HIDE DEF Contents
<1>3. \A t \in {"hello", "pull", "ack"} :
              /\ Frame(t, gen, n, None) \in Frames
              /\ Frame(t, gen, n, None).t = t /\ Frame(t, gen, n, None).gen = gen
              /\ Frame(t, gen, n, None).seq = n
  BY <1>1, <1>2, SMT DEF Frame
<1>4. ASSUME NEW m \in Messages
      PROVE  /\ Frame("event", gen, n, m) \in Frames
             /\ Frame("event", gen, n, m).t = "event"
             /\ Frame("event", gen, n, m).gen = gen
             /\ Frame("event", gen, n, m).seq = n
             /\ Frame("event", gen, n, m).body = m
  BY <1>1, <1>2, SMT DEF Frame
<1> QED
  BY <1>3, <1>4

-----------------------------------------------------------------------------
(* The queue's steps.                                                      *)

\* What a step may do to the queue's generation and to its last published number.
Moved == \/ /\ minted' = minted /\ st'.Generation = st.Generation
            /\ st.ReadySeq <= st'.ReadySeq
         \/ minted' = minted /\ st'.Generation = 0
         \/ minted' = minted + 1 /\ st'.Generation = minted'

\* Within a generation a published message is kept as it is, or dropped.
Retained == st'.Generation = st.Generation =>
              \A n \in DOMAIN items' :
                n <= st.ReadySeq => n \in DOMAIN items /\ items'[n] = items[n]

Grown == Moved /\ Retained

\* Initialize and ResetForSnapshot start from an empty queue.
LEMMA BlankState ==
  ASSUME NEW gen, NEW hash, NEW phase, NEW earliest,
         st' = Q!Blank(gen, hash, phase, earliest)
  PROVE  /\ DOMAIN st' = StateFields
         /\ st'.Generation = gen /\ st'.SchemaHash = hash /\ st'.Phase = phase
         /\ st'.NextSeq = 0 /\ st'.ReadySeq = 0 /\ st'.DeliveredSeq = 0
BY SMT DEF Q!Blank, StateFields

\* Initialize (snapshot start) opens an empty queue of a new generation.
LEMMA InitializeKeeps ==
  ASSUME QueueOK, Q!Initialize(Hash)
  PROVE  QueueOK' /\ Grown /\ st'.DeliveredSeq = 0
<1>1. /\ minted' = minted + 1
      /\ st' = Q!Blank(minted + 1, Hash, "snapshot", 1)
      /\ items' = [n \in {} |-> None]
  BY DEF Q!Initialize
<1>2. /\ DOMAIN st' = StateFields
      /\ st'.Generation = minted + 1 /\ st'.SchemaHash = Hash /\ st'.Phase = "snapshot"
      /\ st'.NextSeq = 0 /\ st'.ReadySeq = 0 /\ st'.DeliveredSeq = 0
  BY <1>1, BlankState
<1>3. DOMAIN items' = {}
  BY <1>1
<1>4. minted \in Nat
  BY DEF QueueOK
<1>5. PhaseOK' /\ Retained
  BY <1>2, <1>3, SMT DEF PhaseOK, Retained
<1> QED
  BY <1>1, <1>2, <1>3, <1>4, <1>5, SMT DEF QueueOK, Grown, Moved

\* ResetForSnapshot empties the queue.
LEMMA ResetKeeps ==
  ASSUME QueueOK, Q!ResetForSnapshot
  PROVE  QueueOK' /\ Grown /\ st'.DeliveredSeq = 0
<1>1. /\ minted' = minted
      /\ st' = Q!Blank(0, None, "snapshot", 1)
      /\ items' = [n \in {} |-> None]
  BY DEF Q!ResetForSnapshot
<1>2. /\ DOMAIN st' = StateFields
      /\ st'.Generation = 0 /\ st'.Phase = "snapshot"
      /\ st'.NextSeq = 0 /\ st'.ReadySeq = 0 /\ st'.DeliveredSeq = 0
  BY <1>1, BlankState
<1>3. DOMAIN items' = {}
  BY <1>1
<1>4. PhaseOK' /\ Retained
  BY <1>2, <1>3, SMT DEF PhaseOK, Retained
<1> QED
  BY <1>1, <1>2, <1>3, <1>4, SMT DEF QueueOK, Grown, Moved

\* Capture stages what the next number may carry.
LEMMA FollowingKinds ==
  ASSUME QueueOK, st.Generation # 0, ~Complete, NEW k \in Following
  PROVE  k \in KindsAt(st.NextSeq + 1)
<1>1. /\ PhaseOK /\ st.NextSeq \in Nat /\ st.ReadySeq \in Nat /\ st.ReadySeq <= st.NextSeq
      /\ \A n \in DOMAIN items : items[n].body \in KindsAt(n)
  BY DEF QueueOK
<1>2. CASE st.NextSeq = 0
  <2>1. Following = {Plain("snapshot_begin", None)}
    BY <1>1, <1>2, SMT DEF Following
  <2>2. st.NextSeq + 1 = 1
    BY <1>2, SMT
  <2> QED
    BY <2>1, <2>2 DEF KindsAt
<1>3. CASE st.NextSeq > 0 /\ st.Phase = "snapshot"
  <2>1. st.NextSeq \in {1, 2} /\ st.NextSeq \in DOMAIN items /\ st.NextSeq > st.ReadySeq
    BY <1>1, <1>3, SMT DEF PhaseOK
  <2>2. st.NextSeq # 2
    <3>1. SUFFICES ASSUME st.NextSeq = 2 PROVE FALSE
      OBVIOUS
    <3>2. items[st.NextSeq].body \in KindsAt(2)
      BY <1>1, <2>1, <3>1
    <3>3. items[st.NextSeq].body = Plain("snapshot_end", None)
      BY <3>2, SMT DEF KindsAt
    <3>4. items[st.NextSeq].body.kind = "snapshot_end"
      BY <3>3, SMT DEF Plain
    <3> QED
      BY <2>1, <3>4 DEF Complete, Closing
  <2>3. k = Plain("snapshot_end", None)
    BY <1>3, SMT DEF Following
  <2> QED
    BY <2>1, <2>2, <2>3, SMT DEF KindsAt
<1>4. CASE st.NextSeq > 0 /\ st.Phase # "snapshot"
  <2>1. st.Phase = "stream" /\ st.NextSeq >= 2
    BY <1>1, <1>4, SMT DEF PhaseOK
  <2>2. k \in {Plain("transaction_rows", "tx"), Plain("transaction_end", "tx")}
    BY <1>4, <2>1, SMTT(30) DEF Following
  <2> QED
    BY <1>1, <2>1, <2>2, SMT DEF KindsAt
<1> QED
  BY <1>1, <1>2, <1>3, <1>4, SMT

\* Append stages a message its number may carry.
LEMMA AppendKeeps ==
  ASSUME QueueOK, CaptureAppend
  PROVE  /\ QueueOK' /\ Grown /\ st'.DeliveredSeq = st.DeliveredSeq
         /\ st'.Generation = st.Generation
<1>1. PICK k \in Following : Q!AppendMessage([body |-> k, version |-> None, lsn |-> None])
  BY DEF CaptureAppend
<1> DEFINE m == [body |-> k, version |-> None, lsn |-> None]
<1>2. /\ st.Generation # 0 /\ ~Complete /\ minted' = minted
      /\ items' = [n \in DOMAIN items \cup {st.NextSeq + 1} |->
                     IF n = st.NextSeq + 1 THEN Q!Stamped(m) ELSE items[n]]
      /\ st' = [st EXCEPT !.NextSeq = @ + 1, !.Bytes = @ + Q!Stamped(m).size]
  BY <1>1 DEF CaptureAppend, Q!AppendMessage
<1>3. /\ Q!Stamped(m).Generation = st.Generation
      /\ Q!Stamped(m).SchemaVersion = st.SchemaHash
      /\ Q!Stamped(m).body \in KindsAt(st.NextSeq + 1)
  BY <1>2, FollowingKinds DEF Q!Stamped
<1> HIDE DEF m
<1>4. /\ DOMAIN st' = StateFields /\ st'.NextSeq = st.NextSeq + 1
      /\ st'.Generation = st.Generation /\ st'.SchemaHash = st.SchemaHash
      /\ st'.ReadySeq = st.ReadySeq /\ st'.DeliveredSeq = st.DeliveredSeq
      /\ st'.Phase = st.Phase
  BY <1>2, SMT DEF QueueOK, StateFields
<1>5. /\ st.NextSeq + 1 \in Nat \ {0} /\ st.NextSeq \in Nat /\ st.ReadySeq \in Nat
      /\ st.ReadySeq <= st.NextSeq /\ st.SchemaHash = Hash /\ PhaseOK
      /\ \A n \in DOMAIN items : items[n].body \in KindsAt(n)
  BY <1>2, SMT DEF QueueOK
<1>6. /\ DOMAIN items' = DOMAIN items \cup {st.NextSeq + 1}
      /\ \A n \in DOMAIN items' : n # st.NextSeq + 1 => n \in DOMAIN items /\ items'[n] = items[n]
      /\ items'[st.NextSeq + 1] = Q!Stamped(m)
  BY <1>2
<1>7. \A n \in DOMAIN items' :
       /\ n \in Nat \ {0}
       /\ items'[n].Generation = st'.Generation /\ st'.Generation # 0
       /\ items'[n].SchemaVersion = Hash /\ items'[n].body \in KindsAt(n)
  <2> SUFFICES ASSUME NEW n \in DOMAIN items'
               PROVE  /\ n \in Nat \ {0}
                      /\ items'[n].Generation = st'.Generation /\ st'.Generation # 0
                      /\ items'[n].SchemaVersion = Hash /\ items'[n].body \in KindsAt(n)
    OBVIOUS
  <2>1. CASE n = st.NextSeq + 1
    BY <1>2, <1>3, <1>4, <1>5, <1>6, <2>1
  <2>2. CASE n # st.NextSeq + 1
    BY <1>2, <1>4, <1>6, <2>2 DEF QueueOK
  <2> QED
    BY <2>1, <2>2
<1>8. Retained
  <2>1. ~(st.NextSeq + 1 <= st.ReadySeq)
    BY <1>5, SMT
  <2> QED
    BY <1>6, <2>1 DEF Retained
<1>9. PhaseOK'
  <2>1. st.Phase # "stream" => st.NextSeq + 1 <= 2
    <3>1. SUFFICES ASSUME st.Phase # "stream", st.NextSeq = 2 PROVE FALSE
      BY <1>5, SMT DEF PhaseOK
    <3>2. st.NextSeq \in DOMAIN items /\ st.NextSeq > st.ReadySeq
      BY <1>5, <3>1, SMT DEF PhaseOK
    <3>3. items[st.NextSeq].body \in KindsAt(2)
      BY <1>5, <3>1, <3>2
    <3>4. items[st.NextSeq].body = Plain("snapshot_end", None)
      BY <3>3, SMT DEF KindsAt
    <3>5. items[st.NextSeq].body.kind = "snapshot_end"
      BY <3>4, SMT DEF Plain
    <3> QED
      BY <1>2, <3>2, <3>5 DEF Complete, Closing
  <2>2. st'.NextSeq \in DOMAIN items'
    BY <1>4, <1>6
  <2> QED
    BY <1>4, <1>5, <2>1, <2>2 DEF PhaseOK
<1> QED
  BY <1>2, <1>4, <1>5, <1>7, <1>8, <1>9, SMTT(60) DEF QueueOK, Grown, Moved

\* Publish moves ReadySeq over the staged messages.
LEMMA PublishKeeps ==
  ASSUME QueueOK, CapturePublish
  PROVE  /\ QueueOK' /\ Grown /\ st'.DeliveredSeq = st.DeliveredSeq
         /\ st'.Generation = st.Generation
<1>1. /\ minted' = minted /\ items' = items /\ Complete
      /\ st' = [st EXCEPT !.Phase = IF st.Phase = "snapshot" THEN "stream" ELSE @,
                          !.ReadySeq = st.NextSeq, !.DurableLSN = Position,
                          !.SourceCleanup = None]
  BY DEF CapturePublish, Q!Publish, Q!PublishSource
<1>2. /\ DOMAIN st' = StateFields /\ st'.NextSeq = st.NextSeq
      /\ st'.Generation = st.Generation /\ st'.SchemaHash = st.SchemaHash
      /\ st'.ReadySeq = st.NextSeq /\ st'.DeliveredSeq = st.DeliveredSeq
      /\ st'.Phase = IF st.Phase = "snapshot" THEN "stream" ELSE st.Phase
  BY <1>1, SMT DEF QueueOK, StateFields
<1>3. /\ PhaseOK /\ st.NextSeq \in Nat /\ st.ReadySeq \in Nat /\ st.NextSeq > st.ReadySeq
      /\ st.Generation # 0
  BY <1>1, SMT DEF QueueOK, Complete
<1>4. st.Phase # "stream" => st.NextSeq >= 2
  <2>1. SUFFICES ASSUME st.NextSeq = 1 PROVE FALSE
    BY <1>3, SMT
  <2>2. items[st.NextSeq].body \in KindsAt(1)
    BY <1>3, <2>1 DEF QueueOK, PhaseOK
  <2>3. items[st.NextSeq].body = Plain("snapshot_begin", None)
    BY <2>2, SMT DEF KindsAt
  <2>4. items[st.NextSeq].body.kind = "snapshot_begin"
    BY <2>3, SMT DEF Plain
  <2> QED
    BY <1>1, <2>4 DEF Complete, Closing
<1>5. PhaseOK' /\ Retained
  <2>1. PhaseOK'
    BY <1>1, <1>2, <1>3, <1>4, SMTT(30) DEF PhaseOK
  <2> QED
    BY <1>1, <2>1 DEF Retained
<1> QED
  BY <1>1, <1>2, <1>5, SMT DEF QueueOK, Grown, Moved

\* Recover drops what is staged and nothing else.
LEMMA RecoverKeeps ==
  ASSUME QueueOK, Q!Recover
  PROVE  /\ QueueOK' /\ Grown /\ st'.DeliveredSeq = st.DeliveredSeq
         /\ st'.Generation = st.Generation
<1>1. /\ minted' = minted
      /\ items' = [n \in DOMAIN items \ Q!Unpublished |-> items[n]]
      /\ st' = [st EXCEPT !.Bytes = @ - Q!Total(items, st.ReadySeq + 1, st.NextSeq),
                          !.NextSeq = st.ReadySeq]
  BY DEF Q!Recover
<1>2. /\ DOMAIN st' = StateFields /\ st'.NextSeq = st.ReadySeq /\ st'.Phase = st.Phase
      /\ st'.Generation = st.Generation /\ st'.SchemaHash = st.SchemaHash
      /\ st'.ReadySeq = st.ReadySeq /\ st'.DeliveredSeq = st.DeliveredSeq
  BY <1>1, SMT DEF QueueOK, StateFields
<1>3. \A n \in DOMAIN items' : n \in DOMAIN items /\ items'[n] = items[n]
  BY <1>1
<1>4. \A n \in DOMAIN items' :
       /\ n \in Nat \ {0}
       /\ items'[n].Generation = st'.Generation /\ st'.Generation # 0
       /\ items'[n].SchemaVersion = Hash /\ items'[n].body \in KindsAt(n)
  BY <1>2, <1>3 DEF QueueOK
<1>5. Retained
  BY <1>3 DEF Retained
<1>6. PhaseOK'
  <2>1. PhaseOK /\ st.ReadySeq \in Nat
    BY DEF QueueOK
  <2> QED
    BY <1>2, <2>1, SMT DEF PhaseOK
<1> QED
  BY <1>1, <1>2, <1>4, <1>5, <1>6, SMTT(30) DEF QueueOK, Grown, Moved

\* Ack advances DeliveredSeq by one, within what is published.
LEMMA AckKeeps ==
  ASSUME QueueOK, NEW seq, NEW id, Q!Ack(seq, id, {})
  PROVE  /\ QueueOK' /\ Grown
         /\ st'.DeliveredSeq = seq /\ st'.Generation = st.Generation
         /\ seq = st.DeliveredSeq + 1 /\ seq <= st.ReadySeq /\ st.Generation # 0
<1> DEFINE first == IF st.EarliestSeq = 0 THEN 1 ELSE st.EarliestSeq
           archive == st.ArchiveBytes + Q!SizeAt(items, seq)
<1>1. PICK e \in first..(seq + 1) :
        /\ items' = [n \in DOMAIN items \ (first..(e - 1)) |-> items[n]]
        /\ st' = [st EXCEPT !.Bytes = @ - Q!SizeAt(items, seq),
                            !.ArchiveBytes = archive - Q!Total(items, first, e - 1),
                            !.DeliveredSeq = seq, !.EarliestSeq = e]
  BY DEF Q!Ack
<1>2. /\ minted' = minted /\ seq = st.DeliveredSeq + 1 /\ seq <= st.ReadySeq
      /\ seq \in DOMAIN items
  BY DEF Q!Ack
<1> HIDE DEF first, archive
<1>3. /\ DOMAIN st' = StateFields /\ st'.NextSeq = st.NextSeq /\ st'.Phase = st.Phase
      /\ st'.Generation = st.Generation /\ st'.SchemaHash = st.SchemaHash
      /\ st'.ReadySeq = st.ReadySeq /\ st'.DeliveredSeq = seq
  BY <1>1, SMT DEF QueueOK, StateFields
<1>4. \A n \in DOMAIN items' : n \in DOMAIN items /\ items'[n] = items[n]
  BY <1>1
<1>5. \A n \in DOMAIN items' :
       /\ n \in Nat \ {0}
       /\ items'[n].Generation = st'.Generation /\ st'.Generation # 0
       /\ items'[n].SchemaVersion = Hash /\ items'[n].body \in KindsAt(n)
  BY <1>3, <1>4 DEF QueueOK
<1>6. st.Generation # 0
  BY <1>2 DEF QueueOK
<1>7. Retained
  BY <1>4 DEF Retained
<1>8. PhaseOK'
  <2>1. PhaseOK /\ st.NextSeq \in Nat /\ st.ReadySeq \in Nat /\ seq \in Nat
    BY <1>2, SMT DEF QueueOK
  <2>2. st.NextSeq > st.ReadySeq => ~(st.NextSeq <= e - 1)
    <3>1. e \in Int /\ e <= seq + 1
      BY <1>1, <2>1, SMT
    <3> QED
      BY <1>2, <2>1, <3>1, SMT
  <2>3. st.NextSeq \in DOMAIN items /\ ~(st.NextSeq <= e - 1) => st.NextSeq \in DOMAIN items'
    <3>1. st.NextSeq \in first..(e - 1) => st.NextSeq <= e - 1
      BY SMT
    <3> QED
      BY <1>1, <3>1
  <2> QED
    BY <1>3, <2>1, <2>2, <2>3 DEF PhaseOK
<1> QED
  BY <1>2, <1>3, <1>5, <1>6, <1>7, <1>8, SMTT(30) DEF QueueOK, Grown, Moved

-----------------------------------------------------------------------------
(* The target's steps.                                                     *)

\* What the fields of a message are, by its number.
LEMMA MessageFields ==
  ASSUME NEW n \in Nat \ {0}, NEW b \in MessagesAt(n)
  PROVE  /\ n = 1 => b.kind = "snapshot_begin"
         /\ n = 2 => b.kind = "snapshot_end"
         /\ n > 2 => b.kind \in {"transaction_rows", "transaction_end"} /\ b.tx = "tx"
         /\ b.version = Hash
<1>1. PICK k \in KindsAt(n) : b = Encoded(k)
  BY DEF MessagesAt
<1>2. b.kind = k.kind /\ b.tx = k.tx /\ b.version = Hash
  BY <1>1, SMT DEF Encoded
<1>3. /\ n = 1 => k = Plain("snapshot_begin", None)
      /\ n = 2 => k = Plain("snapshot_end", None)
      /\ n > 2 => k \in {Plain("transaction_rows", "tx"), Plain("transaction_end", "tx")}
  BY SMT DEF KindsAt
<1>4. /\ n = 1 => k.kind = "snapshot_begin"
      /\ n = 2 => k.kind = "snapshot_end"
      /\ n > 2 => k.kind \in {"transaction_rows", "transaction_end"} /\ k.tx = "tx"
  BY <1>3, SMT DEF Plain
<1> QED
  BY <1>2, <1>4

\* What a number may carry is one of the messages.
LEMMA EncodedKinds ==
  ASSUME NEW n, NEW k \in KindsAt(n)
  PROVE  Encoded(k) \in MessagesAt(n) /\ Encoded(k) \in Messages
<1>1. KindsAt(n) \subseteq Kinds
  BY DEF KindsAt, Kinds
<1> QED
  BY <1>1 DEF MessagesAt, Messages

\* The transaction a row has open, by the last message of its log.
LEMMA RowOpen ==
  ASSUME NEW d, RowOK(d)
  PROVE  /\ d.OpenTransaction \in {None, "tx"}
         /\ d.Received <= 2 => d.OpenTransaction = None
<1>1. d.OpenTransaction \in {None, "tx"}
  BY DEF RowOK
<1>2. ASSUME d.Received > 0, d.Received <= 2
      PROVE  d.message_hash[d.Received].kind # "transaction_rows"
  <2>1. /\ d.Received \in 1..d.Received /\ d.Received \in Nat \ {0}
        /\ d.Received \in {1, 2}
    BY <1>2, SMT DEF RowOK
  <2>2. d.message_hash[d.Received] \in MessagesAt(d.Received)
    BY <2>1 DEF RowOK
  <2>3. d.message_hash[d.Received].kind \in {"snapshot_begin", "snapshot_end"}
    BY <2>1, <2>2, MessageFields
  <2> QED
    BY <2>3
<1> QED
  BY <1>1, <1>2 DEF RowOK

\* The fields of a row after a message.
LEMMA AfterFields ==
  ASSUME NEW d, DOMAIN d = DbFields, NEW m, db' = T!After(d, m)
  PROVE  /\ DOMAIN db' = DbFields
         /\ db'.Generation = d.Generation /\ db'.Received = m.seq
         /\ db'.Phase = T!PhaseAfter(d, m.body)
         /\ db'.OpenTransaction = T!OpenAfter(d, m.body)
         /\ db'.SchemaVersion = IF m.body.kind = "schema_end" THEN d.Pending ELSE d.SchemaVersion
         /\ db'.Pending = T!PendingAfter(d, m.body)
         /\ db'.message_hash = [n \in DOMAIN d.message_hash \cup {m.seq} |->
                                  IF n = m.seq THEN m.body ELSE d.message_hash[n]]
<1> DEFINE ph == T!PhaseAfter(d, m.body)
           op == T!OpenAfter(d, m.body)
           sv == IF m.body.kind = "schema_end" THEN d.Pending ELSE d.SchemaVersion
           pe == T!PendingAfter(d, m.body)
           ib == T!InboxAfter(d, m)
           sn == T!SnapshotAfter(d, m)
           sc == CASE m.body.kind = "snapshot_begin" -> m.body.scope
                   [] m.body.kind = "snapshot_end" -> {}
                   [] OTHER -> d.scope
           sg == T!StageAfter(d, m.body)
           mh == [n \in DOMAIN d.message_hash \cup {m.seq} |->
                    IF n = m.seq THEN m.body ELSE d.message_hash[n]]
           ap == IF m.body.kind \in T!Applies THEN m.seq ELSE d.Applied
<1>1. db' = [d EXCEPT !.Received = m.seq, !.Applied = ap, !.Phase = ph,
                      !.OpenTransaction = op, !.SchemaVersion = sv, !.Pending = pe,
                      !.inbox = ib, !.snapshot_rows = sn, !.scope = sc,
                      !.schema_stage = sg, !.message_hash = mh]
  BY DEF T!After
<1> HIDE DEF ph, op, sv, pe, ib, sn, sc, sg, mh, ap
<1>2. DOMAIN db' = DbFields
  BY <1>1
<1>3. /\ db'.Generation = d.Generation /\ db'.Received = m.seq
      /\ db'.Phase = ph /\ db'.OpenTransaction = op /\ db'.SchemaVersion = sv
      /\ db'.Pending = pe /\ db'.message_hash = mh
  BY <1>1, SMT DEF DbFields
<1> QED
  BY <1>2, <1>3 DEF ph, op, sv, pe, mh

\* The row a generation switch starts from.
LEMMA FreshRow ==
  ASSUME NEW gen, NEW version, NEW auth
  PROVE  /\ RowOK(T!Fresh(gen, version, auth))
         /\ T!Fresh(gen, version, auth).Generation = gen
         /\ T!Fresh(gen, version, auth).Received = 0
         /\ T!Fresh(gen, version, auth).SchemaVersion = version
<1>1. PICK e : e = T!NoRow
  OBVIOUS
<1>2. DOMAIN e = {}
  BY <1>1 DEF T!NoRow
<1>3. PICK d : d = T!Fresh(gen, version, auth)
  OBVIOUS
<1>4. d.message_hash = e
  BY <1>1, <1>3, SMTT(30) DEF T!Fresh
<1>5. /\ DOMAIN d = DbFields
      /\ d.Generation = gen /\ d.Received = 0 /\ d.Phase = None
      /\ d.OpenTransaction = None /\ d.SchemaVersion = version /\ d.Pending = None
  BY <1>3, SMT DEF T!Fresh, DbFields
<1>6. RowOK(d)
  BY <1>2, <1>4, <1>5, SMTT(30) DEF RowOK
<1> QED
  BY <1>3, <1>5, <1>6

\* The message a holder of the lease stores: the next one, or the first one of
\* another generation.
Expected(m) == /\ m.gen \in 1..minted /\ m.seq \in Nat \ {0} /\ m.body \in MessagesAt(m.seq)
               /\ m.seq = IF m.gen = db.Generation THEN db.Received + 1 ELSE 1

\* The state row that store works on is that of the message's own generation.
LEMMA CurrentRow ==
  ASSUME TargetOK, NEW m, Expected(m)
  PROVE  /\ RowOK(T!Current(m)) /\ T!Current(m).SchemaVersion = Hash
         /\ T!Current(m).Generation = m.gen /\ m.seq = T!Current(m).Received + 1
<1>1. CASE m.gen = db.Generation
  <2>1. T!Current(m) = db /\ m.seq = db.Received + 1
    BY <1>1 DEF T!Current, Expected
  <2>2. db.Generation # 0
    BY <1>1, SMT DEF Expected
  <2> QED
    BY <1>1, <2>1, <2>2 DEF TargetOK
<1>2. CASE m.gen # db.Generation
  <2>1. T!Current(m) = T!Fresh(m.gen, m.body.version, db.Authorized) /\ m.seq = 1
    BY <1>2 DEF T!Current, Expected
  <2>2. m.body.version = Hash
    BY MessageFields DEF Expected
  <2>3. /\ RowOK(T!Current(m)) /\ T!Current(m).Generation = m.gen
        /\ T!Current(m).SchemaVersion = Hash /\ T!Current(m).Received = 0
    <3>1. PICK auth : T!Current(m) = T!Fresh(m.gen, Hash, auth)
      BY <2>1, <2>2
    <3>2. /\ RowOK(T!Fresh(m.gen, Hash, auth)) /\ T!Fresh(m.gen, Hash, auth).Generation = m.gen
          /\ T!Fresh(m.gen, Hash, auth).SchemaVersion = Hash
          /\ T!Fresh(m.gen, Hash, auth).Received = 0
      BY FreshRow, SMT
    <3> QED
      BY <3>1, <3>2
  <2>4. m.seq = T!Current(m).Received + 1
    BY <2>1, <2>3, SMT
  <2> QED
    BY <2>3, <2>4
<1> QED
  BY <1>1, <1>2

\* The target takes such a message: of store's checks only the one that compares
\* the open transaction can refuse it, and only when it ends an empty one.
Welcome(m) ==
  LET d == T!Current(m)
  IN  /\ T!SwitchAllowed(m) /\ T!Contiguous(d, m)
      /\ T!Barrier(d, m.body) /\ T!InPhase(d, m.body)
      /\ T!Batch(d, m.body) \/ (m.body.kind = "transaction_end" /\ d.OpenTransaction = None)

LEMMA ExpectedWelcome ==
  ASSUME TargetOK, NEW m, Expected(m)
  PROVE  Welcome(m)
<1>1. PICK d : d = T!Current(m)
  OBVIOUS
<1>2. PICK n \in Nat \ {0} : n = m.seq
  BY DEF Expected
<1>3. /\ RowOK(d) /\ d.SchemaVersion = Hash /\ n = d.Received + 1
  BY <1>1, <1>2, CurrentRow
<1>4. PICK b : b = m.body
  OBVIOUS
<1>5. /\ n = 1 => b.kind = "snapshot_begin"
      /\ n = 2 => b.kind = "snapshot_end"
      /\ n > 2 => b.kind \in {"transaction_rows", "transaction_end"} /\ b.tx = "tx"
      /\ b.version = Hash
  BY <1>2, <1>4, MessageFields DEF Expected
<1>6. n = 1 \/ n = 2 \/ n > 2
  BY SMT
<1>7. /\ d.Pending = None /\ d.Received \in Nat
      /\ d.Received = 1 => d.Phase = "snapshot"
      /\ d.Received > 1 => d.Phase = "stream"
      /\ d.OpenTransaction \in {None, "tx"}
  BY <1>3, RowOpen DEF RowOK
<1>8. T!Barrier(d, b)
  BY <1>3, <1>5, <1>6, <1>7, SMTT(30) DEF T!Barrier
<1>9. T!Batch(d, b) \/ (b.kind = "transaction_end" /\ d.OpenTransaction = None)
  BY <1>5, <1>6, <1>7, SessionAssumption, SMTT(30) DEF T!Batch, T!Opens, T!Closes
<1>10. T!InPhase(d, b)
  BY <1>3, <1>5, <1>6, <1>7, SMTT(30) DEF T!InPhase
<1>11. T!Contiguous(d, m)
  BY <1>2, <1>3 DEF T!Contiguous
<1>12. T!SwitchAllowed(m)
  BY <1>2, <1>4, <1>5 DEF T!SwitchAllowed, Expected
<1> QED
  BY <1>1, <1>4, <1>8, <1>9, <1>10, <1>11, <1>12 DEF Welcome

\* Storing it leads to the row of its number.
LEMMA StoreKeeps ==
  ASSUME TargetOK, NEW m, Expected(m), NEW s, T!Commits(s, m), minted' = minted, minted \in Nat
  PROVE  /\ TargetOK' /\ db'.Generation = m.gen /\ db'.Received = m.seq
         /\ db'.message_hash[m.seq] = m.body
         /\ m.gen = db.Generation =>
              \A k \in 1..db.Received : db'.message_hash[k] = db.message_hash[k]
<1>1. PICK d : d = T!Current(m)
  OBVIOUS
<1>2. PICK n \in Nat \ {0} : n = m.seq
  BY DEF Expected
<1>3. RowOK(d) /\ d.SchemaVersion = Hash /\ n = d.Received + 1 /\ d.Generation = m.gen
  BY <1>1, <1>2, CurrentRow
<1>4. PICK b : b = m.body
  OBVIOUS
<1>5. /\ n = 1 => b.kind = "snapshot_begin"
      /\ n = 2 => b.kind = "snapshot_end"
      /\ n > 2 => b.kind \in {"transaction_rows", "transaction_end"} /\ b.tx = "tx"
      /\ b.version = Hash
  BY <1>2, <1>4, MessageFields DEF Expected
<1>6. n = 1 \/ n = 2 \/ n > 2
  BY SMT
<1>7. /\ d.Pending = None /\ d.Received \in Nat
      /\ d.Received = 1 => d.Phase = "snapshot"
      /\ d.Received > 1 => d.Phase = "stream"
      /\ d.Received <= 2 => d.OpenTransaction = None
  BY <1>3, RowOpen DEF RowOK
<1>8. db' = T!After(d, m)
  BY <1>1 DEF T!Commits
<1>9. /\ DOMAIN db' = DbFields
      /\ db'.Generation = m.gen /\ db'.Received = n
      /\ db'.Phase = T!PhaseAfter(d, b)
      /\ db'.OpenTransaction = T!OpenAfter(d, b)
      /\ db'.SchemaVersion = IF b.kind = "schema_end" THEN d.Pending ELSE d.SchemaVersion
      /\ db'.Pending = T!PendingAfter(d, b)
      /\ db'.message_hash = [k \in DOMAIN d.message_hash \cup {n} |->
                               IF k = n THEN b ELSE d.message_hash[k]]
  <2>1. DOMAIN d = DbFields
    BY <1>3 DEF RowOK
  <2>2. /\ DOMAIN db' = DbFields
        /\ db'.Generation = d.Generation /\ db'.Received = m.seq
        /\ db'.Phase = T!PhaseAfter(d, m.body)
        /\ db'.OpenTransaction = T!OpenAfter(d, m.body)
        /\ db'.SchemaVersion = IF m.body.kind = "schema_end" THEN d.Pending ELSE d.SchemaVersion
        /\ db'.Pending = T!PendingAfter(d, m.body)
        /\ db'.message_hash = [k \in DOMAIN d.message_hash \cup {m.seq} |->
                                 IF k = m.seq THEN m.body ELSE d.message_hash[k]]
    BY <1>8, <2>1, AfterFields, SMT
  <2> QED
    BY <1>2, <1>3, <1>4, <2>2, ZenonT(40)
<1>10. b.kind # "schema_end" /\ b.kind # "schema" /\ db'.SchemaVersion = Hash
  BY <1>3, <1>5, <1>6, <1>9, SMT
<1>11. T!PendingAfter(d, b) = None
  BY <1>7, <1>10, SMT DEF T!PendingAfter
<1>12. /\ n = 1 => T!PhaseAfter(d, b) = "snapshot"
       /\ n > 1 => T!PhaseAfter(d, b) = "stream"
  BY <1>3, <1>5, <1>6, <1>7, SMTT(30) DEF T!PhaseAfter
<1>13. T!OpenAfter(d, b) = IF b.kind = "transaction_rows" THEN "tx" ELSE None
  <2>1. n <= 2 => d.OpenTransaction = None
    BY <1>3, <1>7, SMTT(30)
  <2> QED
    BY <1>5, <1>6, <2>1, SMTT(30) DEF T!OpenAfter, T!Opens, T!Closes
<1>14. DOMAIN d.message_hash \cup {n} = 1..n
  BY <1>3, <1>7, SMT DEF RowOK
<1>15. DOMAIN db'.message_hash = 1..n
  BY <1>9, <1>14
<1>16. \A k \in 1..n : db'.message_hash[k] = IF k = n THEN b ELSE d.message_hash[k]
  BY <1>9, <1>14
<1>17. ASSUME NEW k \in 1..n
       PROVE  db'.message_hash[k] \in MessagesAt(k)
  <2>1. CASE k = n
    BY <1>2, <1>4, <1>16, <2>1 DEF Expected
  <2>2. CASE k # n
    <3>1. k \in 1..d.Received
      BY <1>3, <1>7, <2>2, SMTT(30)
    <3> QED
      BY <1>3, <1>16, <2>2, <3>1 DEF RowOK
  <2> QED
    BY <2>1, <2>2
<1>18. n \in 1..n /\ n > 0
  BY SMT
<1>19. db'.message_hash[n] = b
  BY <1>16, <1>18
<1>20. RowOK(db)'
  <2>1. db'.OpenTransaction = IF db'.Received > 0 /\ db'.message_hash[db'.Received].kind = "transaction_rows"
                              THEN "tx" ELSE None
    BY <1>9, <1>13, <1>18, <1>19
  <2> QED
    BY <1>9, <1>11, <1>12, <1>15, <1>17, <2>1, SMTT(30) DEF RowOK
<1>21. m.gen \in 0..minted' /\ m.gen # 0
  BY SMT DEF Expected
<1>22. ASSUME m.gen = db.Generation, NEW k \in 1..db.Received
       PROVE  db'.message_hash[k] = db.message_hash[k]
  <2>1. d = db
    BY <1>1, <1>22 DEF T!Current
  <2>2. k \in 1..n /\ k # n
    BY <1>3, <1>7, <2>1, SMTT(30)
  <2> QED
    BY <1>16, <2>1, <2>2
<1> QED
  BY ZenonT(40), <1>2, <1>4, <1>9, <1>10, <1>19, <1>20, <1>21, <1>22 DEF TargetOK

-----------------------------------------------------------------------------
(* What every step keeps of the frames under way.                          *)

\* What a step may do to the target's generation and to received_seq.
Advanced == \/ db'.Generation = db.Generation /\ db.Received <= db'.Received
            \/ db.Generation < db'.Generation

\* An event on its way stays valid while the queue only grows.
LEMMA EventStable ==
  ASSUME QueueOK, QueueOK', Grown, NEW f, EventOK(f)
  PROVE  EventOK(f)'
<1>1. /\ minted \in Nat /\ minted' \in Nat
      /\ st.ReadySeq \in Nat /\ st'.ReadySeq \in Nat
  BY DEF QueueOK
<1>2. f.gen \in 1..minted'
  BY <1>1, SMT DEF EventOK, Grown, Moved
<1>3. f.gen = st'.Generation => f.seq <= st'.ReadySeq
  BY <1>1, SMT DEF EventOK, Grown, Moved
<1>4. Carried(f)'
  <2>1. SUFFICES ASSUME f.gen = st'.Generation, f.seq \in DOMAIN items'
                 PROVE  f.body = Payload(items'[f.seq])
    BY DEF Carried, Payload
  <2>2. st'.Generation = st.Generation
    BY <1>1, <2>1, SMT DEF EventOK, Grown, Moved
  <2>3. f.seq \in DOMAIN items /\ items'[f.seq] = items[f.seq]
    BY <2>1, <2>2 DEF EventOK, Grown, Retained
  <2> QED
    BY <2>1, <2>2, <2>3 DEF EventOK, Carried
<1> QED
  BY <1>2, <1>3, <1>4 DEF EventOK

\* An acknowledgement on its way stays valid while queue and target advance.
LEMMA AckStable ==
  ASSUME QueueOK, QueueOK', TargetOK, TargetOK', Grown, Advanced, NEW f, AckOK(f)
  PROVE  AckOK(f)'
<1>1. /\ minted \in Nat /\ minted' \in Nat /\ st.Generation \in {0, minted}
      /\ db.Received \in Nat /\ db'.Received \in Nat
      /\ db.Generation \in 0..minted /\ db'.Generation \in 0..minted'
  BY DEF QueueOK, TargetOK, RowOK
<1>2. f.gen \in 1..minted'
  BY <1>1, SMT DEF AckOK, Grown, Moved
<1>3. f.gen = st'.Generation => db'.Generation = st'.Generation /\ f.seq <= db'.Received
  BY <1>1, SMT DEF AckOK, Grown, Moved, Advanced
<1> QED
  BY <1>2, <1>3 DEF AckOK

\* A step of the queue alone.
LEMMA QueueStep ==
  ASSUME SessionInv, QueueOK', Grown, UNCHANGED db
  PROVE  TargetOK' /\ LogOK' /\ Advanced
<1>1. /\ minted \in Nat /\ minted' \in Nat /\ st.Generation \in {0, minted}
      /\ st.ReadySeq \in Nat /\ st'.ReadySeq \in Nat
      /\ db.Received \in Nat /\ db.Generation \in 0..minted
      /\ db.Generation = 0 => db.Received = 0
  BY DEF SessionInv, QueueOK, TargetOK, RowOK
<1>2. db'.Generation \in 0..minted'
  BY <1>1, SMT DEF Grown, Moved
<1>3. RowOK(db)'
  BY DEF SessionInv, TargetOK, RowOK
<1>4. TargetOK'
  BY <1>2, <1>3 DEF SessionInv, TargetOK
<1>5. LogOK'
  <2>1. db'.Generation = st'.Generation => db'.Received <= st'.ReadySeq
    BY <1>1, SMT DEF SessionInv, LogOK, Grown, Moved
  <2>2. ASSUME db'.Generation = st'.Generation, NEW n \in DOMAIN items', n <= db'.Received
        PROVE  db'.message_hash[n] = Payload(items'[n])
    <3>1. n \in Nat \ {0}
      BY DEF QueueOK
    <3>2. st'.Generation = st.Generation
      BY <1>1, <2>2, <3>1, SMTT(30) DEF Grown, Moved
    <3>3. n <= st.ReadySeq
      <4>1. db.Received <= st.ReadySeq
        BY <2>2, <3>2 DEF SessionInv, LogOK
      <4> QED
        BY <1>1, <2>2, <3>1, <4>1, SMTT(30)
    <3>4. n \in DOMAIN items /\ items'[n] = items[n]
      BY <3>2, <3>3 DEF Grown, Retained
    <3>5. db.message_hash[n] = Payload(items[n])
      BY <2>2, <3>2, <3>4 DEF SessionInv, LogOK, Copied
    <3> QED
      BY <3>4, <3>5
  <2>3. Copied'
    BY <2>2 DEF Copied, Payload
  <2> QED
    BY <2>1, <2>3 DEF LogOK
<1>6. Advanced
  BY <1>1, SMT DEF Advanced
<1> QED
  BY <1>4, <1>5, <1>6

\* A step of the queue that acknowledges nothing.
LEMMA DeliveredKept ==
  ASSUME SessionInv, UNCHANGED db,
         \/ st'.DeliveredSeq = 0
         \/ st'.DeliveredSeq = st.DeliveredSeq /\ st'.Generation = st.Generation
  PROVE  AckedIsDurable'
BY SMT DEF SessionInv, AckedIsDurable

\* A step of neither the queue nor the target's cursors.
LEMMA LinkStep ==
  ASSUME SessionInv, UNCHANGED queueVars, DOMAIN db' = DbFields,
         \A x \in DbFields \ {"Authorized"} : db'[x] = db[x]
  PROVE  /\ QueueOK' /\ TargetOK' /\ LogOK' /\ AckedIsDurable' /\ Grown /\ Advanced
         /\ db'.Generation = db.Generation /\ db'.Received = db.Received
<1>1. st' = st /\ items' = items /\ minted' = minted
  BY DEF queueVars
<1>2. /\ db'.Generation = db.Generation /\ db'.Received = db.Received
      /\ db'.Pending = db.Pending /\ db'.Phase = db.Phase
      /\ db'.OpenTransaction = db.OpenTransaction /\ db'.message_hash = db.message_hash
      /\ db'.SchemaVersion = db.SchemaVersion
  BY SMT DEF DbFields
<1>3. QueueOK'
  BY <1>1 DEF SessionInv, QueueOK, PhaseOK
<1>4. RowOK(db)'
  BY <1>2 DEF SessionInv, TargetOK, RowOK
<1>5. TargetOK'
  BY <1>1, <1>2, <1>4 DEF SessionInv, TargetOK
<1>6. LogOK' /\ AckedIsDurable'
  BY <1>1, <1>2 DEF SessionInv, LogOK, Copied, Payload, AckedIsDurable
<1>7. st.ReadySeq \in Nat /\ db.Received \in Nat
  BY DEF SessionInv, QueueOK, TargetOK, RowOK
<1>8. Grown /\ Advanced
  <2>1. Retained
    BY <1>1 DEF Retained
  <2> QED
    BY <1>1, <1>2, <1>7, <2>1, SMTT(30) DEF Grown, Moved, Advanced
<1> QED
  BY <1>2, <1>3, <1>5, <1>6, <1>8

-----------------------------------------------------------------------------
(* The handlers when a stream ends.                                        *)

\* Handler s is off its stream and has at most noticed it, or has been restarted.
Quits(s) == \/ handler'[s] = Idle
            \/ /\ ~handler'[s].live /\ handler'[s].gen = handler[s].gen
               /\ \/ handler'[s].pc = "done" /\ handler[s].pc # "none"
                  \/ /\ handler'[s].pc = handler[s].pc /\ handler'[s].next = handler[s].next
                     /\ handler'[s].event = handler[s].event

\* The handler of a process without a stream.
LEMMA IdleType ==
  /\ Idle \in Handlers /\ Idle.pc = "none" /\ ~Idle.live /\ Idle.gen = 0
BY SMT DEF Idle, Handlers

\* Every handler quits when the sender or the network ends the stream.
LEMMA OrphanedQuit ==
  ASSUME HandlersOK, WireOK, handler' = Orphaned
  PROVE  handler' \in [Servers -> Handlers] /\ \A s \in Servers : Quits(s)
<1>1. handler \in [Servers -> Handlers]
  BY DEF HandlersOK
<1>2. \A h \in Handlers : /\ [h EXCEPT !.live = FALSE] \in Handlers
                          /\ [h EXCEPT !.live = FALSE].pc = h.pc
                          /\ ~[h EXCEPT !.live = FALSE].live
                          /\ [h EXCEPT !.live = FALSE].gen = h.gen
                          /\ [h EXCEPT !.live = FALSE].next = h.next
                          /\ [h EXCEPT !.live = FALSE].event = h.event
  BY DEF Handlers
<1>3. handler' \in [Servers -> Handlers]
  BY <1>1, <1>2 DEF Orphaned
<1>4. ASSUME NEW s \in Servers PROVE Quits(s)
  <2>1. handler[s] \in Handlers
    BY <1>1
  <2>2. CASE conn.up /\ conn.to = s
    <3>1. handler'[s] = [handler[s] EXCEPT !.live = FALSE]
      BY <2>2 DEF Orphaned
    <3> QED
      BY <1>2, <2>1, <3>1 DEF Quits
  <2>3. CASE ~(conn.up /\ conn.to = s)
    <3>1. handler'[s] = handler[s] /\ ~handler[s].live
      BY <2>3 DEF Orphaned, WireOK
    <3> QED
      BY <3>1 DEF Quits
  <2> QED
    BY <2>2, <2>3
<1> QED
  BY <1>3, <1>4

\* The handlers that refuse, finish or die leave the others as they are.
LEMMA HandlerSet ==
  ASSUME HandlersOK, NEW s \in Servers, NEW h \in Handlers,
         handler' = [handler EXCEPT ![s] = h]
  PROVE  /\ handler' \in [Servers -> Handlers] /\ handler'[s] = h
         /\ \A r \in Servers \ {s} : handler'[r] = handler[r]
BY DEF HandlersOK

\* The fields of a handler whose program counter moves.
LEMMA HandlerMoves ==
  ASSUME HandlersOK, NEW s \in Servers,
         NEW pc \in {"none", "lease", "resume", "wait", "store", "done"}, NEW live \in BOOLEAN,
         handler' = [handler EXCEPT ![s].pc = pc, ![s].live = live]
  PROVE  /\ handler' \in [Servers -> Handlers]
         /\ handler'[s].pc = pc /\ handler'[s].live = live
         /\ handler'[s].gen = handler[s].gen /\ handler'[s].next = handler[s].next
         /\ handler'[s].event = handler[s].event
         /\ \A r \in Servers \ {s} : handler'[r] = handler[r]
<1> DEFINE h == [handler[s] EXCEPT !.pc = pc, !.live = live]
<1>1. handler[s] \in Handlers
  BY DEF HandlersOK
<1>2. /\ h \in Handlers /\ h.pc = pc /\ h.live = live /\ h.gen = handler[s].gen
      /\ h.next = handler[s].next /\ h.event = handler[s].event
  BY <1>1 DEF Handlers
<1>3. handler' = [handler EXCEPT ![s] = h]
  BY DEF HandlersOK
<1> HIDE DEF h
<1> QED
  BY <1>2, <1>3, HandlerSet

\* The stream is gone: both directions are empty and no handler is on it.
Cut == /\ conn' = Down /\ sender' \in {"recv", "stopped"} /\ paused' \in BOOLEAN
       /\ lease' \in Servers \cup {None} /\ (lease' = lease \/ lease' = None)
       /\ handler' \in [Servers -> Handlers] /\ \A s \in Servers : Quits(s)

\* A handler that does nothing, or quits, keeps what is known of it.
LEMMA HandlerKept ==
  ASSUME HandlersOK, QueueOK, QueueOK', Grown, NEW s \in Servers,
         handler'[s] = handler[s] \/ Quits(s)
  PROVE  HandlerOK(s)'
<1>1. /\ minted \in Nat /\ minted' \in Nat /\ minted <= minted'
  BY SMT DEF QueueOK, Grown, Moved
<1>2. CASE handler'[s] = Idle
  <2>1. handler'[s].gen <= minted'
    BY <1>1, <1>2, IdleType, SMTT(30)
  <2>2. handler'[s].pc = "none"
    BY <1>2, IdleType
  <2> QED
    BY <2>1, <2>2 DEF HandlerOK
<1>3. CASE handler'[s] # Idle
  <2>1. /\ handler'[s].gen = handler[s].gen
        /\ handler'[s].pc # "none" => handler[s].pc # "none"
        /\ handler'[s].pc = "store" => /\ handler[s].pc = "store"
                                       /\ handler'[s].next = handler[s].next
                                       /\ handler'[s].event = handler[s].event
    BY <1>3 DEF Quits
  <2>2. HandlerOK(s) /\ handler[s] \in Handlers
    BY DEF HandlersOK
  <2>3. PICK gen \in Nat : gen = handler[s].gen
    BY <2>2 DEF Handlers
  <2>4. gen <= minted'
    BY <1>1, <2>2, <2>3, SMTT(30) DEF HandlerOK
  <2>5. PICK f : f = handler[s].event
    OBVIOUS
  <2>6. handler'[s].pc = "store" => /\ f \in Frames /\ EventOK(f)
                                    /\ f.seq = handler[s].next
                                    /\ f.gen = handler[s].gen
    BY <2>1, <2>2, <2>5 DEF HandlerOK
  <2>7. handler'[s].pc = "store" => EventOK(f)'
    BY <2>6, EventStable
  <2>8. handler'[s].pc = "store" /\ EventOK(f)' => EventOK(handler[s].event)'
    BY <2>1, <2>5 DEF EventOK, Carried, Payload
  <2>9. handler'[s].pc # "none" => handler'[s].gen > 0
    BY <2>1, <2>2 DEF HandlerOK
  <2> QED
    BY ZenonT(40), <2>1, <2>3, <2>4, <2>5, <2>6, <2>7, <2>8, <2>9 DEF HandlerOK
<1> QED
  BY <1>2, <1>3

\* Everything about the link holds when the stream is gone.
LEMMA CutKeeps ==
  ASSUME SessionInv, QueueOK', Grown, db'.Generation = db.Generation,
         db'.Received = db.Received, Cut
  PROVE  HandlersOK' /\ HoldersOK' /\ NewestOK' /\ WireOK'
<1>1. HandlersOK /\ QueueOK
  BY DEF SessionInv
<1>2. HandlersOK'
  <2>1. ASSUME NEW s \in Servers PROVE HandlerOK(s)'
    BY <1>1, HandlerKept DEF Cut
  <2> QED
    BY <2>1 DEF HandlersOK, Cut
<1>3. \A s \in Servers : ~handler'[s].live
  BY IdleType DEF Cut, Quits
<1>4. ASSUME NEW s \in Servers, lease' = s, handler'[s].pc \in {"wait", "store"}
      PROVE  HolderOK(s)'
  <2>1. lease = s
    BY <1>4, SessionAssumption DEF Cut
  <2>2. handler'[s].pc # "none" /\ handler'[s].pc # "done"
    BY <1>4
  <2>3. /\ handler'[s].pc = handler[s].pc /\ handler'[s].gen = handler[s].gen
        /\ handler'[s].next = handler[s].next
    BY <2>2, IdleType DEF Cut, Quits
  <2>4. HolderOK(s)
    BY <1>4, <2>1, <2>3 DEF SessionInv, HoldersOK
  <2> QED
    BY <2>3, <2>4 DEF HolderOK
<1>5. HoldersOK'
  BY <1>4 DEF HoldersOK
<1>6. NewestOK'
  BY <1>3 DEF NewestOK
<1>7. /\ Down \in Streams /\ ~Down.up /\ Down.c2s = <<>> /\ Down.s2c = <<>>
  <2>1. <<>> \in Seq(Frames)
    BY Transmit
  <2> QED
    BY <2>1 DEF Down, Streams
<1>8. sender' \in {"recv", "get", "stopped"} /\ sender' # "get"
  BY DEF Cut
<1>9. WireOK'
  BY <1>3, <1>7, <1>8 DEF WireOK, Cut
<1> QED
  BY <1>2, <1>5, <1>6, <1>9

\* A step that leaves the queue and the target alone.
LEMMA StillStep ==
  ASSUME SessionInv, UNCHANGED queueVars, UNCHANGED db
  PROVE  /\ QueueOK' /\ TargetOK' /\ LogOK' /\ AckedIsDurable' /\ Grown /\ Advanced
         /\ db'.Generation = db.Generation /\ db'.Received = db.Received
<1>1. DOMAIN db' = DbFields /\ \A x \in DbFields \ {"Authorized"} : db'[x] = db[x]
  BY DEF SessionInv, TargetOK, RowOK
<1> QED
  BY <1>1, LinkStep

\* The sender or the network ends the stream.
LEMMA DisconnectKeeps ==
  ASSUME SessionInv, QueueOK', Grown, db'.Generation = db.Generation,
         db'.Received = db.Received, Disconnect, sender' \in {"recv", "stopped"}, lease' = lease
  PROVE  HandlersOK' /\ HoldersOK' /\ NewestOK' /\ WireOK'
<1>1. HandlersOK /\ WireOK
  BY DEF SessionInv
<1>2. handler' = Orphaned /\ conn' = Down /\ paused' = FALSE
  BY DEF Disconnect
<1>3. handler' \in [Servers -> Handlers] /\ \A s \in Servers : Quits(s)
  BY <1>1, <1>2, OrphanedQuit
<1>4. Cut
  BY <1>1, <1>2, <1>3 DEF Cut, HandlersOK
<1> QED
  BY <1>4, CutKeeps

\* The handler ends the stream.
LEMMA RefuseKeeps ==
  ASSUME SessionInv, QueueOK', Grown, db'.Generation = db.Generation,
         db'.Received = db.Received, NEW s \in Servers, handler[s].live,
         handler[s].pc # "none", Refuse(s), sender' \in {"recv", "stopped"}, lease' = lease
  PROVE  HandlersOK' /\ HoldersOK' /\ NewestOK' /\ WireOK'
<1>1. HandlersOK /\ WireOK
  BY DEF SessionInv
<1>2. /\ handler' = [handler EXCEPT ![s].pc = "done", ![s].live = FALSE]
      /\ conn' = Down /\ paused' = FALSE
  BY DEF Refuse
<1>3. PICK pc \in {"none", "lease", "resume", "wait", "store", "done"}, live \in BOOLEAN :
        pc = "done" /\ live = FALSE
  OBVIOUS
<1>4. /\ handler' \in [Servers -> Handlers]
      /\ handler'[s].pc = pc /\ handler'[s].live = live
      /\ handler'[s].gen = handler[s].gen /\ handler'[s].next = handler[s].next
      /\ handler'[s].event = handler[s].event
      /\ \A r \in Servers \ {s} : handler'[r] = handler[r]
  <2>1. handler' = [handler EXCEPT ![s].pc = pc, ![s].live = live]
    BY <1>2, <1>3
  <2> QED
    BY <1>1, <2>1, HandlerMoves, ZenonT(40)
<1>5. ASSUME NEW r \in Servers PROVE Quits(r)
  <2>1. CASE r = s
    BY <1>3, <1>4, <2>1 DEF Quits
  <2>2. CASE r # s
    <3>1. handler'[r] = handler[r] /\ ~handler[r].live
      BY <1>1, <1>4, <2>2 DEF WireOK
    <3> QED
      BY <3>1 DEF Quits
  <2> QED
    BY <2>1, <2>2
<1>6. Cut
  BY <1>1, <1>2, <1>4, <1>5 DEF Cut, HandlersOK
<1> QED
  BY <1>6, CutKeeps

-----------------------------------------------------------------------------
(* What is on the stream.                                                  *)

\* A frame for the sender is a request, unless it is an acknowledgement.
LEMMA Requested ==
  ASSUME SessionInv, conn.up, conn.s2c # <<>>, Head(conn.s2c).t # "ack"
  PROVE  /\ conn.to \in Servers /\ handler[conn.to].live /\ handler[conn.to].pc = "wait"
         /\ Head(conn.s2c) \in Frames /\ conn.s2c = <<Head(conn.s2c)>> /\ conn.c2s = <<>>
         /\ Head(conn.s2c).t = "repair" => paused /\ Drained
         /\ sender = "get" => Head(conn.s2c).t = "pull"
<1>1. conn.to \in Servers /\ (Requesting \/ Acking)
  BY DEF SessionInv, WireOK, Greeting, Working, Answering
<1>2. ~Acking
  BY Receive DEF Acking
<1> QED
  BY <1>1, <1>2, Receive DEF Requesting

\* An acknowledgement is followed by the next pull.
LEMMA Acknowledged ==
  ASSUME SessionInv, conn.up, conn.s2c # <<>>, Head(conn.s2c).t = "ack"
  PROVE  /\ conn.to \in Servers /\ handler[conn.to].live /\ handler[conn.to].pc = "wait"
         /\ AckOK(Head(conn.s2c)) /\ conn.c2s = <<>> /\ sender # "get"
         /\ \E g \in Frames : Tail(conn.s2c) = <<g>> /\ g.t = "pull"
<1>1. conn.to \in Servers /\ (Requesting \/ Acking)
  BY DEF SessionInv, WireOK, Greeting, Working, Answering
<1>2. ~Requesting
  BY Receive DEF Requesting, Asking
<1>3. PICK f \in Frames, g \in Frames : conn.s2c = <<f, g>> /\ AckOK(f) /\ g.t = "pull"
  BY <1>1, <1>2 DEF Acking
<1>4. Head(conn.s2c) = f /\ Tail(conn.s2c) = <<g>>
  BY <1>3, Receive
<1>5. AckOK(Head(conn.s2c))
  BY <1>3, <1>4
<1> QED
  BY ZenonT(40), <1>1, <1>2, <1>3, <1>4, <1>5 DEF Acking

\* A frame for the handler is an answer, unless it opens the stream.
LEMMA Answered ==
  ASSUME SessionInv, conn.up, conn.c2s # <<>>, Head(conn.c2s).t # "hello"
  PROVE  /\ conn.to \in Servers /\ handler[conn.to].live /\ handler[conn.to].pc = "wait"
         /\ Head(conn.c2s) \in Frames /\ conn.c2s = <<Head(conn.c2s)>> /\ conn.s2c = <<>>
         /\ Head(conn.c2s).t = "digests" => paused /\ Drained
         /\ Head(conn.c2s).t = "event" => EventOK(Head(conn.c2s))
         /\ sender # "get"
<1>1. conn.to \in Servers /\ (Greeting \/ Answering)
  BY DEF SessionInv, WireOK, Requesting, Working, Acking
<1>2. ~Greeting
  BY Receive DEF Greeting
<1>3. PICK f \in Frames : /\ conn.c2s = <<f>>
                          /\ f.t = "event" => EventOK(f)
                          /\ f.t = "digests" => paused /\ Drained
  BY <1>1, <1>2 DEF Answering
<1>4. Head(conn.c2s) = f
  BY <1>3, Receive
<1> QED
  BY <1>1, <1>2, <1>3, <1>4 DEF Answering

\* A hello is alone on a new stream, which no live handler serves yet.
LEMMA Greeted ==
  ASSUME SessionInv, conn.up, conn.c2s # <<>>, Head(conn.c2s).t = "hello"
  PROVE  /\ Head(conn.c2s) \in Frames /\ conn.c2s = <<Head(conn.c2s)>> /\ conn.s2c = <<>>
         /\ Head(conn.c2s).gen \in 1..minted /\ Newest(Head(conn.c2s).gen)
         /\ sender # "get" /\ \A s \in Servers : ~handler[s].live
<1>1. Greeting \/ Answering
  BY DEF SessionInv, WireOK, Requesting, Working, Acking
<1>2. ~Answering
  BY Receive DEF Answering, Answers
<1>3. PICK f \in Frames : conn.c2s = <<f>> /\ f.gen \in 1..minted /\ Newest(f.gen)
  BY <1>1, <1>2 DEF Greeting
<1>4. Head(conn.c2s) = f
  BY <1>3, Receive
<1> QED
  BY <1>1, <1>2, <1>3, <1>4 DEF Greeting

\* Nothing is on the stream while the handler is at work.
LEMMA AtWork ==
  ASSUME SessionInv, NEW s \in Servers, handler[s].live,
         handler[s].pc \in {"lease", "resume", "store"}
  PROVE  /\ conn.up /\ conn.to = s /\ conn.c2s = <<>> /\ conn.s2c = <<>> /\ sender # "get"
<1>1. conn.up /\ conn.to = s
  BY DEF SessionInv, WireOK
<1>2. handler[conn.to].pc # "wait"
  BY <1>1
<1> QED
  BY <1>1, <1>2 DEF SessionInv, WireOK, Greeting, Working, Answering, Requesting, Acking

\* Handlers that do not move stay as they are known to be.
LEMMA HandlersSame ==
  ASSUME SessionInv, QueueOK', Grown, db'.Generation = db.Generation,
         db'.Received = db.Received, handler' = handler, lease' = lease
  PROVE  HandlersOK' /\ HoldersOK' /\ NewestOK'
<1>1. HandlersOK /\ QueueOK /\ HoldersOK /\ NewestOK
  BY DEF SessionInv
<1>2. \A s \in Servers : HandlerOK(s)'
  BY <1>1, HandlerKept
<1>3. HandlersOK'
  BY <1>1, <1>2 DEF HandlersOK
<1>4. HoldersOK'
  BY <1>1 DEF HoldersOK, HolderOK
<1>5. NewestOK'
  BY <1>1 DEF NewestOK, Newest
<1> QED
  BY <1>3, <1>4, <1>5

\* The sender answers a request.
LEMMA RequestAnswered ==
  ASSUME SessionInv, conn.up, conn.s2c # <<>>, Head(conn.s2c).t # "ack",
         handler' = handler, sender' \in {"recv", "stopped"}, paused' \in BOOLEAN,
         NEW g \in Frames, g.t \in Answers, conn' = Reply(g),
         g.t = "event" => EventOK(g)', g.t = "digests" => paused' /\ Drained'
  PROVE  WireOK'
<1>1. /\ conn.to \in Servers /\ handler[conn.to].live /\ handler[conn.to].pc = "wait"
      /\ Head(conn.s2c) \in Frames /\ conn.s2c = <<Head(conn.s2c)>> /\ conn.c2s = <<>>
  BY Requested
<1>2. Tail(conn.s2c) = <<>> /\ Append(conn.c2s, g) = <<g>>
  BY <1>1, Receive, Transmit
<1>3. conn \in Streams
  BY DEF SessionInv, WireOK
<1>4. <<>> \in Seq(Frames) /\ <<g>> \in Seq(Frames)
  BY Transmit
<1>5. /\ conn' \in Streams /\ conn'.up = conn.up /\ conn'.to = conn.to
      /\ conn'.s2c = <<>> /\ conn'.c2s = <<g>>
  BY <1>2, <1>3, <1>4 DEF Reply, Streams
<1>6. Answering'
  BY <1>1, <1>5 DEF Answering
<1>7. \A s \in Servers : handler'[s].live => conn'.up /\ conn'.to = s
  BY <1>5 DEF SessionInv, WireOK
<1>8. sender' \in {"recv", "get", "stopped"}
  OBVIOUS
<1> QED
  BY ZenonT(40), <1>1, <1>5, <1>6, <1>7, <1>8 DEF WireOK

\* The sender takes a pull: it answers that there is nothing, or looks the message up.
LEMMA HandlePullKeeps ==
  ASSUME SessionInv, HandlePull
  PROVE  SessionInv'
<1>1. /\ QueueOK' /\ TargetOK' /\ LogOK' /\ AckedIsDurable' /\ Grown /\ Advanced
      /\ db'.Generation = db.Generation /\ db'.Received = db.Received
  BY StillStep DEF HandlePull, targetVars
<1>2. /\ conn.up /\ sender = "recv" /\ conn.s2c # <<>> /\ Head(conn.s2c).t = "pull"
      /\ lease' = lease
  BY DEF HandlePull, Got
<1>3. CASE Disconnect /\ UNCHANGED sender
  <2>1. HandlersOK' /\ HoldersOK' /\ NewestOK' /\ WireOK'
    BY <1>1, <1>2, <1>3, DisconnectKeeps
  <2> QED
    BY <1>1, <2>1 DEF SessionInv
<1>4. ASSUME NEW t \in {"unavailable", "idle"}, conn' = Reply(Plainly(t)),
             UNCHANGED <<sender, handler, paused>>
      PROVE  SessionInv'
  <2>1. Plainly(t) \in Frames /\ Plainly(t).t = t
    BY PlainTypes
  <2>2. PICK g \in Frames : g = Plainly(t) /\ g.t = t
    BY <2>1
  <2>3. WireOK'
    <3>1. paused' \in BOOLEAN
      BY <1>4 DEF SessionInv, WireOK
    <3>2. g.t \in Answers /\ g.t # "event" /\ g.t # "digests"
      BY <2>2 DEF Answers
    <3>3. sender' \in {"recv", "stopped"} /\ handler' = handler
      BY <1>2, <1>4
    <3> QED
      BY ZenonT(40), <1>2, <1>4, <2>2, <3>1, <3>2, <3>3, RequestAnswered
  <2>4. HandlersOK' /\ HoldersOK' /\ NewestOK'
    BY ZenonT(40), <1>1, <1>2, <1>4, HandlersSame
  <2> QED
    BY <1>1, <2>3, <2>4 DEF SessionInv
<1>5. CASE sender' = "get" /\ UNCHANGED <<conn, handler, paused>>
  <2>1. /\ conn.to \in Servers /\ handler[conn.to].live /\ handler[conn.to].pc = "wait"
        /\ Head(conn.s2c) \in Frames /\ conn.s2c = <<Head(conn.s2c)>> /\ conn.c2s = <<>>
    BY <1>2, Requested
  <2>2. PICK f \in Frames : f = Head(conn.s2c) /\ f.t = "pull"
    BY <1>2, <2>1
  <2>3. Requesting'
    BY <1>5, <2>1, <2>2 DEF Requesting, Asking
  <2>4. WireOK'
    BY <1>2, <1>5, <2>1, <2>3 DEF SessionInv, WireOK
  <2>5. HandlersOK' /\ HoldersOK' /\ NewestOK'
    BY <1>1, <1>2, <1>5, HandlersSame
  <2> QED
    BY <1>1, <2>4, <2>5 DEF SessionInv
<1> QED
  BY <1>3, <1>4, <1>5 DEF HandlePull

\* The sender answers a pull with the event, or ends the stream.
LEMMA SendEventKeeps ==
  ASSUME SessionInv, SendEvent
  PROVE  SessionInv'
<1>1. /\ QueueOK' /\ TargetOK' /\ LogOK' /\ AckedIsDurable' /\ Grown /\ Advanced
      /\ db'.Generation = db.Generation /\ db'.Received = db.Received
  BY StillStep DEF SendEvent, targetVars
<1>2. /\ conn.up /\ sender = "get" /\ sender' = "recv" /\ lease' = lease
      /\ UNCHANGED queueVars
  BY DEF SendEvent
<1>3. Requesting
  BY <1>2 DEF SessionInv, WireOK, Greeting, Working, Answering, Acking
<1>4. conn.s2c # <<>> /\ Head(conn.s2c).t = "pull"
  BY <1>2, <1>3, Receive DEF Requesting
<1>5. PICK n : n = Head(conn.s2c).seq
  OBVIOUS
<1>6. CASE n \in DOMAIN items /\ n <= st.ReadySeq
  <2>1. /\ conn' = Reply(Frame("event", items[n].Generation, n, Payload(items[n])))
        /\ UNCHANGED <<handler, paused>>
    BY <1>5, <1>6 DEF SendEvent
  <2>2. /\ n \in Nat \ {0} /\ items[n].Generation = st.Generation /\ st.Generation # 0
        /\ items[n].SchemaVersion = Hash /\ items[n].body \in KindsAt(n)
    BY <1>6 DEF SessionInv, QueueOK
  <2>3. PICK b \in Messages : b = Payload(items[n]) /\ b \in MessagesAt(n)
    <3>1. Payload(items[n]) = Encoded(items[n].body)
      BY <2>2 DEF Payload, Encoded
    <3> QED
      BY <2>2, <3>1, EncodedKinds
  <2>4. PICK gen \in Nat : gen = st.Generation /\ gen \in 1..minted
    BY <2>2, SMTT(30) DEF SessionInv, QueueOK
  <2>5. n \in Nat
    BY <2>2
  <2>6. PICK g \in Frames : /\ g = Frame("event", gen, n, b)
                            /\ g.t = "event" /\ g.gen = gen /\ g.seq = n
                            /\ g.body = b
    <3>1. /\ Frame("event", gen, n, b) \in Frames
          /\ Frame("event", gen, n, b).t = "event"
          /\ Frame("event", gen, n, b).gen = gen
          /\ Frame("event", gen, n, b).seq = n
          /\ Frame("event", gen, n, b).body = b
      BY <2>3, <2>4, <2>5, FrameTypes, SMTT(30)
    <3> QED
      BY <3>1
  <2>7. EventOK(g)'
    <3>1. st' = st /\ minted' = minted /\ items' = items
      BY <1>2 DEF queueVars
    <3>2. Carried(g)'
      BY <2>3, <2>6, <3>1 DEF Carried, Payload
    <3> QED
      BY <1>6, <2>2, <2>3, <2>4, <2>6, <3>1, <3>2, ZenonT(40) DEF EventOK
  <2>8. WireOK'
    <3>1. paused' \in BOOLEAN
      BY <2>1 DEF SessionInv, WireOK
    <3>2. g.t \in Answers /\ g.t # "digests"
      BY <2>6 DEF Answers
    <3>3. sender' \in {"recv", "stopped"} /\ handler' = handler
      BY <1>2, <2>1
    <3>4. conn' = Reply(g)
      BY <2>1, <2>2, <2>3, <2>4, <2>6, ZenonT(40)
    <3>5. Head(conn.s2c).t # "ack"
      BY <1>4
    <3> QED
      BY <1>2, <1>4, <2>7, <3>1, <3>2, <3>3, <3>4, <3>5, RequestAnswered, ZenonT(40)
  <2>9. HandlersOK' /\ HoldersOK' /\ NewestOK'
    BY <1>1, <1>2, <2>1, HandlersSame, ZenonT(40)
  <2> QED
    BY <1>1, <2>8, <2>9 DEF SessionInv
<1>7. CASE ~(n \in DOMAIN items /\ n <= st.ReadySeq)
  <2>1. Disconnect
    BY <1>5, <1>7 DEF SendEvent
  <2>2. HandlersOK' /\ HoldersOK' /\ NewestOK' /\ WireOK'
    BY <1>1, <1>2, <2>1, DisconnectKeeps
  <2> QED
    BY <1>1, <2>2 DEF SessionInv
<1> QED
  BY <1>6, <1>7

\* The stream of a step that is not about it: of capture, or of a handler that
\* is on no stream.
LEMMA WireKept ==
  ASSUME SessionInv, QueueOK', TargetOK', Grown, Advanced,
         UNCHANGED <<conn, sender, paused>>,
         \/ db'.Generation = db.Generation
         \/ \E s \in Servers : db'.Generation = handler[s].gen,
         paused /\ Drained => Drained',
         \A s \in Servers : /\ handler'[s].live = handler[s].live
                            /\ handler[s].live => handler'[s].pc = handler[s].pc
                            /\ handler'[s].gen = handler[s].gen \/ handler'[s].gen = 0
  PROVE  WireOK'
<1>1. QueueOK /\ TargetOK /\ WireOK
  BY DEF SessionInv
<1>2. conn' = conn /\ sender' = sender /\ paused' = paused
  OBVIOUS
<1>3. ASSUME NEW f \in Frames, EventOK(f) PROVE EventOK(f)'
  BY <1>1, <1>3, EventStable
<1>4. ASSUME NEW f \in Frames, AckOK(f) PROVE AckOK(f)'
  BY <1>1, <1>4, AckStable
<1>5. ASSUME NEW f \in Frames, f.gen \in 1..minted, Newest(f.gen)
      PROVE  f.gen \in 1..minted' /\ Newest(f.gen)'
  <2>1. f.gen \in 1..minted'
    BY <1>1, <1>5, SMTT(30) DEF QueueOK, Grown, Moved
  <2>2. 0 <= f.gen
    BY <1>5, SMT
  <2>3. \A s \in Servers : handler'[s].gen <= f.gen
    BY <1>5, <2>2 DEF Newest
  <2>4. db'.Generation <= f.gen
    BY <1>5 DEF Newest
  <2> QED
    BY <2>1, <2>3, <2>4, ZenonT(40) DEF Newest
<1>6. Greeting => Greeting'
  <2>1. ASSUME Greeting PROVE Greeting'
    <3>1. PICK f \in Frames : /\ conn.c2s = <<f>> /\ f.t = "hello"
                              /\ f.gen \in 1..minted /\ Newest(f.gen)
      BY <2>1 DEF Greeting
    <3>2. f.gen \in 1..minted' /\ Newest(f.gen)'
      BY <1>5, <3>1
    <3>3. \A s \in Servers : ~handler'[s].live
      BY <2>1 DEF Greeting
    <3> QED
      BY <1>2, <2>1, <3>1, <3>2, <3>3, ZenonT(40) DEF Greeting
  <2> QED
    BY <2>1
<1>7. ASSUME conn.up
      PROVE  conn.to \in Servers /\ conn'.to = conn.to
    BY <1>1, <1>2, <1>7 DEF WireOK
<1>8. conn.up /\ Working => Working'
  BY <1>2, <1>7 DEF Working
<1>9. conn.up /\ Answering => Answering'
  <2>1. ASSUME conn.up, Answering PROVE Answering'
    <3>1. PICK f \in Frames : /\ conn.c2s = <<f>> /\ f.t \in Answers
                              /\ f.t = "event" => EventOK(f)
                              /\ f.t = "digests" => paused /\ Drained
      BY <2>1 DEF Answering
    <3>2. f.t = "event" => EventOK(f)'
      BY <1>3, <3>1
    <3>3. f.t = "digests" => paused' /\ Drained'
      BY <1>2, <3>1, SMTT(30)
    <3>4. handler'[conn.to].live /\ handler'[conn.to].pc = "wait"
      BY <1>7, <2>1 DEF Answering
    <3> QED
      BY <1>2, <2>1, <3>1, <3>2, <3>3, <3>4, ZenonT(40) DEF Answering
  <2> QED
    BY <2>1
<1>10. conn.up /\ Requesting => Requesting'
  <2>1. ASSUME conn.up, Requesting PROVE Requesting'
    <3>1. PICK f \in Frames : /\ conn.s2c = <<f>> /\ f.t \in Asking
                              /\ f.t = "repair" => paused /\ Drained
                              /\ sender = "get" => f.t = "pull"
      BY <2>1 DEF Requesting
    <3>2. f.t = "repair" => paused' /\ Drained'
      BY <1>2, <3>1, SMTT(30)
    <3>3. handler'[conn.to].live /\ handler'[conn.to].pc = "wait"
      BY <1>7, <2>1 DEF Requesting
    <3> QED
      BY <1>2, <2>1, <3>1, <3>2, <3>3, ZenonT(40) DEF Requesting
  <2> QED
    BY <2>1
<1>11. conn.up /\ Acking => Acking'
  <2>1. ASSUME conn.up, Acking PROVE Acking'
    <3>1. PICK f \in Frames, g \in Frames : /\ conn.s2c = <<f, g>> /\ f.t = "ack" /\ AckOK(f)
                                            /\ g.t = "pull"
      BY <2>1 DEF Acking
    <3>2. AckOK(f)'
      BY <1>4, <3>1
    <3>3. handler'[conn.to].live /\ handler'[conn.to].pc = "wait"
      BY <1>7, <2>1 DEF Acking
    <3> QED
      BY <1>2, <2>1, <3>1, <3>2, <3>3, ZenonT(40) DEF Acking
  <2> QED
    BY <2>1
<1> QED
  BY <1>1, <1>2, <1>6, <1>7, <1>8, <1>9, <1>10, <1>11, ZenonT(40) DEF WireOK

\* Capture appends, publishes, recovers or starts a new snapshot.
LEMMA CaptureKeeps ==
  ASSUME SessionInv, Capture
  PROVE  SessionInv'
<1>1. /\ ~paused /\ UNCHANGED <<conn, sender, paused>> /\ handler' = handler
      /\ lease' = lease /\ UNCHANGED db
  BY DEF Capture, linkVars, targetVars
<1>2. QueueOK
  BY DEF SessionInv
<1>3. /\ QueueOK' /\ Grown
      /\ \/ st'.DeliveredSeq = 0
         \/ st'.DeliveredSeq = st.DeliveredSeq /\ st'.Generation = st.Generation
  <2>1. CASE StartSnapshot
    BY <1>2, <2>1, InitializeKeeps DEF StartSnapshot
  <2>2. CASE CaptureAppend
    BY <1>2, <2>2, AppendKeeps
  <2>3. CASE CapturePublish
    BY <1>2, <2>3, PublishKeeps
  <2> QED
    BY <2>1, <2>2, <2>3 DEF Capture
<1>4. TargetOK' /\ LogOK' /\ Advanced /\ AckedIsDurable'
  BY <1>1, <1>3, QueueStep, DeliveredKept
<1>5. HandlersOK' /\ HoldersOK' /\ NewestOK'
  BY <1>1, <1>3, HandlersSame
<1>6. WireOK'
  BY <1>1, <1>3, <1>4, WireKept
<1> QED
  BY <1>3, <1>4, <1>5, <1>6 DEF SessionInv

\* The sender acknowledges to the queue what the server stored.
LEMMA HandleAckKeeps ==
  ASSUME SessionInv, HandleAck
  PROVE  SessionInv'
<1>1. /\ conn.up /\ sender = "recv" /\ conn.s2c # <<>> /\ Head(conn.s2c).t = "ack"
      /\ lease' = lease /\ sender' = sender /\ UNCHANGED db
  BY DEF HandleAck, Got, targetVars
<1>2. PICK f : f = Head(conn.s2c)
  OBVIOUS
<1>3. /\ conn.to \in Servers /\ handler[conn.to].live /\ handler[conn.to].pc = "wait"
      /\ AckOK(Head(conn.s2c)) /\ conn.c2s = <<>>
      /\ \E g \in Frames : Tail(conn.s2c) = <<g>> /\ g.t = "pull"
  BY <1>1, Acknowledged
<1>4. CASE f.gen # st.Generation \/ f.seq > st.DeliveredSeq + 1
  <2>1. Disconnect /\ UNCHANGED queueVars
    BY <1>2, <1>4 DEF HandleAck
  <2>2. /\ QueueOK' /\ TargetOK' /\ LogOK' /\ AckedIsDurable' /\ Grown
        /\ db'.Generation = db.Generation /\ db'.Received = db.Received
    BY <1>1, <2>1, StillStep
  <2>3. sender' \in {"recv", "stopped"}
    BY <1>1
  <2>4. HandlersOK' /\ HoldersOK' /\ NewestOK' /\ WireOK'
    BY <1>1, <2>1, <2>2, <2>3, DisconnectKeeps, ZenonT(40)
  <2> QED
    BY <2>2, <2>4 DEF SessionInv
<1>5. CASE ~(f.gen # st.Generation \/ f.seq > st.DeliveredSeq + 1)
  <2>1. /\ IF f.seq = st.DeliveredSeq + 1 THEN Q!Ack(f.seq, <<f.gen, f.seq>>, {})
           ELSE UNCHANGED queueVars
        /\ conn' = [conn EXCEPT !.s2c = Tail(@)]
        /\ handler' = handler /\ paused' = paused
    BY <1>2, <1>5 DEF HandleAck
  <2>2. QueueOK' /\ Grown /\ AckedIsDurable'
    <3>1. CASE f.seq = st.DeliveredSeq + 1
      <4>1. PICK seq, id : seq = f.seq /\ Q!Ack(seq, id, {})
        BY <2>1, <3>1
      <4>2. QueueOK
        BY DEF SessionInv
      <4>3. /\ QueueOK' /\ Grown /\ st'.DeliveredSeq = f.seq /\ st'.Generation = st.Generation
        BY <4>1, <4>2, AckKeeps
      <4>4. db.Generation = st.Generation /\ f.seq <= db.Received
        BY <1>2, <1>3, <1>5 DEF AckOK
      <4>5. AckedIsDurable'
        BY <1>1, <4>3, <4>4 DEF AckedIsDurable
      <4> QED
        BY <4>3, <4>5
    <3>2. CASE f.seq # st.DeliveredSeq + 1
      BY <1>1, <2>1, <3>2, StillStep
    <3> QED
      BY <3>1, <3>2
  <2>3. TargetOK' /\ LogOK'
    BY <1>1, <2>2, QueueStep
  <2>4. HandlersOK' /\ HoldersOK' /\ NewestOK'
    BY <1>1, <2>1, <2>2, HandlersSame
  <2>5. PICK g \in Frames : Tail(conn.s2c) = <<g>> /\ g.t = "pull"
    BY <1>3
  <2>6. conn \in Streams /\ <<g>> \in Seq(Frames)
    BY Transmit DEF SessionInv, WireOK
  <2>7. /\ conn' \in Streams /\ conn'.up = conn.up /\ conn'.to = conn.to
        /\ conn'.s2c = <<g>> /\ conn'.c2s = <<>>
    BY ZenonT(40), <1>3, <2>1, <2>5, <2>6 DEF Streams
  <2>8. g.t \in Asking /\ g.t # "repair"
    BY <2>5 DEF Asking
  <2>9. Requesting'
    BY <1>3, <2>1, <2>5, <2>7, <2>8, ZenonT(40) DEF Requesting
  <2>10. \A s \in Servers : handler'[s].live => conn'.up /\ conn'.to = s
    BY <2>1, <2>7 DEF SessionInv, WireOK
  <2>11. sender' \in {"recv", "get", "stopped"} /\ paused' \in BOOLEAN
    BY <1>1, <2>1 DEF SessionInv, WireOK
  <2>12. WireOK'
    BY <1>1, <1>3, <2>7, <2>9, <2>10, <2>11, ZenonT(40) DEF WireOK
  <2> QED
    BY ZenonT(40), <2>2, <2>3, <2>4, <2>12 DEF SessionInv
<1> QED
  BY <1>4, <1>5

\* The sender stops capture and scans, or reports why it can not.
LEMMA HandleReconcileKeeps ==
  ASSUME SessionInv, HandleReconcile
  PROVE  SessionInv'
<1>1. /\ QueueOK' /\ TargetOK' /\ LogOK' /\ AckedIsDurable' /\ Grown
      /\ db'.Generation = db.Generation /\ db'.Received = db.Received
  BY StillStep DEF HandleReconcile, targetVars
<1>2. /\ conn.up /\ sender = "recv" /\ conn.s2c # <<>> /\ Head(conn.s2c).t = "reconcile"
      /\ lease' = lease /\ sender' = sender /\ handler' = handler /\ st' = st
      /\ paused' = Drained
      /\ (Drained /\ conn' = Reply(Plainly("digests"))) \/ conn' = Reply(Plainly("failed"))
  BY DEF HandleReconcile, Got, Drained, queueVars
<1>3. HandlersOK' /\ HoldersOK' /\ NewestOK'
  BY <1>1, <1>2, HandlersSame
<1>4. PICK g \in Frames : /\ conn' = Reply(g) /\ g.t \in {"digests", "failed"}
                          /\ g.t = "digests" => Drained
  BY <1>2, PlainTypes
<1>5. /\ Head(conn.s2c).t # "ack" /\ sender' \in {"recv", "stopped"}
      /\ g.t \in Answers /\ g.t # "event"
  BY <1>2, <1>4 DEF Answers
<1>6. paused' \in BOOLEAN /\ (Drained => paused') /\ (Drained => Drained')
  BY <1>2 DEF Drained
<1>7. WireOK'
  BY <1>2, <1>4, <1>5, <1>6, RequestAnswered, ZenonT(40)
<1> QED
  BY <1>1, <1>3, <1>7 DEF SessionInv

\* The sender lets capture go on.
LEMMA HandleResumeKeeps ==
  ASSUME SessionInv, HandleResume
  PROVE  SessionInv'
<1>1. /\ QueueOK' /\ TargetOK' /\ LogOK' /\ AckedIsDurable' /\ Grown
      /\ db'.Generation = db.Generation /\ db'.Received = db.Received
  BY StillStep DEF HandleResume, targetVars
<1>2. /\ conn.up /\ sender = "recv" /\ conn.s2c # <<>> /\ Head(conn.s2c).t = "resume"
      /\ lease' = lease /\ sender' = sender /\ handler' = handler
      /\ paused' = FALSE /\ conn' = Reply(Plainly("resumed"))
  BY DEF HandleResume, Got
<1>3. HandlersOK' /\ HoldersOK' /\ NewestOK'
  BY <1>1, <1>2, HandlersSame
<1>4. PICK g \in Frames : conn' = Reply(g) /\ g.t = "resumed"
  BY <1>2, PlainTypes
<1>5. /\ Head(conn.s2c).t # "ack" /\ sender' \in {"recv", "stopped"} /\ paused' \in BOOLEAN
      /\ g.t \in Answers /\ g.t # "event" /\ g.t # "digests"
  BY <1>2, <1>4 DEF Answers
<1>6. WireOK'
  BY <1>2, <1>4, <1>5, RequestAnswered
<1> QED
  BY <1>1, <1>3, <1>6 DEF SessionInv

\* The sender resets the queue for a repair.
LEMMA HandleRepairKeeps ==
  ASSUME SessionInv, HandleRepair
  PROVE  SessionInv'
<1>1. /\ sender' = sender /\ sender = "recv" /\ lease' = lease /\ UNCHANGED db /\ Disconnect
  BY DEF HandleRepair, Got, targetVars
<1>2. QueueOK
  BY DEF SessionInv
<1>3. QueueOK' /\ Grown /\ AckedIsDurable'
  <2>1. CASE Q!ResetForSnapshot
    BY ZenonT(40), <1>1, <1>2, <2>1, ResetKeeps, DeliveredKept
  <2>2. CASE UNCHANGED queueVars
    BY <1>1, <2>2, StillStep
  <2> QED
    BY <2>1, <2>2 DEF HandleRepair
<1>4. TargetOK' /\ LogOK'
  BY <1>1, <1>3, QueueStep
<1>5. sender' \in {"recv", "stopped"}
  BY <1>1
<1>6. HandlersOK' /\ HoldersOK' /\ NewestOK' /\ WireOK'
  BY <1>1, <1>3, <1>5, DisconnectKeeps
<1> QED
  BY <1>3, <1>4, <1>6 DEF SessionInv

-----------------------------------------------------------------------------
(* Failures, and handlers that are on no stream.                           *)

\* Handlers on no stream quit, and the lease may be given up with them.
LEMMA AsideKeeps ==
  ASSUME SessionInv, QueueOK', TargetOK', Grown, Advanced, UNCHANGED <<conn, sender, paused>>,
         st' = st, db'.Generation = db.Generation, db'.Received = db.Received,
         lease' = lease \/ lease' = None, handler' \in [Servers -> Handlers],
         \A s \in Servers : handler'[s] = handler[s] \/ (~handler[s].live /\ Quits(s))
  PROVE  HandlersOK' /\ HoldersOK' /\ NewestOK' /\ WireOK'
<1>1. QueueOK /\ HandlersOK /\ HoldersOK /\ NewestOK
  BY DEF SessionInv
<1>2. \A s \in Servers : HandlerOK(s)'
  BY <1>1, HandlerKept
<1>3. HandlersOK'
  BY <1>1, <1>2 DEF HandlersOK
<1>4. ASSUME NEW s \in Servers
      PROVE  /\ handler'[s].live = handler[s].live
             /\ handler[s].live => handler'[s].pc = handler[s].pc
             /\ handler'[s].gen = handler[s].gen \/ handler'[s].gen = 0
  <2>1. handler[s] \in Handlers /\ handler'[s] \in Handlers
    BY <1>1 DEF HandlersOK
  <2>2. handler[s].live \in BOOLEAN /\ handler'[s].live \in BOOLEAN
    BY <2>1 DEF Handlers
  <2>3. CASE handler'[s] = handler[s]
    BY <2>3
  <2>4. CASE ~handler[s].live /\ Quits(s)
    BY <2>2, <2>4, IdleType DEF Quits
  <2> QED
    BY <2>3, <2>4
<1>5. ASSUME NEW s \in Servers, lease' = s, handler'[s].pc \in {"wait", "store"}
      PROVE  HolderOK(s)'
  <2>1. lease = s
    BY <1>5, SessionAssumption
  <2>2. handler'[s].pc # "none" /\ handler'[s].pc # "done"
    BY <1>5
  <2>3. /\ handler'[s].pc = handler[s].pc /\ handler'[s].gen = handler[s].gen
        /\ handler'[s].next = handler[s].next
    BY <2>2, IdleType DEF Quits
  <2>4. HolderOK(s)
    BY ZenonT(40), <1>1, <1>5, <2>1, <2>3 DEF HoldersOK
  <2> QED
    BY <2>3, <2>4 DEF HolderOK
<1>6. HoldersOK'
  BY <1>5 DEF HoldersOK
<1>7. ASSUME NEW s \in Servers, handler'[s].live PROVE Newest(handler[s].gen)'
  <2>1. handler'[s] = handler[s] /\ Newest(handler[s].gen)
    BY ZenonT(40), <1>1, <1>4, <1>7, IdleType DEF NewestOK, Quits
  <2>2. PICK gen \in Nat : gen = handler[s].gen
    BY <1>1 DEF HandlersOK, Handlers
  <2>3. 0 <= gen
    BY SMT
  <2>4. \A r \in Servers : handler'[r].gen <= gen
    BY ZenonT(40), <1>4, <2>1, <2>2, <2>3 DEF Newest
  <2> QED
    BY <2>1, <2>2, <2>4 DEF Newest
<1>8. NewestOK'
  BY <1>7 DEF NewestOK
<1>9. Drained => Drained'
  BY DEF Drained
<1>10. WireOK'
  BY <1>4, <1>9, WireKept
<1> QED
  BY <1>3, <1>6, <1>8, <1>10

\* A handler on no stream stops: at the lease, at the store or at its end.
LEMMA StopKeeps ==
  ASSUME SessionInv, UNCHANGED queueVars, UNCHANGED db, UNCHANGED <<conn, sender, paused>>,
         NEW s \in Servers, ~handler[s].live,
         \/ handler' = [handler EXCEPT ![s].pc = "done"] /\ handler[s].pc # "none"
         \/ handler' = [handler EXCEPT ![s] = Idle],
         lease' = lease \/ lease' = None
  PROVE  SessionInv'
<1>1. /\ QueueOK' /\ TargetOK' /\ LogOK' /\ AckedIsDurable' /\ Grown /\ Advanced
      /\ db'.Generation = db.Generation /\ db'.Received = db.Received
  BY StillStep
<1>2. HandlersOK /\ handler[s] \in Handlers
  BY DEF SessionInv, HandlersOK
<1>3. PICK h \in Handlers : /\ handler' = [handler EXCEPT ![s] = h]
                            /\ \/ h = Idle
                               \/ /\ ~h.live /\ h.gen = handler[s].gen /\ h.pc = "done"
                                  /\ handler[s].pc # "none"
  <2>1. CASE handler' = [handler EXCEPT ![s].pc = "done"] /\ handler[s].pc # "none"
    <3> DEFINE h == [handler[s] EXCEPT !.pc = "done"]
    <3>1. handler' = [handler EXCEPT ![s] = h]
      BY <1>2, <2>1 DEF HandlersOK
    <3>2. h \in Handlers /\ h.live = handler[s].live /\ h.gen = handler[s].gen /\ h.pc = "done"
      BY <1>2 DEF Handlers
    <3> HIDE DEF h
    <3> QED
      BY <2>1, <3>1, <3>2
  <2>2. CASE handler' = [handler EXCEPT ![s] = Idle]
    BY <2>2, IdleType
  <2> QED
    BY <2>1, <2>2
<1>4. /\ handler' \in [Servers -> Handlers] /\ handler'[s] = h
      /\ \A r \in Servers \ {s} : handler'[r] = handler[r]
  BY <1>2, <1>3, HandlerSet
<1>5. Quits(s)
  BY <1>3, <1>4 DEF Quits
<1>6. \A r \in Servers : handler'[r] = handler[r] \/ (~handler[r].live /\ Quits(r))
  BY <1>4, <1>5
<1>7. st' = st
  BY DEF queueVars
<1>8. HandlersOK' /\ HoldersOK' /\ NewestOK' /\ WireOK'
  BY ZenonT(40), <1>1, <1>4, <1>6, <1>7, AsideKeeps
<1> QED
  BY <1>1, <1>8 DEF SessionInv

\* A handler that is done goes away.
LEMMA FinishKeeps ==
  ASSUME SessionInv, NEW s \in Servers, Finish(s)
  PROVE  SessionInv'
<1>1. ~handler[s].live
  BY DEF Finish, SessionInv, WireOK, Greeting, Working, Answering, Requesting, Acking
<1> QED
  BY <1>1, StopKeeps DEF Finish, targetVars

\* The network ends a stream.
LEMMA BreakKeeps ==
  ASSUME SessionInv, Break
  PROVE  SessionInv'
<1>1. /\ QueueOK' /\ TargetOK' /\ LogOK' /\ AckedIsDurable' /\ Grown
      /\ db'.Generation = db.Generation /\ db'.Received = db.Received
  BY StillStep DEF Break, targetVars
<1>2. Disconnect /\ lease' = lease /\ sender' = IF sender = "get" THEN "recv" ELSE sender
  BY DEF Break
<1>3. sender' \in {"recv", "stopped"}
  BY <1>2 DEF SessionInv, WireOK
<1>4. HandlersOK' /\ HoldersOK' /\ NewestOK' /\ WireOK'
  BY ZenonT(40), <1>1, <1>2, <1>3, DisconnectKeeps
<1> QED
  BY <1>1, <1>4 DEF SessionInv

\* The collector crashes and keeps only its queue.
LEMMA CollectorCrashKeeps ==
  ASSUME SessionInv, CollectorCrash
  PROVE  SessionInv'
<1>1. Q!Recover /\ Disconnect /\ lease' = lease /\ sender' = "recv" /\ UNCHANGED db
  BY DEF CollectorCrash, targetVars
<1>2. QueueOK
  BY DEF SessionInv
<1>3. /\ QueueOK' /\ Grown /\ st'.DeliveredSeq = st.DeliveredSeq
      /\ st'.Generation = st.Generation
  BY <1>1, <1>2, RecoverKeeps
<1>4. TargetOK' /\ LogOK' /\ AckedIsDurable'
  BY ZenonT(40), <1>1, <1>3, QueueStep, DeliveredKept
<1>5. HandlersOK' /\ HoldersOK' /\ NewestOK' /\ WireOK'
  BY <1>1, <1>3, DisconnectKeeps
<1> QED
  BY <1>3, <1>4, <1>5 DEF SessionInv

\* A server process crashes and keeps only the target.
LEMMA ServerCrashKeeps ==
  ASSUME SessionInv, NEW s \in Servers, ServerCrash(s)
  PROVE  SessionInv'
<1>1. /\ UNCHANGED queueVars /\ UNCHANGED db /\ handler' = [handler EXCEPT ![s] = Idle]
      /\ lease' = lease \/ lease' = None
  BY DEF ServerCrash, targetVars
<1>2. CASE handler[s].live
  <2>1. /\ QueueOK' /\ TargetOK' /\ LogOK' /\ AckedIsDurable' /\ Grown
        /\ db'.Generation = db.Generation /\ db'.Received = db.Received
    BY <1>1, StillStep
  <2>2. conn' = Down /\ paused' = FALSE /\ sender' = IF sender = "get" THEN "recv" ELSE sender
    BY <1>2 DEF ServerCrash
  <2>3. HandlersOK
    BY DEF SessionInv
  <2>4. /\ handler' \in [Servers -> Handlers] /\ handler'[s] = Idle
        /\ \A r \in Servers \ {s} : handler'[r] = handler[r]
    BY ZenonT(40), <1>1, <2>3, HandlerSet, IdleType
  <2>5. \A r \in Servers \ {s} : ~handler[r].live
    BY <1>2 DEF SessionInv, WireOK
  <2>6. \A r \in Servers : Quits(r)
    BY <2>4, <2>5 DEF Quits
  <2>7. sender' \in {"recv", "stopped"}
    BY <2>2 DEF SessionInv, WireOK
  <2>8. Cut
    BY ZenonT(40), <1>1, <2>2, <2>3, <2>4, <2>6, <2>7 DEF Cut, HandlersOK
  <2>9. HandlersOK' /\ HoldersOK' /\ NewestOK' /\ WireOK'
    BY <2>1, <2>8, CutKeeps
  <2> QED
    BY <2>1, <2>9 DEF SessionInv
<1>3. CASE ~handler[s].live
  <2>1. UNCHANGED <<conn, sender, paused>>
    BY <1>3 DEF ServerCrash
  <2> QED
    BY ZenonT(40), <1>1, <1>3, <2>1, StopKeeps
<1> QED
  BY <1>2, <1>3

\* The session that holds the advisory lock is lost.
LEMMA LeaseLostKeeps ==
  ASSUME SessionInv, LeaseLost
  PROVE  SessionInv'
<1>1. /\ QueueOK' /\ TargetOK' /\ LogOK' /\ AckedIsDurable' /\ Grown /\ Advanced
      /\ db'.Generation = db.Generation /\ db'.Received = db.Received
  BY StillStep DEF LeaseLost, targetVars
<1>2. /\ UNCHANGED <<conn, sender, paused>> /\ handler' = handler /\ lease' = None /\ st' = st
  BY DEF LeaseLost, queueVars
<1>3. handler' \in [Servers -> Handlers]
  BY <1>2 DEF SessionInv, HandlersOK
<1>4. HandlersOK' /\ HoldersOK' /\ NewestOK' /\ WireOK'
  BY ZenonT(40), <1>1, <1>2, <1>3, AsideKeeps
<1> QED
  BY <1>1, <1>4 DEF SessionInv

-----------------------------------------------------------------------------
(* The handler's steps.                                                    *)

\* The sender opens a stream and says hello.
LEMMA ConnectKeeps ==
  ASSUME SessionInv, NEW s \in Servers, Connect(s)
  PROVE  SessionInv'
<1>1. /\ QueueOK' /\ TargetOK' /\ LogOK' /\ AckedIsDurable' /\ Grown
      /\ db'.Generation = db.Generation /\ db'.Received = db.Received
  BY StillStep DEF Connect, targetVars
<1>2. /\ ~conn.up /\ st.Generation # 0 /\ handler' = handler /\ lease' = lease
      /\ sender' = sender /\ paused' = paused /\ minted' = minted
      /\ conn' = [up |-> TRUE, to |-> s, s2c |-> <<>>,
                  c2s |-> <<Frame("hello", st.Generation, 0, None)>>]
  BY DEF Connect, queueVars
<1>3. HandlersOK' /\ HoldersOK' /\ NewestOK'
  BY <1>1, <1>2, HandlersSame, ZenonT(40)
<1>4. PICK gen \in Nat : gen = st.Generation /\ gen = minted /\ gen \in 1..minted
  BY <1>2, SMTT(30) DEF SessionInv, QueueOK
<1>5. PICK f \in Frames : f = Frame("hello", gen, 0, None) /\ f.t = "hello" /\ f.gen = gen
  <2>1. /\ Frame("hello", gen, 0, None) \in Frames
        /\ Frame("hello", gen, 0, None).t = "hello"
        /\ Frame("hello", gen, 0, None).gen = gen
    BY FrameTypes, SMT
  <2> QED
    BY <2>1
<1>6. <<>> \in Seq(Frames) /\ <<f>> \in Seq(Frames)
  BY Transmit
<1>7. conn' = [up |-> TRUE, to |-> s, s2c |-> <<>>, c2s |-> <<f>>]
  BY <1>2, <1>4, <1>5
<1>8. /\ conn' \in Streams /\ conn'.up /\ conn'.to = s
      /\ conn'.s2c = <<>> /\ conn'.c2s = <<f>>
  BY <1>6, <1>7 DEF Streams
<1>9. \A r \in Servers : ~handler'[r].live
  BY <1>2 DEF SessionInv, WireOK
<1>10. Newest(gen)'
  <2>1. db.Generation <= minted
    BY SMT DEF SessionInv, TargetOK, QueueOK
  <2>2. \A r \in Servers : handler[r].gen <= minted
    BY DEF SessionInv, HandlersOK, HandlerOK
  <2> QED
    BY <1>1, <1>2, <1>4, <2>1, <2>2, ZenonT(40) DEF Newest
<1>11. Greeting'
  BY <1>2, <1>4, <1>5, <1>8, <1>9, <1>10, ZenonT(40) DEF Greeting, SessionInv, WireOK
<1>12. WireOK'
  BY ZenonT(40), <1>2, <1>8, <1>9, <1>11 DEF SessionInv, WireOK
<1> QED
  BY <1>1, <1>3, <1>12 DEF SessionInv

\* The stream of a handler that is at work, and of one that has asked.
LEMMA WorkWire ==
  ASSUME NEW s \in Servers, conn' \in Streams, conn'.up, conn'.to = s,
         conn'.c2s = <<>>, conn'.s2c = <<>>,
         handler'[s].live, handler'[s].pc \in {"lease", "resume", "store"},
         \A r \in Servers \ {s} : ~handler'[r].live,
         sender' \in {"recv", "stopped"}, paused' \in BOOLEAN
  PROVE  WireOK'
<1>1. Working'
  BY DEF Working
<1>2. sender' \in {"recv", "get", "stopped"}
  OBVIOUS
<1>3. \A r \in Servers : handler'[r].live => conn'.up /\ conn'.to = r
  OBVIOUS
<1> QED
  BY <1>1, <1>2, <1>3 DEF WireOK

\* A stream on which the handler has just sent one request.
LEMMA RequestWire ==
  ASSUME NEW s \in Servers, conn' \in Streams, conn'.up, conn'.to = s,
         NEW g \in Frames, conn'.c2s = <<>>, conn'.s2c = <<g>>, g.t \in Asking,
         g.t = "repair" => paused' /\ Drained',
         handler'[s].live, handler'[s].pc = "wait",
         \A r \in Servers \ {s} : ~handler'[r].live,
         sender' \in {"recv", "stopped"}, paused' \in BOOLEAN
  PROVE  WireOK'
<1>1. Requesting'
  BY DEF Requesting
<1>2. sender' \in {"recv", "get", "stopped"}
  OBVIOUS
<1>3. \A r \in Servers : handler'[r].live => conn'.up /\ conn'.to = r
  OBVIOUS
<1> QED
  BY <1>1, <1>2, <1>3 DEF WireOK

\* Connect accepts a hello.
LEMMA AcceptKeeps ==
  ASSUME SessionInv, NEW s \in Servers, Accept(s)
  PROVE  SessionInv'
<1>1. /\ QueueOK' /\ TargetOK' /\ LogOK' /\ AckedIsDurable' /\ Grown
      /\ db'.Generation = db.Generation /\ db'.Received = db.Received
  BY StillStep DEF Accept, targetVars
<1>2. /\ conn.up /\ conn.to = s /\ conn.c2s # <<>> /\ Head(conn.c2s).t = "hello"
      /\ sender' = sender /\ lease' = lease /\ paused' = paused
  BY DEF Accept
<1>3. /\ Head(conn.c2s) \in Frames /\ conn.c2s = <<Head(conn.c2s)>> /\ conn.s2c = <<>>
      /\ Head(conn.c2s).gen \in 1..minted /\ Newest(Head(conn.c2s).gen)
      /\ sender # "get" /\ \A r \in Servers : ~handler[r].live
  BY <1>2, Greeted
<1>4. /\ HandlersOK /\ HoldersOK /\ QueueOK
      /\ sender' \in {"recv", "stopped"} /\ paused' \in BOOLEAN
  BY <1>2, <1>3 DEF SessionInv, WireOK
<1>5. CASE handler[s].pc = "none"
  <2>1. PICK gen \in Nat : gen = Head(conn.c2s).gen /\ gen > 0 /\ gen <= minted
    BY <1>3, <1>4, SMTT(30) DEF QueueOK
  <2> DEFINE h == [Idle EXCEPT !.pc = "lease", !.live = TRUE, !.gen = gen]
  <2>2. handler' = [handler EXCEPT ![s] = h] /\ conn' = [conn EXCEPT !.c2s = Tail(@)]
    BY <1>5, <2>1 DEF Accept
  <2>3. h \in Handlers /\ h.pc = "lease" /\ h.live = TRUE /\ h.gen = gen
    BY DEF Idle, Handlers
  <2> HIDE DEF h
  <2>4. /\ handler' \in [Servers -> Handlers] /\ handler'[s] = h
        /\ \A r \in Servers \ {s} : handler'[r] = handler[r]
    BY ZenonT(40), <1>4, <2>2, <2>3, HandlerSet
  <2>5. minted' = minted
    BY DEF Accept, queueVars
  <2>6. HandlerOK(s)'
    BY <2>1, <2>3, <2>4, <2>5, ZenonT(40) DEF HandlerOK
  <2>7. \A r \in Servers \ {s} : HandlerOK(r)'
    BY ZenonT(40), <1>1, <1>4, <2>4, HandlerKept
  <2>8. HandlersOK'
    BY <1>2, <1>4, <2>4, <2>6, <2>7, ZenonT(40) DEF HandlersOK
  <2>9. HoldersOK'
    BY <1>1, <1>2, <1>4, <2>3, <2>4, ZenonT(40) DEF HoldersOK, HolderOK
  <2>10. gen <= gen
    BY SMT
  <2>11. Newest(gen)'
    BY ZenonT(40), <1>1, <1>3, <2>1, <2>3, <2>4, <2>10 DEF Newest
  <2>12. NewestOK'
    BY ZenonT(40), <1>3, <2>3, <2>4, <2>11 DEF NewestOK, Newest
  <2>13. Tail(conn.c2s) = <<>>
    BY <1>3, Receive
  <2>14. conn \in Streams /\ <<>> \in Seq(Frames)
    BY Transmit DEF SessionInv, WireOK
  <2>15. /\ conn' \in Streams /\ conn'.up = conn.up /\ conn'.to = conn.to
         /\ conn'.c2s = <<>> /\ conn'.s2c = <<>>
    BY ZenonT(40), <1>3, <2>2, <2>13, <2>14 DEF Streams
  <2>16. WireOK'
    BY <1>2, <1>3, <1>4, <2>3, <2>4, <2>15, WorkWire, ZenonT(40)
  <2> QED
    BY <1>1, <2>8, <2>9, <2>12, <2>16, ZenonT(40) DEF SessionInv
<1>6. CASE handler[s].pc # "none"
  <2>1. conn' = Down /\ handler' = handler
    BY <1>6 DEF Accept
  <2>2. \A r \in Servers : Quits(r)
    BY <1>3, <2>1 DEF Quits
  <2>3. Cut
    BY <1>2, <1>4, <2>1, <2>2, ZenonT(40) DEF Cut, HandlersOK
  <2>4. HandlersOK' /\ HoldersOK' /\ NewestOK' /\ WireOK'
    BY <1>1, <2>3, CutKeeps
  <2> QED
    BY <1>1, <2>4 DEF SessionInv
<1> QED
  BY <1>5, <1>6

\* Connect takes the advisory lock.
LEMMA AcquireLeaseKeeps ==
  ASSUME SessionInv, NEW s \in Servers, AcquireLease(s)
  PROVE  SessionInv'
<1>1. /\ QueueOK' /\ TargetOK' /\ LogOK' /\ AckedIsDurable' /\ Grown /\ Advanced
      /\ db'.Generation = db.Generation /\ db'.Received = db.Received
  BY StillStep DEF AcquireLease, targetVars
<1>2. handler[s].pc = "lease" /\ sender' = sender /\ UNCHANGED queueVars /\ UNCHANGED db
  BY DEF AcquireLease, targetVars
<1>3. HandlersOK /\ HoldersOK /\ QueueOK /\ NewestOK
  BY DEF SessionInv
<1>4. CASE lease = None
  <2>1. /\ lease' = s /\ conn' = conn /\ paused' = paused
        /\ handler' = [handler EXCEPT ![s].pc = "resume"]
    BY <1>4 DEF AcquireLease
  <2> DEFINE h == [handler[s] EXCEPT !.pc = "resume"]
  <2>2. handler' = [handler EXCEPT ![s] = h]
    BY <1>3, <2>1 DEF HandlersOK
  <2>3. handler[s] \in Handlers
    BY <1>3 DEF HandlersOK
  <2>4. /\ h \in Handlers /\ h.pc = "resume" /\ h.live = handler[s].live
        /\ h.gen = handler[s].gen
    BY <2>3 DEF Handlers
  <2> HIDE DEF h
  <2>5. /\ handler' \in [Servers -> Handlers] /\ handler'[s] = h
        /\ \A r \in Servers \ {s} : handler'[r] = handler[r]
    BY ZenonT(40), <1>3, <2>2, <2>4, HandlerSet
  <2>6. minted' = minted /\ st' = st
    BY <1>2 DEF queueVars
  <2>7. HandlerOK(s)'
    BY <1>2, <1>3, <2>4, <2>5, <2>6, ZenonT(40) DEF HandlersOK, HandlerOK
  <2>8. \A r \in Servers \ {s} : HandlerOK(r)'
    BY ZenonT(40), <1>1, <1>3, <2>5, HandlerKept
  <2>9. HandlersOK'
    BY <2>1, <2>5, <2>7, <2>8, ZenonT(40) DEF HandlersOK
  <2>10. HoldersOK'
    BY <2>1, <2>4, <2>5 DEF HoldersOK
  <2>11. \A r \in Servers : handler'[r].live = handler[r].live /\ handler'[r].gen = handler[r].gen
    BY <2>4, <2>5
  <2>12. NewestOK'
    BY <1>1, <1>3, <2>11 DEF NewestOK, Newest
  <2>13. CASE handler[s].live
    <3>1. /\ conn.up /\ conn.to = s /\ conn.c2s = <<>> /\ conn.s2c = <<>> /\ sender # "get"
      BY <1>2, <2>13, AtWork, ZenonT(40)
    <3>2. conn \in Streams /\ sender' \in {"recv", "stopped"} /\ paused' \in BOOLEAN
      BY <1>2, <2>1, <3>1, ZenonT(40) DEF SessionInv, WireOK
    <3>3. \A r \in Servers \ {s} : ~handler'[r].live
      BY <2>5, <3>1 DEF SessionInv, WireOK
    <3>4. WireOK'
      BY <2>1, <2>4, <2>5, <2>13, <3>1, <3>2, <3>3, WorkWire, ZenonT(40)
    <3> QED
      BY <1>1, <2>9, <2>10, <2>12, <3>4, ZenonT(40) DEF SessionInv
  <2>14. CASE ~handler[s].live
    <3>1. \A r \in Servers : /\ handler'[r].live = handler[r].live
                             /\ handler[r].live => handler'[r].pc = handler[r].pc
                             /\ handler'[r].gen = handler[r].gen
      BY <2>5, <2>11, <2>14
    <3>2. Drained => Drained'
      BY <2>6 DEF Drained
    <3>3. WireOK'
      BY <1>1, <1>2, <2>1, <3>1, <3>2, WireKept, ZenonT(40)
    <3> QED
      BY <1>1, <2>9, <2>10, <2>12, <3>3 DEF SessionInv
  <2> QED
    BY <2>13, <2>14
<1>5. CASE lease # None /\ handler[s].live
  <2>1. Refuse(s) /\ lease' = lease
    BY <1>5 DEF AcquireLease
  <2>2. sender # "get" /\ handler[s].pc # "none"
    BY <1>2, <1>5, AtWork
  <2>3. sender' \in {"recv", "stopped"}
    BY <1>2, <2>2 DEF SessionInv, WireOK
  <2>4. HandlersOK' /\ HoldersOK' /\ NewestOK' /\ WireOK'
    BY <1>1, <1>5, <2>1, <2>2, <2>3, RefuseKeeps, ZenonT(40)
  <2> QED
    BY <1>1, <2>4 DEF SessionInv
<1>6. CASE lease # None /\ ~handler[s].live
  <2>1. /\ handler' = [handler EXCEPT ![s].pc = "done"] /\ lease' = lease
        /\ UNCHANGED <<conn, sender, paused>> /\ handler[s].pc # "none"
    BY <1>2, <1>6 DEF AcquireLease
  <2> QED
    BY ZenonT(40), <1>2, <1>6, <2>1, StopKeeps
<1> QED
  BY <1>4, <1>5, <1>6

\* Connect reads the state row and pulls, or refuses the generation.
LEMMA ResumeKeeps ==
  ASSUME SessionInv, NEW s \in Servers, Resume(s)
  PROVE  SessionInv'
<1>1. /\ handler[s].pc = "resume" /\ sender' = sender /\ lease' = lease /\ UNCHANGED queueVars
      /\ db' = IF Foreign(s) THEN [db EXCEPT !.Authorized = FALSE] ELSE db
  BY DEF Resume
<1>2. DOMAIN db' = DbFields /\ \A x \in DbFields \ {"Authorized"} : db'[x] = db[x]
  BY <1>1 DEF SessionInv, TargetOK, RowOK
<1>3. /\ QueueOK' /\ TargetOK' /\ LogOK' /\ AckedIsDurable' /\ Grown /\ Advanced
      /\ db'.Generation = db.Generation /\ db'.Received = db.Received
  BY <1>1, <1>2, LinkStep
<1>4. HandlersOK /\ HoldersOK /\ QueueOK /\ NewestOK /\ TargetOK
  BY DEF SessionInv
<1>5. minted' = minted /\ st' = st
  BY <1>1 DEF queueVars
<1>6. handler[s] \in Handlers
  BY <1>4 DEF HandlersOK
<1>7. CASE Foreign(s) /\ ~db.Authorized /\ handler[s].live
  <2>1. Refuse(s)
    BY <1>7 DEF Resume
  <2>2. sender # "get" /\ handler[s].pc # "none"
    BY ZenonT(40), <1>1, <1>7, AtWork
  <2>3. sender' \in {"recv", "stopped"}
    BY <1>1, <2>2 DEF SessionInv, WireOK
  <2>4. HandlersOK' /\ HoldersOK' /\ NewestOK' /\ WireOK'
    BY <1>1, <1>3, <1>7, <2>1, <2>2, <2>3, RefuseKeeps, ZenonT(40)
  <2> QED
    BY <1>3, <2>4 DEF SessionInv
<1>8. StartAt(s) \in Nat
  BY <1>4, SMTT(30) DEF StartAt, TargetOK, RowOK
<1>9. CASE ~handler[s].live
  <2>1. /\ conn' = conn /\ paused' = paused
        /\ \/ handler' = [handler EXCEPT ![s].pc = "done"]
           \/ handler' = [handler EXCEPT ![s].pc = "done", ![s].next = StartAt(s)]
    BY <1>9 DEF Resume
  <2>2. PICK h \in Handlers : /\ handler' = [handler EXCEPT ![s] = h] /\ ~h.live
                              /\ h.gen = handler[s].gen /\ h.pc = "done"
    <3>1. CASE handler' = [handler EXCEPT ![s].pc = "done"]
      <4> DEFINE h == [handler[s] EXCEPT !.pc = "done"]
      <4>1. handler' = [handler EXCEPT ![s] = h]
        BY <1>4, <3>1 DEF HandlersOK
      <4>2. h \in Handlers /\ h.live = handler[s].live /\ h.gen = handler[s].gen /\ h.pc = "done"
        BY <1>6 DEF Handlers
      <4> HIDE DEF h
      <4> QED
        BY <1>9, <4>1, <4>2
    <3>2. CASE handler' = [handler EXCEPT ![s].pc = "done", ![s].next = StartAt(s)]
      <4>1. PICK next \in Nat : next = StartAt(s)
        BY <1>8
      <4> DEFINE h == [handler[s] EXCEPT !.pc = "done", !.next = next]
      <4>2. handler' = [handler EXCEPT ![s] = h]
        BY <1>4, <3>2, <4>1 DEF HandlersOK
      <4>3. h \in Handlers /\ h.live = handler[s].live /\ h.gen = handler[s].gen /\ h.pc = "done"
        BY <1>6 DEF Handlers
      <4> HIDE DEF h
      <4> QED
        BY <1>9, <4>2, <4>3
    <3> QED
      BY <2>1, <3>1, <3>2
  <2>3. /\ handler' \in [Servers -> Handlers] /\ handler'[s] = h
        /\ \A r \in Servers \ {s} : handler'[r] = handler[r]
    BY <1>4, <2>2, HandlerSet
  <2>4. Quits(s)
    BY <1>1, <2>2, <2>3 DEF Quits
  <2>5. \A r \in Servers : handler'[r] = handler[r] \/ (~handler[r].live /\ Quits(r))
    BY <1>9, <2>3, <2>4
  <2>6. HandlersOK' /\ HoldersOK' /\ NewestOK' /\ WireOK'
    BY <1>1, <1>3, <1>5, <2>1, <2>3, <2>5, AsideKeeps, ZenonT(40)
  <2> QED
    BY <1>3, <2>6 DEF SessionInv
<1>10. CASE handler[s].live /\ ~(Foreign(s) /\ ~db.Authorized)
  <2>1. PICK next \in Nat : next = StartAt(s)
    BY <1>8
  <2>2. PICK gen \in Nat : gen = handler[s].gen
    BY <1>6 DEF Handlers
  <2>3. /\ handler' = [handler EXCEPT ![s].pc = "wait", ![s].next = next]
        /\ conn' = [conn EXCEPT !.s2c = Append(@, Frame("pull", gen, next, None))]
        /\ paused' = paused
    BY <1>10, <2>1, <2>2 DEF Resume
  <2> DEFINE h == [handler[s] EXCEPT !.pc = "wait", !.next = next]
  <2>4. handler' = [handler EXCEPT ![s] = h]
    BY <1>4, <2>3 DEF HandlersOK
  <2>5. /\ h \in Handlers /\ h.pc = "wait" /\ h.live = handler[s].live
        /\ h.gen = handler[s].gen /\ h.next = next
    BY <1>6 DEF Handlers
  <2> HIDE DEF h
  <2>6. /\ handler' \in [Servers -> Handlers] /\ handler'[s] = h
        /\ \A r \in Servers \ {s} : handler'[r] = handler[r]
    BY <1>4, <2>4, <2>5, HandlerSet, ZenonT(40)
  <2>7. HandlerOK(s)'
    BY <1>1, <1>4, <1>5, <2>5, <2>6, ZenonT(40) DEF HandlersOK, HandlerOK
  <2>8. \A r \in Servers \ {s} : HandlerOK(r)'
    BY <1>3, <1>4, <2>6, HandlerKept, ZenonT(40)
  <2>9. HandlersOK'
    BY <1>1, <1>4, <2>6, <2>7, <2>8, ZenonT(40) DEF HandlersOK
  <2>10. HolderOK(s)'
    <3>1. db.Generation <= gen
      BY <1>4, <1>10, <2>2 DEF NewestOK, Newest
    <3>2. gen > 0 /\ (db.Generation = 0 => db.Received = 0)
      BY <1>1, <1>4, <2>2, ZenonT(40) DEF HandlersOK, HandlerOK, TargetOK
    <3>3. next = IF gen = db.Generation THEN db.Received + 1 ELSE 1
      BY <2>1, <2>2, <3>2, SMTT(30) DEF StartAt, Foreign
    <3> QED
      BY <1>3, <2>2, <2>5, <2>6, <3>1, <3>3, ZenonT(40) DEF HolderOK
  <2>11. HoldersOK'
    BY <1>1, <1>3, <1>4, <2>6, <2>10, ZenonT(40) DEF HoldersOK, HolderOK
  <2>12. \A r \in Servers : handler'[r].live = handler[r].live /\ handler'[r].gen = handler[r].gen
    BY <2>5, <2>6
  <2>13. NewestOK'
    BY <1>3, <1>4, <2>12 DEF NewestOK, Newest
  <2>14. /\ conn.up /\ conn.to = s /\ conn.c2s = <<>> /\ conn.s2c = <<>> /\ sender # "get"
    BY <1>1, <1>10, AtWork
  <2>15. conn \in Streams /\ sender' \in {"recv", "stopped"} /\ paused' \in BOOLEAN
    BY <1>1, <2>3, <2>14, ZenonT(40) DEF SessionInv, WireOK
  <2>16. PICK g \in Frames : g = Frame("pull", gen, next, None) /\ g.t = "pull"
    <3>1. Frame("pull", gen, next, None) \in Frames /\ Frame("pull", gen, next, None).t = "pull"
      BY FrameTypes, SMTT(30)
    <3> QED
      BY <3>1
  <2>17. Append(conn.s2c, g) = <<g>> /\ <<g>> \in Seq(Frames)
    BY <2>14, Transmit
  <2>18. /\ conn' \in Streams /\ conn'.up = conn.up /\ conn'.to = conn.to
         /\ conn'.c2s = <<>> /\ conn'.s2c = <<g>>
    BY <2>3, <2>14, <2>15, <2>16, <2>17, ZenonT(40) DEF Streams
  <2>19. g.t \in Asking /\ g.t # "repair"
    BY <2>16 DEF Asking
  <2>20. \A r \in Servers \ {s} : ~handler'[r].live
    BY <2>6, <2>14 DEF SessionInv, WireOK
  <2>21. WireOK'
    BY <1>10, <2>5, <2>6, <2>14, <2>15, <2>18, <2>19, <2>20, RequestWire, ZenonT(40)
  <2> QED
    BY <1>3, <2>9, <2>11, <2>13, <2>21, ZenonT(40) DEF SessionInv
<1> QED
  BY <1>7, <1>9, <1>10

\* The handler answers with one request.
LEMMA AnswerRequested ==
  ASSUME SessionInv, NEW s \in Servers, handler[s].live, conn.c2s # <<>>,
         Head(conn.c2s).t # "hello", NEW g \in Frames, g.t \in Asking, conn' = Respond(<<g>>),
         UNCHANGED <<sender, paused, handler>>,
         g.t = "repair" => paused' /\ Drained'
  PROVE  WireOK'
<1>1. conn.up /\ conn.to = s /\ conn \in Streams /\ \A r \in Servers \ {s} : ~handler'[r].live
  BY DEF SessionInv, WireOK
<1>2. /\ handler[conn.to].pc = "wait" /\ sender # "get"
      /\ Head(conn.c2s) \in Frames /\ conn.c2s = <<Head(conn.c2s)>> /\ conn.s2c = <<>>
  BY <1>1, Answered
<1>3. Tail(conn.c2s) = <<>> /\ conn.s2c \o <<g>> = <<g>>
  BY <1>2, Receive, Transmit, ZenonT(40)
<1>4. <<>> \in Seq(Frames) /\ <<g>> \in Seq(Frames)
  BY Transmit
<1>5. /\ conn' \in Streams /\ conn'.up = conn.up /\ conn'.to = conn.to
      /\ conn'.c2s = <<>> /\ conn'.s2c = <<g>>
  BY <1>1, <1>3, <1>4 DEF Respond, Streams
<1>6. sender' \in {"recv", "stopped"} /\ paused' \in BOOLEAN
  BY <1>2 DEF SessionInv, WireOK
<1> QED
  BY <1>1, <1>2, <1>5, <1>6, RequestWire, ZenonT(40)

\* The pull a waiting handler sends is a frame.
LEMMA PullType ==
  ASSUME SessionInv, NEW s \in Servers
  PROVE  Pull(s) \in Frames /\ Pull(s).t = "pull"
<1>1. handler[s] \in Handlers
  BY DEF SessionInv, HandlersOK
<1>2. PICK gen \in Nat, next \in Nat : gen = handler[s].gen /\ next = handler[s].next
  BY <1>1 DEF Handlers
<1>3. Frame("pull", gen, next, None) \in Frames /\ Frame("pull", gen, next, None).t = "pull"
  BY FrameTypes, SMTT(30)
<1> QED
  BY <1>2, <1>3 DEF Pull

\* The handler is told that there is nothing new.
LEMMA HandleIdleKeeps ==
  ASSUME SessionInv, NEW s \in Servers, HandleIdle(s)
  PROVE  SessionInv'
<1>1. /\ QueueOK' /\ TargetOK' /\ LogOK' /\ AckedIsDurable' /\ Grown
      /\ db'.Generation = db.Generation /\ db'.Received = db.Received
  BY StillStep DEF HandleIdle, targetVars
<1>2. /\ handler[s].live /\ conn.c2s # <<>> /\ Head(conn.c2s).t = "idle"
      /\ UNCHANGED <<sender, paused, handler>> /\ lease' = lease
      /\ conn' = Respond(<<Pull(s)>>) \/ conn' = Respond(<<Plainly("reconcile")>>)
  BY DEF HandleIdle, Received
<1>3. HandlersOK' /\ HoldersOK' /\ NewestOK'
  BY <1>1, <1>2, HandlersSame
<1>4. PICK g \in Frames : conn' = Respond(<<g>>) /\ g.t \in {"pull", "reconcile"}
  BY <1>2, PullType, PlainTypes
<1>5. g.t \in Asking /\ g.t # "repair" /\ Head(conn.c2s).t # "hello"
  BY <1>2, <1>4 DEF Asking
<1>6. WireOK'
  BY <1>2, <1>4, <1>5, AnswerRequested, ZenonT(40)
<1> QED
  BY <1>1, <1>3, <1>6 DEF SessionInv

\* The handler is told that capture goes on.
LEMMA HandleResumedKeeps ==
  ASSUME SessionInv, NEW s \in Servers, HandleResumed(s)
  PROVE  SessionInv'
<1>1. /\ QueueOK' /\ TargetOK' /\ LogOK' /\ AckedIsDurable' /\ Grown
      /\ db'.Generation = db.Generation /\ db'.Received = db.Received
  BY StillStep DEF HandleResumed, targetVars
<1>2. /\ handler[s].live /\ conn.c2s # <<>> /\ Head(conn.c2s).t = "resumed"
      /\ UNCHANGED <<sender, paused, handler>> /\ lease' = lease
      /\ conn' = Respond(<<Pull(s)>>)
  BY DEF HandleResumed, Received
<1>3. HandlersOK' /\ HoldersOK' /\ NewestOK'
  BY <1>1, <1>2, HandlersSame
<1>4. PICK g \in Frames : conn' = Respond(<<g>>) /\ g.t = "pull"
  BY <1>2, PullType
<1>5. g.t \in Asking /\ g.t # "repair" /\ Head(conn.c2s).t # "hello"
  BY <1>2, <1>4 DEF Asking
<1>6. WireOK'
  BY <1>2, <1>4, <1>5, AnswerRequested, ZenonT(40)
<1> QED
  BY <1>1, <1>3, <1>6 DEF SessionInv

\* The handler compares the digests and resumes or repairs.
LEMMA HandleDigestsKeeps ==
  ASSUME SessionInv, NEW s \in Servers, HandleDigests(s)
  PROVE  SessionInv'
<1>1. /\ handler[s].live /\ conn.c2s # <<>> /\ Head(conn.c2s).t = "digests"
      /\ UNCHANGED <<sender, paused, handler>> /\ lease' = lease /\ UNCHANGED queueVars
      /\ conn' = Respond(<<Plainly("resume")>>) \/ conn' = Respond(<<Plainly("repair")>>)
      /\ db' = db \/ db' = [db EXCEPT !.Authorized = TRUE]
  BY DEF HandleDigests, Received
<1>2. DOMAIN db' = DbFields /\ \A x \in DbFields \ {"Authorized"} : db'[x] = db[x]
  BY <1>1 DEF SessionInv, TargetOK, RowOK
<1>3. /\ QueueOK' /\ TargetOK' /\ LogOK' /\ AckedIsDurable' /\ Grown
      /\ db'.Generation = db.Generation /\ db'.Received = db.Received
  BY <1>1, <1>2, LinkStep
<1>4. HandlersOK' /\ HoldersOK' /\ NewestOK'
  BY <1>1, <1>3, HandlersSame
<1>5. PICK g \in Frames : conn' = Respond(<<g>>) /\ g.t \in {"resume", "repair"}
  BY <1>1, PlainTypes
<1>6. conn.up /\ Head(conn.c2s).t # "hello"
  BY <1>1 DEF SessionInv, WireOK
<1>7. paused /\ Drained
  BY <1>1, <1>6, Answered
<1>8. Drained'
  BY <1>1, <1>7 DEF Drained, queueVars
<1>9. paused'
  BY <1>1, <1>7, SMTT(30)
<1>10. g.t \in Asking
  BY <1>5 DEF Asking
<1>11. WireOK'
  BY <1>1, <1>5, <1>6, <1>8, <1>9, <1>10, AnswerRequested, ZenonT(40)
<1> QED
  BY <1>3, <1>4, <1>11 DEF SessionInv

\* The handler is told that a reconciliation failed.
LEMMA HandleFailureKeeps ==
  ASSUME SessionInv, NEW s \in Servers, HandleFailure(s)
  PROVE  SessionInv'
<1>1. /\ QueueOK' /\ TargetOK' /\ LogOK' /\ AckedIsDurable' /\ Grown
      /\ db'.Generation = db.Generation /\ db'.Received = db.Received
  BY StillStep DEF HandleFailure, targetVars
<1>2. /\ handler[s].live /\ handler[s].pc = "wait" /\ conn.c2s # <<>>
      /\ Head(conn.c2s).t # "hello" /\ sender' = sender /\ lease' = lease /\ Refuse(s)
  BY DEF HandleFailure, Received
<1>3. conn.up
  BY <1>2 DEF SessionInv, WireOK
<1>4. sender # "get" /\ handler[s].pc # "none"
  BY <1>2, <1>3, Answered, ZenonT(40)
<1>5. sender' \in {"recv", "stopped"}
  BY <1>2, <1>4 DEF SessionInv, WireOK
<1>6. HandlersOK' /\ HoldersOK' /\ NewestOK' /\ WireOK'
  BY <1>1, <1>2, <1>4, <1>5, RefuseKeeps, ZenonT(40)
<1> QED
  BY <1>1, <1>6 DEF SessionInv

\* The handler takes an event to store.
LEMMA HandleEventKeeps ==
  ASSUME SessionInv, NEW s \in Servers, HandleEvent(s)
  PROVE  SessionInv'
<1>1. /\ QueueOK' /\ TargetOK' /\ LogOK' /\ AckedIsDurable' /\ Grown
      /\ db'.Generation = db.Generation /\ db'.Received = db.Received
  BY StillStep DEF HandleEvent, targetVars
<1>2. /\ handler[s].live /\ handler[s].pc = "wait" /\ conn.c2s # <<>>
      /\ Head(conn.c2s).t = "event" /\ lease' = lease /\ UNCHANGED queueVars
  BY DEF HandleEvent, Received
<1>3. /\ conn.up /\ conn.to = s /\ conn \in Streams
      /\ \A r \in Servers \ {s} : ~handler[r].live
  BY <1>2 DEF SessionInv, WireOK
<1>4. PICK f \in Frames : /\ f = Head(conn.c2s) /\ conn.c2s = <<f>> /\ conn.s2c = <<>>
                          /\ EventOK(f) /\ sender # "get"
  <2>1. Head(conn.c2s).t # "hello"
    BY <1>2
  <2> QED
    BY <1>2, <1>3, <2>1, Answered, ZenonT(40)
<1>5. HandlersOK /\ HoldersOK /\ QueueOK /\ NewestOK
  BY DEF SessionInv
<1>6. CASE ~Enveloped(s, f)
  <2>1. Refuse(s) /\ sender' = "stopped"
    BY <1>4, <1>6 DEF HandleEvent
  <2>2. handler[s].pc # "none"
    BY <1>2
  <2>3. HandlersOK' /\ HoldersOK' /\ NewestOK' /\ WireOK'
    BY <1>1, <1>2, <2>1, <2>2, RefuseKeeps, ZenonT(40)
  <2> QED
    BY <1>1, <2>3 DEF SessionInv
<1>7. CASE Enveloped(s, f)
  <2>1. /\ handler' = [handler EXCEPT ![s].pc = "store", ![s].event = f]
        /\ conn' = [conn EXCEPT !.c2s = Tail(@)] /\ UNCHANGED <<sender, paused>>
    BY <1>4, <1>7 DEF HandleEvent
  <2> DEFINE h == [handler[s] EXCEPT !.pc = "store", !.event = f]
  <2>2. handler' = [handler EXCEPT ![s] = h]
    BY <1>5, <2>1 DEF HandlersOK
  <2>3. handler[s] \in Handlers
    BY <1>5 DEF HandlersOK
  <2>4. /\ h \in Handlers /\ h.pc = "store" /\ h.live = handler[s].live
        /\ h.gen = handler[s].gen /\ h.next = handler[s].next /\ h.event = f
    BY <2>3 DEF Handlers
  <2> HIDE DEF h
  <2>5. /\ handler' \in [Servers -> Handlers] /\ handler'[s] = h
        /\ \A r \in Servers \ {s} : handler'[r] = handler[r]
    BY <1>5, <2>2, <2>4, HandlerSet, ZenonT(40)
  <2>6. minted' = minted
    BY <1>2 DEF queueVars
  <2>7. EventOK(f)'
    BY <1>1, <1>4, <1>5, EventStable, ZenonT(40)
  <2>8. EventOK(handler[s].event)'
    BY ZenonT(40), <2>4, <2>5, <2>7 DEF EventOK, Carried, Payload
  <2>9. f.seq = handler[s].next /\ f.gen = handler[s].gen
    BY <1>7 DEF Enveloped
  <2>10. HandlerOK(s)'
    BY <1>2, <1>5, <2>4, <2>5, <2>6, <2>8, <2>9, ZenonT(40) DEF HandlersOK, HandlerOK
  <2>11. \A r \in Servers \ {s} : HandlerOK(r)'
    BY <1>1, <1>5, <2>5, HandlerKept, ZenonT(40)
  <2>12. HandlersOK'
    BY <1>2, <1>5, <2>5, <2>10, <2>11, ZenonT(40) DEF HandlersOK
  <2>13. HoldersOK'
    <3>1. ASSUME NEW r \in Servers, lease' = r, handler'[r].pc \in {"wait", "store"}
          PROVE  HolderOK(r)'
      <4>1. handler[r].pc \in {"wait", "store"}
        BY <1>2, <2>5, <3>1
      <4>2. HolderOK(r)
        BY <1>2, <1>5, <3>1, <4>1, ZenonT(40) DEF HoldersOK
      <4>3. handler'[r].gen = handler[r].gen /\ handler'[r].next = handler[r].next
        BY <2>4, <2>5
      <4> QED
        BY ZenonT(40), <1>1, <4>2, <4>3 DEF HolderOK
    <3> QED
      BY <3>1 DEF HoldersOK
  <2>14. \A r \in Servers : handler'[r].live = handler[r].live /\ handler'[r].gen = handler[r].gen
    BY <2>4, <2>5
  <2>15. NewestOK'
    BY ZenonT(40), <1>1, <1>5, <2>14 DEF NewestOK, Newest
  <2>16. Tail(conn.c2s) = <<>> /\ <<>> \in Seq(Frames)
    BY ZenonT(40), <1>4, Receive, Transmit
  <2>17. /\ conn' \in Streams /\ conn'.up = conn.up /\ conn'.to = conn.to
         /\ conn'.c2s = <<>> /\ conn'.s2c = <<>>
    BY <1>3, <1>4, <2>1, <2>16, ZenonT(40) DEF Streams
  <2>18. sender' \in {"recv", "stopped"} /\ paused' \in BOOLEAN
    BY <1>4, <2>1 DEF SessionInv, WireOK
  <2>19. WireOK'
    BY <1>2, <1>3, <2>4, <2>5, <2>17, <2>18, WorkWire, ZenonT(40)
  <2> QED
    BY <1>1, <2>12, <2>13, <2>15, <2>19, ZenonT(40) DEF SessionInv
<1> QED
  BY <1>6, <1>7

\* store fails and leaves the database alone.
LEMMA StoreFailsKeeps ==
  ASSUME SessionInv, NEW s \in Servers, StoreFails(s)
  PROVE  SessionInv'
<1>1. /\ handler[s].pc = "store" /\ sender' = sender /\ lease' = lease
      /\ UNCHANGED queueVars /\ UNCHANGED db
  BY DEF StoreFails, targetVars
<1>2. CASE handler[s].live
  <2>1. /\ QueueOK' /\ TargetOK' /\ LogOK' /\ AckedIsDurable' /\ Grown
        /\ db'.Generation = db.Generation /\ db'.Received = db.Received
    BY <1>1, StillStep
  <2>2. Refuse(s)
    BY <1>2 DEF StoreFails
  <2>3. sender # "get" /\ handler[s].pc # "none"
    BY ZenonT(40), <1>1, <1>2, AtWork
  <2>4. sender' \in {"recv", "stopped"}
    BY <1>1, <2>3 DEF SessionInv, WireOK
  <2>5. HandlersOK' /\ HoldersOK' /\ NewestOK' /\ WireOK'
    BY <1>1, <1>2, <2>1, <2>2, <2>3, <2>4, RefuseKeeps, ZenonT(40)
  <2> QED
    BY <2>1, <2>5 DEF SessionInv
<1>3. CASE ~handler[s].live
  <2>1. /\ handler' = [handler EXCEPT ![s].pc = "done"] /\ UNCHANGED <<conn, sender, paused>>
        /\ handler[s].pc # "none"
    BY <1>1, <1>3 DEF StoreFails
  <2> QED
    BY ZenonT(40), <1>1, <1>3, <2>1, StopKeeps
<1> QED
  BY <1>2, <1>3

\* The event in the hands of the lease's holder is the one the target expects.
LEMMA HolderExpected ==
  ASSUME SessionInv, NEW s \in Servers, handler[s].pc = "store", lease = s,
         NEW m, m = Incoming(s)
  PROVE  /\ Expected(m) /\ m.gen = handler[s].gen /\ m.seq = handler[s].next
         /\ m.gen = st.Generation => m.seq <= st.ReadySeq
         /\ m.gen = st.Generation /\ m.seq \in DOMAIN items => m.body = Payload(items[m.seq])
<1>1. HandlerOK(s) /\ HolderOK(s)
  BY DEF SessionInv, HandlersOK, HoldersOK
<1>2. PICK f : f = handler[s].event
  OBVIOUS
<1>3. EventOK(f) /\ f.seq = handler[s].next /\ f.gen = handler[s].gen
  BY <1>1, <1>2 DEF HandlerOK
<1>4. m.gen = f.gen /\ m.seq = f.seq /\ m.body = f.body
  BY <1>2 DEF Incoming
<1>5. f.seq = IF f.gen = db.Generation THEN db.Received + 1 ELSE 1
  BY <1>1, <1>3 DEF HolderOK
<1> QED
  BY <1>3, <1>4, <1>5 DEF Expected, EventOK, Carried

\* store commits the event, and the handler acknowledges it and pulls.
LEMMA StoreEventKeeps ==
  ASSUME SessionInv, NEW s \in Servers, StoreEvent(s)
  PROVE  SessionInv'
<1>1. /\ handler[s].pc = "store" /\ lease = s /\ lease' = lease
      /\ UNCHANGED queueVars /\ sender' = sender /\ paused' = paused
      /\ T!Commits(s, Incoming(s)) \/ T!Duplicate(Incoming(s))
  BY DEF StoreEvent
<1>2. PICK m : m = Incoming(s)
  OBVIOUS
<1>3. /\ Expected(m) /\ m.gen = handler[s].gen /\ m.seq = handler[s].next
      /\ m.gen = st.Generation => m.seq <= st.ReadySeq
      /\ m.gen = st.Generation /\ m.seq \in DOMAIN items => m.body = Payload(items[m.seq])
  BY <1>1, <1>2, HolderExpected
<1>4. /\ QueueOK /\ TargetOK /\ LogOK /\ AckedIsDurable /\ HandlersOK /\ HoldersOK /\ NewestOK
      /\ WireOK /\ HolderOK(s)
  BY <1>1 DEF SessionInv, HoldersOK
<1>5. st' = st /\ minted' = minted /\ items' = items
  BY <1>1 DEF queueVars
<1>6. /\ minted \in Nat /\ st.Generation \in {0, minted} /\ db.Generation \in 0..minted
      /\ db.Received \in Nat /\ st.ReadySeq \in Nat /\ st.DeliveredSeq \in Nat
      /\ st.DeliveredSeq <= st.ReadySeq /\ (st.Generation = 0 => st.ReadySeq = 0)
  BY <1>4 DEF QueueOK, TargetOK, RowOK
<1>7. PICK gen \in Nat, next \in Nat :
        /\ gen = handler[s].gen /\ next = handler[s].next /\ gen \in 1..minted /\ next > 0
  <2>1. handler[s] \in Handlers
    BY <1>4 DEF HandlersOK
  <2>2. handler[s].gen \in Nat /\ handler[s].next \in Nat
    BY ZenonT(40), <2>1 DEF Handlers
  <2>3. handler[s].gen \in 1..minted /\ handler[s].next > 0
    BY <1>3, SMTT(30) DEF Expected
  <2> QED
    BY <2>2, <2>3
<1>8. ~T!Duplicate(m)
  BY <1>3, <1>6, SMTT(30) DEF Expected, T!Duplicate
<1>9. /\ TargetOK' /\ db'.Generation = gen /\ db'.Received = next
      /\ db'.message_hash[next] = m.body
      /\ gen = db.Generation =>
           \A k \in 1..db.Received : db'.message_hash[k] = db.message_hash[k]
  <2>1. T!Commits(s, m)
    BY <1>1, <1>2, <1>8, ZenonT(40)
  <2> QED
    BY <1>3, <1>4, <1>5, <1>6, <1>7, <2>1, StoreKeeps, ZenonT(40)
<1>10. /\ db.Generation <= gen
       /\ next = IF gen = db.Generation THEN db.Received + 1 ELSE 1
  BY <1>4, <1>7 DEF HolderOK
<1>11. LogOK'
  <2>1. db'.Generation = st'.Generation => db'.Received <= st'.ReadySeq
    BY <1>3, <1>5, <1>7, <1>9, ZenonT(40)
  <2>2. ASSUME gen = st.Generation, NEW n \in DOMAIN items, n <= next
        PROVE  db'.message_hash[n] = Payload(items[n])
    <3>1. CASE n = next
      BY ZenonT(40), <1>3, <1>7, <1>9, <2>2, <3>1
    <3>2. CASE n # next
      <4>1. n \in Nat \ {0}
        BY <1>4 DEF QueueOK
      <4>2. gen = db.Generation /\ n \in 1..db.Received /\ n <= db.Received
        BY <1>6, <1>10, <2>2, <3>2, <4>1, SMTT(30)
      <4>3. db.message_hash[n] = Payload(items[n])
        BY ZenonT(40), <1>4, <2>2, <4>2 DEF LogOK, Copied
      <4> QED
        BY ZenonT(40), <1>9, <4>2, <4>3
    <3> QED
      BY <3>1, <3>2
  <2>3. Copied'
    BY ZenonT(40), <1>5, <1>9, <2>2 DEF Copied, Payload
  <2> QED
    BY <2>1, <2>3 DEF LogOK
<1>12. Grown /\ QueueOK'
  <2>1. QueueOK'
    BY <1>1, <1>4 DEF QueueOK, PhaseOK, queueVars
  <2>2. Retained
    BY <1>5 DEF Retained
  <2> QED
    BY <1>5, <1>6, <2>1, <2>2, SMTT(30) DEF Grown, Moved
<1>13. Advanced
  BY <1>6, <1>9, <1>10, SMTT(30) DEF Advanced
<1>14. AckedIsDurable'
  BY <1>4, <1>5, <1>6, <1>7, <1>9, <1>10, SMTT(30) DEF AckedIsDurable

<1>15. handler[s] \in Handlers /\ handler[s].live \in BOOLEAN
  BY <1>4 DEF HandlersOK, Handlers
<1>16. PICK pc \in {"wait", "done"} : pc = IF handler[s].live THEN "wait" ELSE "done"
  OBVIOUS
<1>17. PICK after \in Nat : after = next + 1
  BY <1>7, SMTT(30)
<1> DEFINE h == [handler[s] EXCEPT !.pc = pc, !.event = None, !.next = after]
<1>18. handler' = [handler EXCEPT ![s] = h]
  <2>1. handler' = [handler EXCEPT ![s].pc = pc, ![s].event = None, ![s].next = after]
    BY ZenonT(40), <1>7, <1>16, <1>17 DEF StoreEvent
  <2> QED
    BY <1>4, <2>1 DEF HandlersOK
<1>19. /\ h \in Handlers /\ h.pc = pc /\ h.live = handler[s].live
       /\ h.gen = handler[s].gen /\ h.next = after
  BY <1>15 DEF Handlers
<1> HIDE DEF h
<1>20. /\ handler' \in [Servers -> Handlers] /\ handler'[s] = h
       /\ \A r \in Servers \ {s} : handler'[r] = handler[r]
  BY <1>4, <1>18, <1>19, HandlerSet, ZenonT(40)
<1>21. HandlerOK(s)'
  BY <1>1, <1>4, <1>5, <1>19, <1>20, ZenonT(40) DEF HandlersOK, HandlerOK
<1>22. \A r \in Servers \ {s} : HandlerOK(r)'
  BY <1>4, <1>12, <1>20, HandlerKept, ZenonT(40)
<1>23. HandlersOK'
  BY <1>1, <1>4, <1>20, <1>21, <1>22, ZenonT(40) DEF HandlersOK
<1>24. HolderOK(s)'
  BY <1>7, <1>9, <1>17, <1>19, <1>20, SMTT(30) DEF HolderOK
<1>25. HoldersOK'
  BY <1>1, <1>24 DEF HoldersOK
<1>26. \A r \in Servers : handler'[r].live = handler[r].live /\ handler'[r].gen = handler[r].gen
  BY <1>19, <1>20
<1>27. NewestOK'
  <2>1. db'.Generation = handler[s].gen
    BY <1>7, <1>9
  <2> QED
    BY <1>4, <1>26, <2>1, ZenonT(40) DEF NewestOK, Newest
<1>28. CASE ~handler[s].live
  <2>1. conn' = conn
    BY ZenonT(40), <1>28 DEF StoreEvent
  <2>2. db'.Generation = handler[s].gen
    BY <1>7, <1>9
  <2>3. Drained => Drained'
    BY <1>5 DEF Drained
  <2>4. \A r \in Servers : handler[r].live => handler'[r].pc = handler[r].pc
    BY <1>20, <1>28
  <2>5. WireOK'
    BY <1>1, <1>9, <1>12, <1>13, <1>26, <2>1, <2>2, <2>3, <2>4, WireKept, ZenonT(40)
  <2> QED
    BY ZenonT(40), <1>9, <1>11, <1>12, <1>14, <1>23, <1>25, <1>27, <2>5 DEF SessionInv
<1>29. CASE handler[s].live
  <2>1. conn.up /\ conn.to = s /\ conn.c2s = <<>> /\ conn.s2c = <<>> /\ sender # "get"
    BY <1>1, <1>29, AtWork
  <2>2. conn' = [conn EXCEPT !.s2c = @ \o <<Frame("ack", gen, next, None),
                                            Frame("pull", gen, after, None)>>]
    BY <1>7, <1>17, <1>29 DEF StoreEvent
  <2>3. PICK f \in Frames : /\ f = Frame("ack", gen, next, None) /\ f.t = "ack"
                            /\ f.gen = gen /\ f.seq = next
    <3>1. /\ Frame("ack", gen, next, None) \in Frames
          /\ Frame("ack", gen, next, None).t = "ack"
          /\ Frame("ack", gen, next, None).gen = gen
          /\ Frame("ack", gen, next, None).seq = next
      BY FrameTypes, SMTT(30)
    <3> QED
      BY <3>1
  <2>4. PICK g \in Frames : g = Frame("pull", gen, after, None) /\ g.t = "pull"
    <3>1. Frame("pull", gen, after, None) \in Frames /\ Frame("pull", gen, after, None).t = "pull"
      BY FrameTypes, SMTT(30)
    <3> QED
      BY <3>1
  <2>5. conn.s2c \o <<f, g>> = <<f, g>> /\ <<f, g>> \in Seq(Frames)
    BY <2>1, Transmit
  <2>6. conn \in Streams /\ sender' \in {"recv", "stopped"} /\ paused' \in BOOLEAN
    BY ZenonT(40), <1>1, <1>4, <2>1 DEF WireOK
  <2>7. /\ conn' \in Streams /\ conn'.up = conn.up /\ conn'.to = conn.to
        /\ conn'.c2s = <<>> /\ conn'.s2c = <<f, g>>
    BY <2>1, <2>2, <2>3, <2>4, <2>5, <2>6, ZenonT(40) DEF Streams
  <2>8. AckOK(f)'
    BY <1>5, <1>6, <1>7, <1>9, <2>3, SMTT(30) DEF AckOK
  <2>9. handler'[s].live /\ handler'[s].pc = "wait"
    BY <1>16, <1>19, <1>20, <1>29, ZenonT(40)
  <2>10. Acking'
    BY <2>1, <2>3, <2>4, <2>6, <2>7, <2>8, <2>9, ZenonT(40) DEF Acking
  <2>11. \A r \in Servers : handler'[r].live => conn'.up /\ conn'.to = r
    BY <1>4, <1>26, <2>7, ZenonT(40) DEF WireOK
  <2>12. WireOK'
    BY <2>1, <2>6, <2>7, <2>10, <2>11, ZenonT(40) DEF WireOK
  <2> QED
    BY <1>9, <1>11, <1>12, <1>14, <1>23, <1>25, <1>27, <2>12, ZenonT(40) DEF SessionInv
<1> QED
  BY ZenonT(40), <1>15, <1>28, <1>29

-----------------------------------------------------------------------------
(* The theorems.                                                           *)

\* A new queue, an empty target and no stream.
LEMMA InitHolds == Init => SessionInv
<1> SUFFICES ASSUME Init PROVE SessionInv
  OBVIOUS
<1>1. /\ st = Q!Blank(0, None, "empty", 0) /\ items = [n \in {} |-> None] /\ minted = 0
      /\ db = T!Fresh(0, None, FALSE) /\ conn = Down /\ sender = "recv"
      /\ handler = [s \in Servers |-> Idle] /\ lease = None /\ paused = FALSE
  BY ZenonT(40) DEF Init, Q!Open, T!Init
<1>2. /\ DOMAIN st = StateFields /\ st.Generation = 0
      /\ st.NextSeq = 0 /\ st.ReadySeq = 0 /\ st.DeliveredSeq = 0
  BY <1>1, SMTT(30) DEF Q!Blank, StateFields
<1>3. DOMAIN items = {}
  BY <1>1
<1>4. QueueOK
  <2>1. st.Phase = "empty"
    BY <1>1, SMTT(30) DEF Q!Blank
  <2>2. PhaseOK
    BY <1>2, <2>1, SMTT(30) DEF PhaseOK
  <2> QED
    BY <1>1, <1>2, <1>3, <2>2, SMTT(30) DEF QueueOK
<1>5. RowOK(db) /\ db.Generation = 0 /\ db.Received = 0
  <2>1. PICK auth : db = T!Fresh(0, None, auth)
    BY <1>1
  <2>2. /\ RowOK(T!Fresh(0, None, auth)) /\ T!Fresh(0, None, auth).Generation = 0
        /\ T!Fresh(0, None, auth).Received = 0
    BY FreshRow, SMTT(30)
  <2> QED
    BY <2>1, <2>2
<1>6. TargetOK /\ LogOK /\ AckedIsDurable
  <2>1. minted = 0
    BY <1>1
  <2>2. Copied
    BY <1>3 DEF Copied
  <2> QED
    BY <1>2, <1>5, <2>1, <2>2, SMTT(30) DEF TargetOK, LogOK, AckedIsDurable
<1>7. handler \in [Servers -> Handlers] /\ \A s \in Servers : handler[s] = Idle
  BY <1>1, IdleType
<1>8. \A s \in Servers : HandlerOK(s)
  <2>1. 0 <= minted
    BY <1>4, SMTT(30) DEF QueueOK
  <2> QED
    BY <1>7, <2>1, IdleType, ZenonT(40) DEF HandlerOK
<1>9. HandlersOK /\ HoldersOK /\ NewestOK
  BY <1>1, <1>7, <1>8, IdleType, ZenonT(40) DEF HandlersOK, HoldersOK, NewestOK
<1>10. conn \in Streams /\ ~conn.up /\ conn.c2s = <<>> /\ conn.s2c = <<>>
  BY <1>1, SMTT(30) DEF Down, Streams
<1>11. WireOK
  BY <1>1, <1>7, <1>10, IdleType, ZenonT(40) DEF WireOK
<1> QED
  BY <1>4, <1>6, <1>9, <1>11, ZenonT(40) DEF SessionInv

\* Every step keeps the invariant.
LEMMA NextKeeps == SessionInv /\ [Next]_vars => SessionInv'
<1> SUFFICES ASSUME SessionInv, [Next]_vars PROVE SessionInv'
  OBVIOUS
<1>1. CASE UNCHANGED vars
  <2>1. UNCHANGED queueVars /\ UNCHANGED db
    BY <1>1 DEF vars, targetVars
  <2>2. UNCHANGED <<conn, sender, paused>> /\ handler' = handler /\ lease' = lease
    BY <1>1 DEF vars, linkVars
  <2>3. /\ QueueOK' /\ TargetOK' /\ LogOK' /\ AckedIsDurable' /\ Grown /\ Advanced
        /\ db'.Generation = db.Generation /\ db'.Received = db.Received
    BY <2>1, StillStep
  <2>4. HandlersOK' /\ HoldersOK' /\ NewestOK'
    BY <2>2, <2>3, HandlersSame
  <2>5. Drained => Drained'
    BY <2>1 DEF Drained, queueVars
  <2>6. WireOK'
    BY <2>2, <2>3, <2>5, WireKept, ZenonT(40)
  <2> QED
    BY <2>3, <2>4, <2>6 DEF SessionInv
<1>2. CASE Capture
  BY <1>2, CaptureKeeps
<1>3. CASE Send
  BY ZenonT(40), <1>3, HandleAckKeeps, HandlePullKeeps, SendEventKeeps, HandleReconcileKeeps,
     HandleResumeKeeps, HandleRepairKeeps DEF Send
<1>4. CASE Fail
  BY <1>4, BreakKeeps, CollectorCrashKeeps, LeaseLostKeeps, ServerCrashKeeps, ZenonT(40) DEF Fail
<1>5. CASE \E s \in Servers : Connect(s) \/ Accept(s) \/ Serve(s)
  BY ZenonT(40), <1>5, ConnectKeeps, AcceptKeeps, AcquireLeaseKeeps, ResumeKeeps, HandleIdleKeeps,
     HandleDigestsKeeps, HandleResumedKeeps, HandleFailureKeeps, HandleEventKeeps,
     StoreEventKeeps, StoreFailsKeeps, FinishKeeps DEF Serve
<1> QED
  BY <1>1, <1>2, <1>3, <1>4, <1>5, ZenonT(40) DEF Next

\* The invariant is inductive.
THEOREM SessionInductive == Spec => []SessionInv
BY InitHolds, NextKeeps, PTL DEF Spec

\* The queue lets go of a message only after the target has committed it
\* (AckedIsDurable: grpc.go acknowledges what Connect stored), for any number of
\* server processes and any order of lost streams, leases and processes.
THEOREM AcknowledgedIsStored == Spec => []AckedIsDurable
<1>1. SessionInv => AckedIsDurable
  BY DEF SessionInv
<1> QED
  BY <1>1, SessionInductive, PTL

\* What the target stored under the queue's generation is what the queue holds
\* under the same numbers (SameLog): store skips, replaces and reorders nothing.
THEOREM OneLog == Spec => []SameLog
<1>1. SessionInv => SameLog
  BY DEF SessionInv, LogOK, Copied, SameLog
<1> QED
  BY <1>1, SessionInductive, PTL

\* Under the lease the event in hand is the target's next one (LeaseSerializes):
\* the gap, generation, barrier and phase errors of store are never met by the
\* lease's holder, and its transaction error only by the end of an empty one.
THEOREM LeaseOrdersStores == Spec => []LeaseSerializes
<1>1. ASSUME SessionInv, NEW s \in Servers, handler[s].pc = "store", lease = s
      PROVE  Welcome(Incoming(s))
  <2>1. PICK m : m = Incoming(s)
    OBVIOUS
  <2>2. Expected(m)
    BY <1>1, <2>1, HolderExpected, ZenonT(40)
  <2>3. Welcome(m)
    BY <1>1, <2>2, ExpectedWelcome, ZenonT(40) DEF SessionInv
  <2> QED
    BY <2>1, <2>3
<1>2. SessionInv => LeaseSerializes
  BY <1>1 DEF LeaseSerializes, Welcome
<1> QED
  BY <1>2, SessionInductive, PTL

\* A repair request finds capture stopped and nothing undelivered
\* (RepairDrained): runReconcile asks for it only after a scan of a drained queue.
THEOREM RepairFindsDrained == Spec => []RepairDrained
<1>1. ASSUME SessionInv PROVE RepairDrained
  <2>1. ASSUME conn.s2c # <<>>, Head(conn.s2c).t = "repair"
        PROVE  paused /\ Drained
    <3>1. conn.up
      BY <1>1, <2>1 DEF SessionInv, WireOK
    <3> QED
      BY <1>1, <2>1, <3>1, Requested, ZenonT(40)
  <2> QED
    BY <2>1 DEF RepairDrained, Drained
<1> QED
  BY <1>1, SessionInductive, PTL
=============================================================================

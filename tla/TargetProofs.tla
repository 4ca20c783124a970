---------------------------- MODULE TargetProofs ----------------------------
(***************************************************************************)
(* What the target promises, for any messages, tables, files, schema       *)
(* versions and generations.                                               *)
(*                                                                         *)
(* store works on the metadata of one generation, so the invariants are    *)
(* stated of a metadata record d: they hold of the record a generation     *)
(* starts with (Fresh) and After preserves them when the message is        *)
(* admissible.  What a rollback leaves behind, the object store and the    *)
(* column caches, is related to that record afterwards.                    *)
(***************************************************************************)
EXTENDS Target, SequenceTheorems, WellFoundedInduction, TLAPS

\* The default prover, for the leaves that name none.
USE Zenon

-----------------------------------------------------------------------------
(* Greatest elements.                                                      *)

\* The natural order is well founded.
LEMMA NatWellFounded ==
  IsWellFoundedOn({ss \in Nat \X Nat : ss[1] < ss[2]}, Nat)
  BY NatLessThanWellFounded, Zenon DEF OpToRel

\* A set of naturals that is not empty has a least element.
LEMMA LeastElement ==
  ASSUME NEW T, T \subseteq Nat, T # {}
  PROVE  \E x \in T : \A y \in T : x <= y
<1> DEFINE R == {ss \in Nat \X Nat : ss[1] < ss[2]}
<1>1. PICK x \in T : \A y \in T : ~ (<<y, x>> \in R)
  <2> HIDE DEF R
  <2> QED BY NatWellFounded, WFMin, Zenon DEF R
<1>2. ASSUME NEW y \in T PROVE x <= y
  <2>1. x \in Nat /\ y \in Nat
    OBVIOUS
  <2>2. ~ (<<y, x>> \in R)
    BY <1>1
  <2>3. ~ (y < x)
    BY <2>1, <2>2
  <2> QED BY <2>1, <2>3, SMT
<1> QED BY <1>2

\* A bounded set of naturals has a greatest element, which Max chooses.
LEMMA MaxOf ==
  ASSUME NEW n \in Nat, NEW S, S \subseteq 0..n, S # {}
  PROVE  Max(S) \in S /\ \A y \in S : y <= Max(S)
<1> DEFINE T == {n - y : y \in S}
<1>1. T \subseteq Nat /\ T # {}
  <2>1. ASSUME NEW y \in S PROVE n - y \in Nat
    <3>1. y \in 0..n
      OBVIOUS
    <3> QED BY <3>1, SMT
  <2> QED BY <2>1, Zenon
<1>2. PICK x \in T : \A y \in T : x <= y
  <2> HIDE DEF T
  <2> QED BY <1>1, LeastElement, Zenon
<1>3. PICK z \in S : x = n - z
  OBVIOUS
<1>4. ASSUME NEW y \in S PROVE z >= y
  <2>1. y \in 0..n /\ z \in 0..n /\ n - y \in T
    OBVIOUS
  <2>2. n - z <= n - y
    BY <1>2, <1>3, <2>1
  <2> HIDE DEF T
  <2> QED BY <2>1, <2>2, SMT
<1>5. Max(S) \in S /\ \A y \in S : Max(S) >= y
  BY <1>4, Zenon DEF Max
<1>6. ASSUME NEW y \in S PROVE y <= Max(S)
  <2>1. PICK m : m = Max(S)
    BY Zenon
  <2>2. y \in 0..n /\ m \in 0..n /\ m >= y
    BY <1>5, <2>1, Zenon
  <2>3. y <= m
    BY <2>2
  <2> QED BY <2>1, <2>3, Zenon
<1> QED BY <1>5, <1>6

\* A greatest element is the one Max chooses.
LEMMA MaxIs ==
  ASSUME NEW S, S \subseteq Nat, NEW x \in S, \A y \in S : y <= x
  PROVE  Max(S) = x
<1>1. ASSUME NEW y \in S PROVE x >= y
  <2>1. x \in Nat /\ y \in Nat /\ y <= x
    OBVIOUS
  <2> QED BY <2>1
<1>2. Max(S) \in S /\ \A y \in S : Max(S) >= y
  BY <1>1, Zenon DEF Max
<1>3. PICK m : m = Max(S)
  BY Zenon
<1>4. m \in Nat /\ x \in Nat /\ m >= x /\ m <= x
  BY <1>2, <1>3, Zenon
<1>5. m = x
  BY <1>4, SMT
<1> QED BY <1>3, <1>5, Zenon

Fields == {"Generation", "Received", "Applied", "Phase", "OpenTransaction",
           "SchemaVersion", "Pending", "Authorized", "inbox", "snapshot_rows",
           "scope", "message_hash", "schema_stage"}

\* The schema refreshes among the first n messages of the log h.
EndsOf(h, n) == {k \in 1..n : h[k].kind = "schema_end"}
ActiveOf(h, n) == IF EndsOf(h, n) = {} THEN h[1].version ELSE h[Max(EndsOf(h, n))].version
RefreshOf(h, n) == {k \in 1..n : /\ h[k].kind = "schema"
                                 /\ \E e \in 1..k : h[e].kind = "snapshot_end"}
Settled(h, n) == \A k \in RefreshOf(h, n) : \E e \in EndsOf(h, n) : k < e

-----------------------------------------------------------------------------
(* The invariant of a metadata record.                                     *)

Shape(d) == /\ Fields \subseteq DOMAIN d
            /\ d.Received \in Nat /\ d.Applied \in Nat
            /\ d.Phase \in {None, "snapshot", "stream"}
            /\ DOMAIN d.message_hash = 1..d.Received

\* The log begins with its only snapshot_begin, and streams after snapshot_end.
Phased(d) == LET h == d.message_hash
             IN  /\ d.Received = 0 <=> d.Phase = None
                 /\ \A n \in 1..d.Received : h[n].kind = "snapshot_begin" <=> n = 1
                 /\ d.Phase = "stream" <=> \E e \in 1..d.Received : h[e].kind = "snapshot_end"

\* At most one batch is open, it is staged, and nothing else is.
Batched(d) ==
  /\ d.Applied <= d.Received
  /\ \A n \in DOMAIN d.inbox : d.inbox[n].tx = d.OpenTransaction
  /\ d.OpenTransaction = None => DOMAIN d.inbox = {}
  /\ d.Pending # None => d.OpenTransaction = None
  /\ d.Phase # "stream" => d.OpenTransaction = None /\ d.Pending = None /\ d.Applied = 0
  /\ d.Phase = "stream" =>
       DOMAIN d.inbox = {n \in d.Applied + 1 .. d.Received : d.message_hash[n].kind \in Opens}
  /\ d.Phase # "stream" =>
       DOMAIN d.snapshot_rows = {n \in 1..d.Received : d.message_hash[n].kind = "snapshot_rows"}

\* The saved version is the one the log says, and no refresh is forgotten.
Versioned(d) == LET h == d.message_hash
                IN  /\ d.Received > 0 => d.SchemaVersion = ActiveOf(h, d.Received)
                    /\ d.Pending = None => Settled(h, d.Received)
                    /\ \A n \in 1..d.Received : h[n].kind = "transaction_rows" =>
                         h[n].version = ActiveOf(h, n) /\ Settled(h, n)

MetaInv(d) == Shape(d) /\ Phased(d) /\ Batched(d) /\ Versioned(d)

-----------------------------------------------------------------------------
(* The log grows at its end.                                               *)

\* The first n messages decide what is known of them.
LEMMA LogPrefix ==
  ASSUME NEW h, NEW g, NEW n \in Nat \ {0}, \A k \in 1..n : g[k] = h[k]
  PROVE  /\ EndsOf(g, n) = EndsOf(h, n)
         /\ RefreshOf(g, n) = RefreshOf(h, n)
         /\ ActiveOf(g, n) = ActiveOf(h, n)
         /\ Settled(g, n) <=> Settled(h, n)
<1>1. EndsOf(g, n) = EndsOf(h, n)
  BY DEF EndsOf
<1>2. RefreshOf(g, n) = RefreshOf(h, n)
  BY SMT DEF RefreshOf
<1>3. Settled(g, n) <=> Settled(h, n)
  BY <1>1, <1>2, Zenon DEF Settled
<1>4. EndsOf(h, n) # {} => Max(EndsOf(h, n)) \in 1..n
  <2>1. EndsOf(h, n) \subseteq 0..n /\ EndsOf(h, n) \subseteq 1..n
    BY SMT DEF EndsOf
  <2> QED BY <2>1, MaxOf
<1>5. ActiveOf(g, n) = ActiveOf(h, n)
  BY <1>1, <1>4, SMT DEF ActiveOf
<1> QED BY <1>1, <1>2, <1>3, <1>5

-----------------------------------------------------------------------------
(* What After does to the record, field by field.                          *)

\* The phase, the cursors and the version of the record after a message.
LEMMA AfterState ==
  ASSUME NEW d, NEW m, Fields \subseteq DOMAIN d
  PROVE  /\ Fields \subseteq DOMAIN After(d, m)
         /\ After(d, m).Received = m.seq
         /\ After(d, m).Applied = IF m.body.kind \in Applies THEN m.seq ELSE d.Applied
         /\ After(d, m).Phase = PhaseAfter(d, m.body)
         /\ After(d, m).OpenTransaction = OpenAfter(d, m.body)
         /\ After(d, m).SchemaVersion = IF m.body.kind = "schema_end" THEN d.Pending
                                        ELSE d.SchemaVersion
         /\ After(d, m).Pending = PendingAfter(d, m.body)
         /\ After(d, m).Generation = d.Generation
<1>1. Fields \subseteq DOMAIN After(d, m)
  BY Zenon DEF After
<1>2. After(d, m).Received = m.seq
  BY DEF After, Fields
<1>3. After(d, m).Applied = IF m.body.kind \in Applies THEN m.seq ELSE d.Applied
  BY DEF After, Fields
<1>4. After(d, m).Phase = PhaseAfter(d, m.body)
  BY DEF After, Fields
<1>5. After(d, m).OpenTransaction = OpenAfter(d, m.body)
  BY DEF After, Fields
<1>6. After(d, m).SchemaVersion = IF m.body.kind = "schema_end" THEN d.Pending
                                  ELSE d.SchemaVersion
  BY DEF After, Fields
<1>7. After(d, m).Pending = PendingAfter(d, m.body)
  BY DEF After, Fields
<1>8. After(d, m).Generation = d.Generation
  BY DEF After, Fields
<1> QED BY <1>1, <1>2, <1>3, <1>4, <1>5, <1>6, <1>7, <1>8

\* The staging tables and the message log after a message.
LEMMA AfterStaging ==
  ASSUME NEW d, NEW m, Fields \subseteq DOMAIN d
  PROVE  /\ After(d, m).inbox = InboxAfter(d, m)
         /\ After(d, m).snapshot_rows = SnapshotAfter(d, m)
         /\ DOMAIN After(d, m).message_hash = DOMAIN d.message_hash \cup {m.seq}
         /\ After(d, m).message_hash[m.seq] = m.body
         /\ \A n \in DOMAIN d.message_hash : n # m.seq =>
              After(d, m).message_hash[n] = d.message_hash[n]
<1>1. After(d, m).inbox = InboxAfter(d, m)
  BY DEF After, Fields
<1>2. After(d, m).snapshot_rows = SnapshotAfter(d, m)
  BY DEF After, Fields
<1>3. After(d, m).message_hash = [n \in DOMAIN d.message_hash \cup {m.seq} |->
                                    IF n = m.seq THEN m.body ELSE d.message_hash[n]]
  BY DEF After, Fields
<1> QED BY <1>1, <1>2, <1>3

-----------------------------------------------------------------------------
(* The invariant of the record.                                            *)

\* Nothing received, staged or open.
Empty(d) == /\ d.Received = 0 /\ d.Applied = 0 /\ d.Phase = None
            /\ d.OpenTransaction = None /\ d.Pending = None
            /\ d.inbox = NoRow /\ d.snapshot_rows = NoRow /\ d.message_hash = NoRow
            /\ Fields \subseteq DOMAIN d

\* A generation starts with an empty record ...
LEMMA FreshEmpty ==
  ASSUME NEW gen, NEW version, NEW authorized
  PROVE  Empty(Fresh(gen, version, authorized))
  BY DEF Fresh, Empty, Fields

\* ... of which the invariant holds.
LEMMA EmptyInv ==
  ASSUME NEW d, Empty(d)
  PROVE  MetaInv(d)
<1>1. DOMAIN NoRow = {}
  BY DEF NoRow
<1>2. Shape(d)
  BY <1>1, SMT DEF Empty, Shape
<1>3. Phased(d)
  BY TargetAssumption, SMT DEF Empty, Phased
<1>4. Batched(d)
  BY <1>1, TargetAssumption, SMT DEF Empty, Batched
<1>5. Versioned(d)
  BY SMT DEF Empty, Versioned, Settled, RefreshOf
<1> QED BY <1>2, <1>3, <1>4, <1>5 DEF MetaInv

\* An admissible message of the collector keeps the invariant.
LEMMA AfterInv ==
  ASSUME NEW d, NEW m, MetaInv(d), Contiguous(d, m), Barrier(d, m.body),
         Batch(d, m.body), InPhase(d, m.body), Offered(m)
  PROVE  MetaInv(After(d, m))
<1> DEFINE e == After(d, m)
           b == m.body
           R == d.Received
           h == d.message_hash
           g == e.message_hash
<1>1. /\ R \in Nat /\ d.Applied \in Nat /\ d.Applied <= R /\ m.seq = R + 1
      /\ d.Phase \in {None, "snapshot", "stream"} /\ Fields \subseteq DOMAIN d
  BY DEF MetaInv, Shape, Batched, Contiguous
<1>2. /\ e.Received = R + 1
      /\ e.Applied = IF b.kind \in Applies THEN R + 1 ELSE d.Applied
      /\ e.Phase = PhaseAfter(d, b)
      /\ e.OpenTransaction = OpenAfter(d, b)
      /\ e.SchemaVersion = IF b.kind = "schema_end" THEN d.Pending ELSE d.SchemaVersion
      /\ e.Pending = PendingAfter(d, b)
      /\ Fields \subseteq DOMAIN e
  BY <1>1, AfterState
<1>3. /\ e.inbox = InboxAfter(d, m)
      /\ e.snapshot_rows = SnapshotAfter(d, m)
      /\ DOMAIN g = DOMAIN h \cup {m.seq}
      /\ g[m.seq] = b
      /\ \A n \in DOMAIN h : n # m.seq => g[n] = h[n]
  BY <1>1, AfterStaging
<1>4. DOMAIN h = 1..R
  BY DEF MetaInv, Shape
<1> HIDE DEF e
<1>5. DOMAIN g = 1..(R + 1) /\ g[R + 1] = b /\ \A n \in 1..R : g[n] = h[n]
  BY <1>1, <1>3, <1>4, SMT
<1> HIDE DEF b, R, h, g
<1>6. Shape(e)
  BY <1>1, <1>2, <1>5, SMT DEF Shape, PhaseAfter, g
<1>7. Phased(d) /\ Batched(d) /\ Versioned(d)
  BY DEF MetaInv
<1>8. R = 0 <=> b.kind = "snapshot_begin"
  BY <1>1, SMT DEF Offered, b
<1>9. Phased(e)
  <2>1. e.Received # 0 /\ e.Phase # None
    BY <1>1, <1>2, <1>7, <1>8, TargetAssumption, SMT DEF Phased, PhaseAfter, R
  <2>2. \A n \in 1..(R + 1) : g[n].kind = "snapshot_begin" <=> n = 1
    BY <1>1, <1>5, <1>7, <1>8, SMT DEF Phased, R, h
  <2>3. e.Phase = "stream" <=> \E k \in 1..(R + 1) : g[k].kind = "snapshot_end"
    <3>1. d.Phase = "stream" <=> \E k \in 1..R : g[k].kind = "snapshot_end"
      BY <1>1, <1>5, <1>7 DEF Phased, R, h
    <3>2. (\E k \in 1..(R + 1) : g[k].kind = "snapshot_end") <=>
             b.kind = "snapshot_end" \/ \E k \in 1..R : g[k].kind = "snapshot_end"
      BY <1>1, <1>5, SMT
    <3>3. e.Phase = "stream" <=> b.kind = "snapshot_end" \/ d.Phase = "stream"
      BY <1>1, <1>2, <1>7, <1>8, TargetAssumption DEF Phased, PhaseAfter, R
    <3> QED BY <3>1, <3>2, <3>3
  <2> QED BY <1>2, <2>1, <2>2, <2>3 DEF Phased, g
<1>10. Batched(e)
  <2>1. /\ \A n \in DOMAIN d.inbox : d.inbox[n].tx = d.OpenTransaction
        /\ d.OpenTransaction = None => DOMAIN d.inbox = {}
        /\ d.Pending # None => d.OpenTransaction = None
        /\ d.Phase # "stream" => d.OpenTransaction = None /\ d.Pending = None /\ d.Applied = 0
        /\ d.Phase = "stream" => DOMAIN d.inbox = {n \in d.Applied + 1 .. R : h[n].kind \in Opens}
        /\ d.Phase # "stream" => DOMAIN d.snapshot_rows = {n \in 1..R : h[n].kind = "snapshot_rows"}
    BY <1>7 DEF Batched, R, h
  <2>2. b.kind \in Opens => d.Phase = "stream"
    BY DEF InPhase, Opens, b
  <2>3. b.kind \in Closes => d.OpenTransaction = b.tx
    BY DEF Batch, b
  <2>4. b.kind = "snapshot_begin" => d.Phase = None
    BY <1>7, <1>8 DEF Phased, R
  <2>5. ASSUME b.kind \in Opens
        PROVE  /\ DOMAIN e.inbox = DOMAIN d.inbox \cup {R + 1}
               /\ \A n \in DOMAIN e.inbox : e.inbox[n].tx = b.tx
    <3>1. e.inbox = [n \in DOMAIN d.inbox \cup {R + 1} |-> IF n = R + 1 THEN b ELSE d.inbox[n]]
      <4>1. b.kind \notin {"transaction_end", "file_end"}
        BY <2>5 DEF Opens
      <4>2. InboxAfter(d, m) =
              [n \in DOMAIN d.inbox \cup {m.seq} |-> IF n = m.seq THEN b ELSE d.inbox[n]]
        BY <2>5, <4>1, Zenon DEF InboxAfter, b
      <4> QED BY <1>1, <1>3, <4>2
    <3>2. d.OpenTransaction \in {None, b.tx}
      BY <2>5 DEF Batch, b
    <3> QED BY <2>1, <3>1, <3>2
  <2>6. ASSUME b.kind \in Closes PROVE DOMAIN e.inbox = {}
    <3>1. CASE b.kind = "transaction_end"
      <4>1. e.inbox = [n \in DOMAIN d.inbox \ DOMAIN OfTransaction(d, b.tx) |-> d.inbox[n]]
        BY <1>3, <3>1 DEF InboxAfter, Opens, b
      <4>2. DOMAIN OfTransaction(d, b.tx) = {n \in DOMAIN d.inbox : d.inbox[n].tx = b.tx}
        BY DEF OfTransaction
      <4> QED BY <2>1, <2>3, <2>6, <4>1, <4>2
    <3>2. CASE b.kind = "file_end"
      BY <1>3, <3>2 DEF InboxAfter, Opens, NoRow, b
    <3> QED BY <2>6, <3>1, <3>2 DEF Closes
  <2>7. ASSUME b.kind \notin Opens \cup Closes PROVE e.inbox = d.inbox
    BY <1>3, <2>7 DEF InboxAfter, Closes, b
  <2>8. e.Applied <= e.Received
    BY <1>1, <1>2, SMT
  <2>9. \A n \in DOMAIN e.inbox : e.inbox[n].tx = e.OpenTransaction
    BY <1>2, <2>1, <2>5, <2>6, <2>7 DEF OpenAfter
  <2>10. e.OpenTransaction = None => DOMAIN e.inbox = {}
    BY <1>2, <2>1, <2>5, <2>6, <2>7 DEF OpenAfter, Batch, b
  <2>11. e.Pending # None => e.OpenTransaction = None
    <3>1. CASE b.kind = "schema"
      BY <1>2, <2>1, <3>1 DEF OpenAfter, PendingAfter, Opens, Closes, Batch, b
    <3>2. CASE b.kind = "schema_end"
      BY <1>2, <3>2 DEF PendingAfter
    <3>3. CASE b.kind \notin {"schema", "schema_end"}
      BY <1>2, <3>3 DEF PendingAfter, Barrier, b
    <3> QED BY <3>1, <3>2, <3>3
  <2>12. e.Phase # "stream" => e.OpenTransaction = None /\ e.Pending = None /\ e.Applied = 0
    <3> SUFFICES ASSUME e.Phase # "stream"
                 PROVE  e.OpenTransaction = None /\ e.Pending = None /\ e.Applied = 0
      OBVIOUS
    <3>1. d.Phase # "stream" /\ b.kind # "snapshot_end"
      BY <1>2, <2>4, TargetAssumption DEF PhaseAfter
    <3>2. b.kind \in {"snapshot_begin", "schema", "snapshot_rows"}
      BY <3>1 DEF InPhase, b
    <3>3. e.OpenTransaction = None
      BY <1>2, <2>1, <3>1, <3>2 DEF OpenAfter, Opens, Closes
    <3>4. e.Pending = None
      BY <1>2, <2>1, <3>1, <3>2 DEF PendingAfter
    <3>5. e.Applied = 0
      BY <1>2, <2>1, <3>1, <3>2 DEF Applies
    <3> QED BY <3>3, <3>4, <3>5
  <2>13. e.Phase = "stream" =>
           DOMAIN e.inbox = {n \in e.Applied + 1 .. e.Received : g[n].kind \in Opens}
    <3> SUFFICES ASSUME e.Phase = "stream"
                 PROVE  DOMAIN e.inbox = {n \in e.Applied + 1 .. R + 1 : g[n].kind \in Opens}
      BY <1>2
    <3>1. CASE b.kind \in Applies
      <4>1. {n \in e.Applied + 1 .. R + 1 : g[n].kind \in Opens} = {}
        BY <1>1, <1>2, <3>1, SMT
      <4>2. CASE b.kind \in Closes
        BY <2>6, <4>1, <4>2
      <4>3. CASE b.kind \notin Closes
        <5>1. d.OpenTransaction = None
          <6>1. CASE b.kind = "snapshot_end"
            BY <2>1, <6>1 DEF InPhase, b
          <6>2. CASE b.kind = "schema_end"
            BY <2>1, <6>2 DEF Barrier, b
          <6>3. CASE b.kind = "file_delete"
            BY <6>3 DEF Batch, b
          <6> QED BY <3>1, <4>3, <6>1, <6>2, <6>3 DEF Applies, Closes
        <5>2. e.inbox = d.inbox
          BY <2>7, <3>1, <4>3 DEF Applies, Opens
        <5> QED BY <2>1, <4>1, <5>1, <5>2
      <4> QED BY <4>2, <4>3
    <3>2. CASE b.kind \notin Applies
      <4>1. d.Phase = "stream" /\ e.Applied = d.Applied
        BY <1>2, <3>2, TargetAssumption DEF PhaseAfter, Applies
      <4>2. {n \in d.Applied + 1 .. R + 1 : g[n].kind \in Opens} =
              {n \in d.Applied + 1 .. R : h[n].kind \in Opens}
              \cup {n \in {R + 1} : b.kind \in Opens}
        BY <1>1, <1>5, SMT
      <4>3. DOMAIN e.inbox = DOMAIN d.inbox \cup {n \in {R + 1} : b.kind \in Opens}
        BY <2>5, <2>7, <3>2 DEF Applies, Closes
      <4> QED BY <2>1, <4>1, <4>2, <4>3
    <3> QED BY <3>1, <3>2
  <2>14. e.Phase # "stream" =>
           DOMAIN e.snapshot_rows = {n \in 1..e.Received : g[n].kind = "snapshot_rows"}
    <3> SUFFICES ASSUME e.Phase # "stream"
                 PROVE  DOMAIN e.snapshot_rows = {n \in 1..R + 1 : g[n].kind = "snapshot_rows"}
      BY <1>2
    <3>1. d.Phase # "stream" /\ b.kind # "snapshot_end"
      BY <1>2, <2>4, TargetAssumption DEF PhaseAfter
    <3>2. {n \in 1..R + 1 : g[n].kind = "snapshot_rows"} =
            {n \in 1..R : h[n].kind = "snapshot_rows"}
            \cup {n \in {R + 1} : b.kind = "snapshot_rows"}
      BY <1>1, <1>5, SMT
    <3>3. CASE b.kind = "snapshot_begin"
      <4>1. {n \in 1..R : h[n].kind = "snapshot_rows"} = {}
        BY <1>8, <3>3, SMT
      <4>2. DOMAIN e.snapshot_rows = {}
        BY <1>3, <3>3 DEF SnapshotAfter, NoRow, b
      <4> QED BY <3>2, <3>3, <4>1, <4>2
    <3>4. CASE b.kind = "snapshot_rows"
      <4>1. DOMAIN e.snapshot_rows = DOMAIN d.snapshot_rows \cup {R + 1}
        BY <1>1, <1>3, <3>4 DEF SnapshotAfter, b
      <4> QED BY <2>1, <3>1, <3>2, <3>4, <4>1
    <3>5. CASE b.kind \notin {"snapshot_begin", "snapshot_rows"}
      <4>1. e.snapshot_rows = d.snapshot_rows
        BY <1>3, <3>1, <3>5 DEF SnapshotAfter, b
      <4> QED BY <2>1, <3>1, <3>2, <3>5, <4>1
    <3> QED BY <3>3, <3>4, <3>5
  <2> QED BY <2>8, <2>9, <2>10, <2>11, <2>12, <2>13, <2>14 DEF Batched, g
<1>11. Versioned(e)
  <2>1. /\ R > 0 => d.SchemaVersion = ActiveOf(h, R)
        /\ d.Pending = None => Settled(h, R)
        /\ \A n \in 1..R : h[n].kind = "transaction_rows" =>
             h[n].version = ActiveOf(h, n) /\ Settled(h, n)
    BY <1>7 DEF Versioned, R, h
  <2>2. R > 0 => /\ EndsOf(g, R) = EndsOf(h, R) /\ RefreshOf(g, R) = RefreshOf(h, R)
                 /\ ActiveOf(g, R) = ActiveOf(h, R)
    BY <1>1, <1>5, LogPrefix, SMT
  <2>3. EndsOf(g, R + 1) = EndsOf(g, R) \cup {n \in {R + 1} : b.kind = "schema_end"}
    BY <1>1, <1>5, SMT DEF EndsOf
  <2>4. RefreshOf(g, R + 1) =
          RefreshOf(g, R) \cup {n \in {R + 1} : b.kind = "schema" /\ d.Phase = "stream"}
    <3>1. d.Phase = "stream" <=> \E k \in 1..R : g[k].kind = "snapshot_end"
      BY <1>1, <1>5, <1>7 DEF Phased, R, h
    <3>2. b.kind = "schema" => ((\E k \in 1..(R + 1) : g[k].kind = "snapshot_end") <=>
                                  \E k \in 1..R : g[k].kind = "snapshot_end")
      BY <1>1, <1>5, SMT
    <3> QED BY <1>1, <1>5, <3>1, <3>2, SMT DEF RefreshOf
  <2>5. e.SchemaVersion = ActiveOf(g, R + 1)
    <3>1. CASE b.kind = "schema_end"
      <4>1. EndsOf(g, R + 1) \subseteq Nat /\ R + 1 \in EndsOf(g, R + 1)
            /\ \A k \in EndsOf(g, R + 1) : k <= R + 1
        BY <1>1, <1>5, <3>1, SMT DEF EndsOf
      <4>2. Max(EndsOf(g, R + 1)) = R + 1
        BY <4>1, MaxIs
      <4>3. ActiveOf(g, R + 1) = b.version
        BY <1>5, <4>1, <4>2 DEF ActiveOf
      <4> QED BY <1>2, <3>1, <4>3 DEF Barrier, b
    <3>2. CASE b.kind # "schema_end" /\ R = 0
      <4>1. EndsOf(g, R + 1) = {} /\ g[1] = b
        BY <1>5, <3>2, SMT DEF EndsOf
      <4>2. b.version = d.SchemaVersion
        BY <1>8, <3>2 DEF Barrier, b
      <4> QED BY <1>2, <3>2, <4>1, <4>2 DEF ActiveOf
    <3>3. CASE b.kind # "schema_end" /\ R # 0
      <4>1. R > 0 /\ EndsOf(g, R + 1) = EndsOf(g, R)
        <5>1. R > 0
          BY <1>1, <3>3, SMT
        <5> QED BY <2>3, <3>3, <5>1, Zenon
      <4>2. ActiveOf(g, R + 1) = ActiveOf(g, R)
        BY <4>1, Zenon DEF ActiveOf
      <4> QED BY <1>2, <2>1, <2>2, <3>3, <4>1, <4>2
    <3> QED BY <3>1, <3>2, <3>3
  <2>6. e.Pending = None => Settled(g, R + 1)
    <3> SUFFICES ASSUME e.Pending = None PROVE Settled(g, R + 1)
      OBVIOUS
    <3>1. CASE b.kind = "schema_end"
      <4>1. R + 1 \in EndsOf(g, R + 1)
        BY <2>3, <3>1
      <4>2. \A k \in RefreshOf(g, R + 1) : k < R + 1
        BY <1>1, <2>4, <3>1, SMT DEF RefreshOf
      <4> QED BY <4>1, <4>2 DEF Settled
    <3>2. CASE b.kind # "schema_end"
      <4>1. ~ (b.kind = "schema" /\ d.Phase = "stream") /\ d.Pending = None
        BY <1>2, <3>2 DEF PendingAfter, Barrier, b
      <4>2. EndsOf(g, R + 1) = EndsOf(g, R) /\ RefreshOf(g, R + 1) = RefreshOf(g, R)
        BY <2>3, <2>4, <3>2, <4>1, Zenon
      <4>3. Settled(g, R)
        <5>1. CASE R > 0
          BY <2>1, <2>2, <4>1, <5>1 DEF Settled
        <5>2. CASE R = 0
          BY <5>2, SMT DEF Settled, RefreshOf
        <5> QED BY <1>1, <5>1, <5>2, SMT
      <4> QED BY <4>2, <4>3, Zenon DEF Settled
    <3> QED BY <3>1, <3>2
  <2>7. ASSUME NEW n \in 1..(R + 1), g[n].kind = "transaction_rows"
        PROVE  g[n].version = ActiveOf(g, n) /\ Settled(g, n)
    <3>1. CASE n \in 1..R
      <4>1. n \in Nat \ {0} /\ \A k \in 1..n : g[k] = h[k]
        BY <1>1, <1>5, <3>1, SMT
      <4>2. ActiveOf(g, n) = ActiveOf(h, n) /\ (Settled(g, n) <=> Settled(h, n))
        BY <4>1, LogPrefix
      <4> QED BY <1>5, <2>1, <2>7, <3>1, <4>2
    <3>2. CASE n = R + 1
      <4>1. b.kind = "transaction_rows"
        BY <1>5, <2>7, <3>2
      <4>2. d.Pending = None /\ b.version = d.SchemaVersion
        BY <4>1 DEF Barrier, b
      <4>3. e.Pending = None /\ e.SchemaVersion = b.version
        BY <1>2, <4>1, <4>2 DEF PendingAfter
      <4> QED BY <1>5, <2>5, <2>6, <3>2, <4>3
    <3> QED BY <1>1, <3>1, <3>2, SMT
  <2> QED BY <1>2, <2>5, <2>6, <2>7 DEF Versioned, g
<1> QED BY <1>6, <1>9, <1>10, <1>11 DEF MetaInv, e

-----------------------------------------------------------------------------
(* Every step of the target.                                               *)

\* What a collector may send.
Messages == [gen : Nat, seq : Nat, body : Bodies]

\* A step is a message arriving, a process starting again, or nothing.
LEMMA StepCases ==
  ASSUME [Next]_targetVars
  PROVE  \/ UNCHANGED targetVars
         \/ \E p \in Servers : Restart(p)
         \/ \E m \in Messages : m.seq <= MaxSeq /\ Arrives(m)
<1>1. ASSUME NEW gen \in {db.Generation, db.Generation + 1} \cap 1..MaxGen,
             NEW seq \in 1..MaxSeq, NEW body \in Bodies
      PROVE  /\ [gen |-> gen, seq |-> seq, body |-> body] \in Messages
             /\ [gen |-> gen, seq |-> seq, body |-> body].seq <= MaxSeq
  BY TargetAssumption, SMT DEF Messages
<1> QED BY <1>1, Zenon DEF Next

\* The metadata row is untouched, or replaced by After of an admissible message.
LEMMA DbStep ==
  ASSUME MetaInv(db), [Next]_targetVars
  PROVE  \/ db' = db
         \/ \E m : /\ db' = After(Current(m), m) /\ MetaInv(Current(m))
                   /\ Admissible(m) /\ Offered(m)
<1> SUFFICES ASSUME db' # db
             PROVE  \E m : /\ db' = After(Current(m), m) /\ MetaInv(Current(m))
                           /\ Admissible(m) /\ Offered(m)
  OBVIOUS
<1>1. ~ UNCHANGED targetVars /\ \A p \in Servers : ~ Restart(p)
  BY DEF Restart, targetVars
<1>2. PICK m \in Messages : Arrives(m)
  BY <1>1, StepCases, Zenon
<1>3. ~ Duplicate(m) /\ \A p \in Servers : ~ RolledBack(p, m)
  BY DEF Duplicate, RolledBack
<1>4. PICK p \in Servers : Store(p, m)
  BY <1>2, <1>3 DEF Arrives
<1>5. MetaInv(Current(m))
  BY FreshEmpty, EmptyInv DEF Current
<1>6. Admissible(m) /\ db' = After(Current(m), m) /\ Offered(m)
  BY <1>2, <1>4 DEF Store, Commits, Arrives
<1> QED BY <1>5, <1>6

\* The metadata row satisfies its invariant in every reachable state.
THEOREM Metadata == Spec => []MetaInv(db)
<1>1. Init => MetaInv(db)
  <2>1. Init => Empty(db)
    BY SMT DEF Init, Fresh, Empty, Fields
  <2> QED BY <2>1, EmptyInv
<1>2. MetaInv(db) /\ [Next]_targetVars => MetaInv(db)'
  <2> SUFFICES ASSUME MetaInv(db), [Next]_targetVars PROVE MetaInv(db')
    OBVIOUS
  <2>1. CASE db' = db
    BY <2>1
  <2>2. ASSUME NEW m, db' = After(Current(m), m), MetaInv(Current(m)),
               Admissible(m), Offered(m)
        PROVE  MetaInv(db')
    <3>1. /\ Contiguous(Current(m), m) /\ Barrier(Current(m), m.body)
          /\ Batch(Current(m), m.body) /\ InPhase(Current(m), m.body)
      BY <2>2 DEF Admissible
    <3> QED BY <2>2, <3>1, AfterInv
  <2> QED BY <2>1, <2>2, DbStep
<1> QED BY <1>1, <1>2, PTL DEF Spec

\* What lies between applied_seq and received_seq is one unfinished batch, and
\* it is all staged (store, applyMessage).
THEOREM OpenBatchAlwaysStaged == Spec => []OpenBatchStaged
<1>1. MetaInv(db) => OpenBatchStaged
  BY DEF MetaInv, Batched, OpenBatchStaged
<1> QED BY <1>1, Metadata, PTL

\* Rows are received under the version they were captured with, and never
\* while a refresh is under way (the schema version barrier of store).
THEOREM BarrierAlwaysHolds == Spec => []BarrierHolds
<1>1. MetaInv(db) => BarrierHolds
  <2> SUFFICES ASSUME MetaInv(db), NEW n \in 1..db.Received,
                      db.message_hash[n].kind = "transaction_rows"
               PROVE  /\ db.message_hash[n].version = ActiveOf(db.message_hash, n)
                      /\ Settled(db.message_hash, n)
    BY Zenon DEF BarrierHolds, ActiveOf, Settled, EndsOf, RefreshOf
  <2> QED BY DEF MetaInv, Versioned
<1> QED BY <1>1, Metadata, PTL

\* The last acknowledged message is the one stored under its number (store).
THEOREM AckedIsAlwaysStored == Spec => []AckedIsStored
<1>1. Init => AckedIsStored
  BY DEF Init, AckedIsStored
<1>2. MetaInv(db) /\ AckedIsStored /\ [Next]_targetVars => AckedIsStored'
  <2> SUFFICES ASSUME MetaInv(db), AckedIsStored, [Next]_targetVars PROVE AckedIsStored'
    OBVIOUS
  <2>1. CASE db' = db /\ last' = last
    BY <2>1 DEF AckedIsStored
  <2>2. ASSUME NEW m \in Messages, Duplicate(m) PROVE AckedIsStored'
    <3>1. m.seq \in 1..db.Received /\ db.Received \in Nat
      BY <2>2 DEF Duplicate, MetaInv, Shape
    <3>2. m.seq <= db.Received
      BY <3>1, SMT
    <3> QED BY <2>2, <3>2 DEF Duplicate, AckedIsStored
  <2>3. ASSUME NEW m \in Messages, NEW p \in Servers, Store(p, m) PROVE AckedIsStored'
    <3>1. MetaInv(Current(m))
      BY FreshEmpty, EmptyInv DEF Current
    <3>2. Fields \subseteq DOMAIN Current(m)
      BY <3>1 DEF MetaInv, Shape
    <3>3. db'.Received = m.seq /\ db'.message_hash[m.seq] = m.body
      BY <2>3, <3>2, AfterState, AfterStaging, SMT DEF Store, Commits
    <3>4. m.seq <= db'.Received
      BY <3>3, SMT DEF Messages
    <3>5. last' = m \/ last' = None
      BY <2>3 DEF Store, Answered, Unanswered
    <3> QED BY <3>3, <3>4, <3>5 DEF AckedIsStored
  <2>4. ASSUME NEW m \in Messages, NEW p \in Servers, RolledBack(p, m)
        PROVE  AckedIsStored'
    BY <2>4 DEF RolledBack, AckedIsStored
  <2>5. ASSUME NEW p \in Servers, Restart(p) PROVE db' = db /\ last' = last
    BY <2>5 DEF Restart
  <2>6. UNCHANGED targetVars => db' = db /\ last' = last
    BY DEF targetVars
  <2> QED BY <2>1, <2>2, <2>3, <2>4, <2>5, <2>6, StepCases, Zenon DEF Arrives
<1> QED BY <1>1, <1>2, Metadata, PTL DEF Spec

-----------------------------------------------------------------------------
(* The object store.                                                       *)

\* The message to be redelivered is the next one of the current generation.
RetryIsNext == retry # None => /\ retry \in Messages
                               /\ retry.gen = db.Generation
                               /\ retry.seq = db.Received + 1

FilesInv == RetryIsNext /\ DOMAIN files = Paths /\ FilesMatchLog

\* Writing or deleting a file changes its path and no other.
LEMMA FileWritten ==
  ASSUME DOMAIN files = Paths, NEW b, NEW f \in Paths
  PROVE  /\ DOMAIN FilesAfter(b) = Paths
         /\ FilesAfter(b)[f] = IF Touches(b, f) THEN Leaves(b) ELSE files[f]
  BY DEF FilesAfter, Touches, Leaves

\* A write that is not committed may also have removed the file.
LEMMA FilePartlyWritten ==
  ASSUME DOMAIN files = Paths, NEW b, NEW F \in FilesPartly(b), NEW f \in Paths
  PROVE  /\ DOMAIN F = Paths
         /\ F[f] = files[f] \/ (Touches(b, f) /\ F[f] \in {Leaves(b), None})
<1>1. CASE F \in {files, FilesAfter(b)}
  BY <1>1, FileWritten
<1>2. CASE F = [files EXCEPT ![b.file.path] = None] /\ FilesAfter(b) # files
  BY <1>2 DEF FilesAfter, Touches
<1> QED BY <1>1, <1>2 DEF FilesPartly

\* A message already rolled back is the only one that can be stored next.
LEMMA SameMessage ==
  ASSUME RetryIsNext, NEW m \in Messages, Resent(m), retry # None,
         m.gen = db.Generation, m.seq = db.Received + 1
  PROVE  m = retry
  BY DEF RetryIsNext, Resent

\* A committed message leaves the object store as the log says.
LEMMA StoreFiles ==
  ASSUME MetaInv(db), FilesInv, NEW m \in Messages, NEW p \in Servers,
         Offered(m), Resent(m), Store(p, m)
  PROVE  FilesInv'
<1> DEFINE b == m.body
           R == db.Received
<1>1. /\ files' = FilesAfter(b) /\ retry' = None /\ db' = After(Current(m), m)
      /\ SwitchAllowed(m) /\ Contiguous(Current(m), m)
  BY DEF Store, Commits, Admissible
<1>2. MetaInv(Current(m))
  BY FreshEmpty, EmptyInv DEF Current
<1>3. Fields \subseteq DOMAIN Current(m)
  BY <1>2 DEF MetaInv, Shape
<1>4. /\ db'.Received = m.seq /\ db'.message_hash[m.seq] = b
      /\ \A n \in DOMAIN Current(m).message_hash : n # m.seq =>
           db'.message_hash[n] = Current(m).message_hash[n]
  BY <1>1, <1>3, AfterState, AfterStaging, SMT
<1>5. DOMAIN files' = Paths
  <2>1. CASE Paths = {}
    BY <1>1, <2>1 DEF FilesAfter, FilesInv
  <2>2. CASE Paths # {}
    BY <1>1, <2>2, FileWritten DEF FilesInv
  <2> QED BY <2>1, <2>2
<1>6. ASSUME NEW f \in Paths, Touched(f)' # {}
      PROVE  files'[f] = Leaves(db'.message_hash[Max(Touched(f)')])
  <2>1. Touched(f)' = {k \in 1..m.seq : Touches(db'.message_hash[k], f)}
    BY <1>4 DEF Touched
  <2>2. m.seq \in Nat
    BY DEF Messages
  <2>3. CASE Touches(b, f)
    <3>1. Touched(f)' \subseteq Nat /\ m.seq \in Touched(f)' /\ \A k \in Touched(f)' : k <= m.seq
      <4>1. m.seq \in 1..m.seq
        <5>1. PICK k \in 1..m.seq : TRUE
          BY <1>6, <2>1
        <5> QED BY <2>2, <5>1, SMT
      <4> QED BY <1>4, <2>1, <2>2, <2>3, <4>1, SMT
    <3>2. Max(Touched(f)') = m.seq
      BY <3>1, MaxIs
    <3>3. files'[f] = Leaves(b)
      BY <1>1, <2>3, FileWritten DEF FilesInv
    <3> QED BY <1>4, <3>2, <3>3
  <2>4. CASE ~ Touches(b, f)
    <3>1. m.gen = db.Generation
      <4> SUFFICES ASSUME m.gen # db.Generation PROVE FALSE
        OBVIOUS
      <4>1. m.seq = 1
        BY <1>1 DEF SwitchAllowed
      <4>2. PICK k \in 1..1 : Touches(db'.message_hash[k], f)
        BY <1>6, <2>1, <4>1
      <4>3. k = 1
        BY <4>2, SMT
      <4> QED BY <1>4, <2>4, <4>1, <4>2, <4>3
    <3>2. Current(m) = db /\ R \in Nat /\ m.seq = R + 1 /\ DOMAIN db.message_hash = 1..R
      BY <1>1, <3>1 DEF Current, Contiguous, MetaInv, Shape
    <3>3. \A k \in 1..R : db'.message_hash[k] = db.message_hash[k]
      BY <1>4, <3>2, SMT
    <3>4. Touched(f)' = Touched(f)
      BY <1>4, <2>1, <2>4, <3>2, <3>3, SMT DEF Touched
    <3>5. Touched(f) \subseteq 0..R /\ Touched(f) \subseteq 1..R /\ Touched(f) # {}
      BY <1>6, <3>2, <3>4, SMT DEF Touched
    <3>6. Max(Touched(f)) \in 1..R
      BY <3>2, <3>5, MaxOf
    <3>7. files'[f] = files[f]
      BY <1>1, <2>4, FileWritten DEF FilesInv
    <3>8. retry # None => ~ Touches(retry.body, f)
      BY <2>4, <3>1, <3>2, SameMessage DEF FilesInv
    <3>9. files[f] = Leaves(db.message_hash[Max(Touched(f))])
      BY <3>5, <3>8 DEF FilesInv, FilesMatchLog
    <3> QED BY <3>3, <3>4, <3>6, <3>7, <3>9
  <2> QED BY <2>3, <2>4
<1> QED BY <1>1, <1>5, <1>6 DEF FilesInv, RetryIsNext, FilesMatchLog

\* A message that is rolled back is the one to be redelivered, and it only
\* disturbs its own path.
LEMMA RolledBackFiles ==
  ASSUME MetaInv(db), FilesInv, NEW m \in Messages, NEW p \in Servers,
         Offered(m), Resent(m), RolledBack(p, m)
  PROVE  FilesInv'
<1> DEFINE b == m.body
<1>1. /\ files' \in FilesPartly(b) /\ retry' = m /\ db' = db
      /\ SwitchAllowed(m) /\ Contiguous(Current(m), m) /\ b.kind \in Applies
  BY DEF RolledBack, Admissible
<1>2. m.gen = db.Generation /\ m.seq = db.Received + 1
  BY <1>1 DEF SwitchAllowed, Applies, Contiguous, Current
<1>3. m # None
  BY TargetAssumption DEF Messages
<1>4. RetryIsNext'
  BY <1>1, <1>2 DEF RetryIsNext
<1>5. DOMAIN files' = Paths
  <2>1. DOMAIN FilesAfter(b) = Paths
    BY Zenon DEF FilesAfter, FilesInv
  <2>2. DOMAIN [files EXCEPT ![b.file.path] = None] = Paths
    BY DEF FilesInv
  <2> QED BY <1>1, <2>1, <2>2 DEF FilesPartly, FilesInv
<1>6. ASSUME NEW f \in Paths, Touched(f) # {}
      PROVE  \/ files'[f] = Leaves(db.message_hash[Max(Touched(f))])
             \/ Touches(b, f) /\ files'[f] \in {Leaves(b), None}
  <2>1. \/ files[f] = Leaves(db.message_hash[Max(Touched(f))])
        \/ retry # None /\ Touches(retry.body, f) /\ files[f] \in {Leaves(retry.body), None}
    BY <1>6 DEF FilesInv, FilesMatchLog
  <2>2. files'[f] = files[f] \/ (Touches(b, f) /\ files'[f] \in {Leaves(b), None})
    BY <1>1, FilePartlyWritten DEF FilesInv
  <2>3. retry # None => retry = m
    BY <1>2, SameMessage DEF FilesInv
  <2> QED BY <2>1, <2>2, <2>3
<1>7. \A f \in Paths : Touched(f)' = Touched(f)
  BY <1>1 DEF Touched
<1>8. FilesMatchLog'
  BY <1>1, <1>3, <1>6, <1>7 DEF FilesMatchLog
<1> QED BY <1>4, <1>5, <1>8 DEF FilesInv

\* The object store is written before Commit, and yet every path holds what
\* the log says of it, or what the message that is to come again says, or
\* nothing (applyFile, directoryStore.Put).
THEOREM FilesAlwaysMatchLog == Spec => []FilesMatchLog
<1>1. Init => FilesInv
  <2>1. Init => retry = None /\ DOMAIN files = Paths
    BY DEF Init
  <2>2. Init => \A f \in Paths : Touched(f) = {}
    <3>1. Init => db.Received = 0
      BY SMT DEF Init, Fresh
    <3> QED BY <3>1, SMT DEF Touched
  <2> QED BY <2>1, <2>2 DEF FilesInv, RetryIsNext, FilesMatchLog
<1>2. MetaInv(db) /\ FilesInv /\ [Next]_targetVars => FilesInv'
  <2> SUFFICES ASSUME MetaInv(db), FilesInv, [Next]_targetVars PROVE FilesInv'
    OBVIOUS
  <2>1. CASE db' = db /\ files' = files /\ retry' = retry
    BY <2>1 DEF FilesInv, RetryIsNext, FilesMatchLog, Touched
  <2>2. ASSUME NEW m \in Messages, Duplicate(m)
        PROVE  db' = db /\ files' = files /\ retry' = retry
    BY <2>2 DEF Duplicate
  <2>3. ASSUME NEW p \in Servers, Restart(p)
        PROVE  db' = db /\ files' = files /\ retry' = retry
    BY <2>3 DEF Restart
  <2>4. UNCHANGED targetVars => db' = db /\ files' = files /\ retry' = retry
    BY DEF targetVars
  <2>5. ASSUME NEW m \in Messages, Arrives(m) PROVE FilesInv'
    BY <2>1, <2>2, <2>5, StoreFiles, RolledBackFiles, Zenon DEF Arrives
  <2> QED BY <2>1, <2>3, <2>4, <2>5, StepCases, Zenon
<1>3. FilesInv => FilesMatchLog
  BY DEF FilesInv
<1> QED BY <1>1, <1>2, <1>3, Metadata, PTL DEF Spec

-----------------------------------------------------------------------------
(* The column caches.                                                      *)

\* What an informed process caches is the catalogue, which covers the version.
CacheInv ==
  /\ DOMAIN columns = Tables /\ DOMAIN types = Servers
  /\ \A p \in Servers : DOMAIN types[p] = Tables
  /\ informed \subseteq Servers
  /\ \A p \in informed, t \in Tables : types[p][t] \in {None, columns[t]}
  /\ db.Phase = "stream" /\ db.SchemaVersion # None =>
       \A t \in Tables : SchemaCols[db.SchemaVersion] \subseteq columns[t]

\* Applying rows loads columns into the cache of the process and keeps the rest.
LEMMA LoadedKeeps ==
  ASSUME CacheInv, NEW p \in Servers, NEW d, NEW b
  PROVE  /\ DOMAIN Loaded(p, d, b) = Servers
         /\ \A q \in Servers : DOMAIN Loaded(p, d, b)[q] = Tables
         /\ \A q \in Servers, t \in Tables :
              Loaded(p, d, b)[q][t] \in {types[q][t], columns[t]}
<1> DEFINE used == {RowsApplied(d, b)[i].table : i \in DOMAIN RowsApplied(d, b)}
<1>1. Loaded(p, d, b) =
        [types EXCEPT ![p] = [t \in Tables |-> IF t \in used THEN Known(p, t) ELSE @[t]]]
  BY Zenon DEF Loaded
<1> HIDE DEF used
<1>2. \A t \in Tables : Known(p, t) \in {types[p][t], columns[t]}
  BY DEF Known
<1> QED BY <1>1, <1>2, SMT DEF CacheInv

\* A step that changes neither the version nor the columns, and caches only
\* columns of the catalogue, keeps the invariant.
LEMMA CacheKept ==
  ASSUME CacheInv, columns' = columns, informed' = informed,
         db'.Phase = "stream" =>
           db.Phase = "stream" /\ db'.SchemaVersion = db.SchemaVersion,
         DOMAIN types' = Servers, \A q \in Servers : DOMAIN types'[q] = Tables,
         \A q \in Servers, t \in Tables : types'[q][t] \in {types[q][t], columns[t]}
  PROVE  CacheInv'
  BY SMT DEF CacheInv

\* The caches after a commit: loaded by the rows, or dropped once it is known.
LEMMA StoredCache ==
  ASSUME CacheInv, NEW m, NEW p \in Servers, Answered(p, m) \/ Unanswered(p, m),
         columns' = ColumnsAfter(m.body)
  PROVE  /\ DOMAIN types' = Servers /\ \A q \in Servers : DOMAIN types'[q] = Tables
         /\ informed' \subseteq Servers
         /\ \A q \in informed', t \in Tables : types'[q][t] \in {None, columns'[t]}
<1> DEFINE L == Loaded(p, Current(m), m.body)
           dropped == [types EXCEPT ![p] = [t \in Tables |-> None]]
<1>1. /\ DOMAIN L = Servers /\ \A q \in Servers : DOMAIN L[q] = Tables
      /\ \A q \in Servers, t \in Tables : L[q][t] \in {types[q][t], columns[t]}
  BY LoadedKeeps, SMT
<1>2. /\ DOMAIN dropped = Servers
      /\ \A q \in Servers : DOMAIN dropped[q] = Tables
      /\ \A t \in Tables : dropped[p][t] = None
      /\ \A q \in Servers : q # p => dropped[q] = types[q]
  <2>1. /\ DOMAIN dropped = Servers /\ dropped[p] = [t \in Tables |-> None]
        /\ \A q \in Servers : q # p => dropped[q] = types[q]
    BY DEF CacheInv
  <2> HIDE DEF dropped
  <2> QED BY <2>1 DEF CacheInv
<1>3. \/ types' = L /\ informed' = StillInformed(m.body)
      \/ types' = dropped /\ informed' = StillInformed(m.body) \cup {p}
  BY DEF Answered, Unanswered, TypesAfter
<1>4. /\ StillInformed(m.body) \subseteq Servers
      /\ \A q \in StillInformed(m.body), t \in Tables :
           types[q][t] \in {None, columns[t]} /\ columns' = columns
  BY DEF StillInformed, CacheInv
<1> HIDE DEF L, dropped
<1>5. CASE types' = L /\ informed' = StillInformed(m.body)
  BY <1>1, <1>4, <1>5, SMT
<1>6. CASE types' = dropped /\ informed' = StillInformed(m.body) \cup {p}
  BY <1>2, <1>4, <1>6, SMT
<1> QED BY <1>3, <1>5, <1>6

\* A committed message keeps the caches of the informed processes in step.
LEMMA StoreCache ==
  ASSUME MetaInv(db), CacheInv, NEW m \in Messages, NEW p \in Servers, Store(p, m)
  PROVE  CacheInv'
<1> DEFINE b == m.body
           d == Current(m)
<1>1. /\ db' = After(d, m) /\ columns' = ColumnsAfter(b)
      /\ Answered(p, m) \/ Unanswered(p, m)
      /\ Barrier(d, b) /\ InPhase(d, b)
  BY DEF Store, Commits, Admissible
<1>2. MetaInv(d)
  BY FreshEmpty, EmptyInv DEF Current
<1>3. /\ db'.Phase = PhaseAfter(d, b)
      /\ db'.SchemaVersion = IF b.kind = "schema_end" THEN d.Pending ELSE d.SchemaVersion
  <2>1. Fields \subseteq DOMAIN d
    BY <1>2 DEF MetaInv, Shape
  <2> QED BY <1>1, <2>1, AfterState
<1>4. DOMAIN columns' = Tables
  BY <1>1 DEF ColumnsAfter, CacheInv
<1>5. db'.Phase = "stream" /\ db'.SchemaVersion # None =>
        \A t \in Tables : SchemaCols[db'.SchemaVersion] \subseteq columns'[t]
  <2>1. CASE b.kind \in {"snapshot_end", "schema_end"}
    <3>1. db'.SchemaVersion = b.version
      BY <1>1, <1>3, <2>1 DEF Barrier
    <3>2. b.version # None => \A t \in Tables : SchemaCols[b.version] \subseteq columns'[t]
      BY <1>1, <2>1 DEF ColumnsAfter, Alters
    <3> QED BY <3>1, <3>2
  <2>2. CASE b.kind \notin {"snapshot_end", "schema_end"}
    <3>1. columns' = columns
      BY <1>1, <2>2 DEF ColumnsAfter, Alters
    <3>2. db'.Phase = "stream" => d.Phase = "stream" /\ db'.SchemaVersion = d.SchemaVersion
      BY <1>3, <2>2 DEF PhaseAfter
    <3>3. d.Phase = "stream" => d = db
      BY TargetAssumption DEF Current, Fresh
    <3> QED BY <3>1, <3>2, <3>3 DEF CacheInv
  <2> QED BY <2>1, <2>2
<1>6. /\ DOMAIN types' = Servers /\ \A q \in Servers : DOMAIN types'[q] = Tables
      /\ informed' \subseteq Servers
      /\ \A q \in informed', t \in Tables : types'[q][t] \in {None, columns'[t]}
  BY <1>1, StoredCache
<1> QED BY <1>4, <1>5, <1>6 DEF CacheInv

\* A process that has opened the target, or seen its own altering message
\* committed, since the tables were last altered knows columns that cover the
\* active version, so that a row captured under it can be applied (columnTypes,
\* invalidateTypes), for any number of processes and of lost commit answers.
THEOREM InformedCacheAlwaysCovers == Spec => []InformedCacheCovers
<1>1. Init => CacheInv
  BY TargetAssumption, SMT DEF Init, Fresh, CacheInv
<1>2. MetaInv(db) /\ CacheInv /\ [Next]_targetVars => CacheInv'
  <2> SUFFICES ASSUME MetaInv(db), CacheInv, [Next]_targetVars PROVE CacheInv'
    OBVIOUS
  <2>1. CASE db' = db /\ columns' = columns /\ types' = types /\ informed' = informed
    BY <2>1 DEF CacheInv
  <2>2. ASSUME NEW m \in Messages, Duplicate(m)
        PROVE  db' = db /\ columns' = columns /\ types' = types /\ informed' = informed
    BY <2>2 DEF Duplicate
  <2>3. ASSUME NEW m \in Messages, NEW p \in Servers, RolledBack(p, m) PROVE CacheInv'
    <3>1. /\ db' = db /\ columns' = columns /\ informed' = informed
          /\ types' = Loaded(p, Current(m), m.body)
      BY <2>3 DEF RolledBack
    <3> QED BY <3>1, LoadedKeeps, CacheKept, SMT
  <2>4. ASSUME NEW p \in Servers, Restart(p) PROVE CacheInv'
    <3>1. /\ db' = db /\ columns' = columns /\ informed' = informed \cup {p}
          /\ types' = [types EXCEPT ![p] = columns]
      BY <2>4 DEF Restart
    <3>2. /\ DOMAIN types' = Servers /\ types'[p] = columns
          /\ \A q \in Servers : q # p => types'[q] = types[q]
      BY <3>1 DEF CacheInv
    <3> QED BY <3>1, <3>2, SMT DEF CacheInv
  <2>5. UNCHANGED targetVars =>
          db' = db /\ columns' = columns /\ types' = types /\ informed' = informed
    BY DEF targetVars
  <2>6. ASSUME NEW m \in Messages, Arrives(m) PROVE CacheInv'
    BY <2>1, <2>2, <2>3, <2>6, StoreCache, Zenon DEF Arrives
  <2> QED BY <2>1, <2>4, <2>5, <2>6, StepCases, Zenon
<1>3. CacheInv => InformedCacheCovers
  BY DEF CacheInv, InformedCacheCovers, Known
<1> QED BY <1>1, <1>2, <1>3, Metadata, PTL DEF Spec

-----------------------------------------------------------------------------
(* Induction along an interval, and functions defined by it.               *)

\* A set that has a and the successor of each of its members below b has all
\* numbers from a to b.
LEMMA UpTo ==
  ASSUME NEW a \in Nat, NEW b \in Nat, NEW P, a \in P,
         \A n \in a..b : n < b /\ n \in P => n + 1 \in P
  PROVE  \A n \in a..b : n \in P
<1> DEFINE T == {n \in a..b : n \notin P}
<1> SUFFICES ASSUME T # {} PROVE FALSE
  BY Zenon
<1>1. T \subseteq Nat
  BY SMT
<1>2. PICK x \in T : \A y \in T : x <= y
  <2> HIDE DEF T
  <2> QED BY <1>1, LeastElement, Zenon
<1>3. x \in a..b /\ x \notin P /\ x # a
  BY Zenon
<1>4. x - 1 \in a..b /\ x - 1 < b /\ ~ (x <= x - 1) /\ (x - 1) + 1 = x
  BY <1>3, SMT
<1>5. x - 1 \notin T
  BY <1>2, <1>4, Zenon
<1>6. x - 1 \in P
  BY <1>4, <1>5, Zenon
<1> QED BY <1>3, <1>4, <1>6, Zenon

\* The same from 0 on.
LEMMA FromZero ==
  ASSUME NEW b \in Nat, NEW P, 0 \in P, \A n \in 0..b : n < b /\ n \in P => n + 1 \in P
  PROVE  \A n \in 0..b : n \in P
  BY UpTo, SMT

\* The values of a function of 0..n defined by its first value x and by the
\* steps F[1], ..., F[n].
Runs(u, X, x, F, n) == /\ u \in [0..n -> X] /\ u[0] = x
                       /\ \A i \in 1..n : u[i] = F[i][u[i - 1]]

\* There is such a function when the steps stay in X.
LEMMA RunExists ==
  ASSUME NEW X, NEW x \in X, NEW n \in Nat, NEW F, \A i \in 1..n : F[i] \in [X -> X]
  PROVE  \E u : Runs(u, X, x, F, n)
<1> DEFINE P == {k \in 0..n : \E u : Runs(u, X, x, F, k)}
<1>1. 0 \in P
  <2>1. Runs([i \in 0..0 |-> x], X, x, F, 0)
    BY SMT DEF Runs
  <2>2. 0 \in 0..n
    BY SMT
  <2> QED BY <2>1, <2>2
<1>2. ASSUME NEW k \in 0..n, k < n, k \in P PROVE k + 1 \in P
  <2>1. PICK u : Runs(u, X, x, F, k)
    BY <1>2
  <2> DEFINE w == [i \in 0..(k + 1) |-> IF i = k + 1 THEN F[k + 1][u[k]] ELSE u[i]]
  <2>2. k + 1 \in 1..n /\ k \in 0..k /\ k \in Nat
    BY <1>2, SMT
  <2>3. F[k + 1][u[k]] \in X
    BY <2>1, <2>2 DEF Runs
  <2>4. w \in [0..(k + 1) -> X]
    BY <2>1, <2>2, <2>3, SMT DEF Runs
  <2>5. w[0] = x
    BY <2>1, <2>2, SMT DEF Runs
  <2>6. ASSUME NEW i \in 1..(k + 1) PROVE w[i] = F[i][w[i - 1]]
    <3>1. CASE i = k + 1
      <4>1. k + 1 \in 0..(k + 1) /\ k \in 0..(k + 1) /\ k # k + 1 /\ (k + 1) - 1 = k
        BY <2>2, SMT
      <4>2. w[k + 1] = F[k + 1][u[k]] /\ w[k] = u[k]
        BY <4>1
      <4> HIDE DEF w
      <4> QED BY <3>1, <4>1, <4>2
    <3>2. CASE i # k + 1
      <4>1. i \in 1..k /\ i \in 0..(k + 1) /\ i - 1 \in 0..(k + 1) /\ i - 1 # k + 1
        BY <2>2, <3>2, SMT
      <4>2. w[i] = u[i] /\ w[i - 1] = u[i - 1]
        BY <3>2, <4>1
      <4>3. u[i] = F[i][u[i - 1]]
        BY <2>1, <4>1 DEF Runs
      <4> HIDE DEF w
      <4> QED BY <4>2, <4>3
    <3> QED BY <3>1, <3>2
  <2>7. Runs(w, X, x, F, k + 1)
    BY <2>4, <2>5, <2>6 DEF Runs
  <2>8. k + 1 \in 0..n
    BY <2>2, SMT
  <2> QED BY <2>7, <2>8
<1>3. n \in P
  <2> HIDE DEF P
  <2>1. \A k \in 0..n : k \in P
    BY <1>1, <1>2, FromZero, Zenon
  <2>2. n \in 0..n
    BY SMT
  <2> QED BY <2>1, <2>2
<1> QED BY <1>3

\* There is only one.
LEMMA RunUnique ==
  ASSUME NEW X, NEW x, NEW n \in Nat, NEW F, NEW u, NEW w,
         Runs(u, X, x, F, n), Runs(w, X, x, F, n)
  PROVE  u[n] = w[n]
<1> DEFINE P == {k \in 0..n : u[k] = w[k]}
<1>1. 0 \in P
  <2>1. 0 \in 0..n
    BY SMT
  <2> QED BY <2>1 DEF Runs
<1>2. ASSUME NEW k \in 0..n, k < n, k \in P PROVE k + 1 \in P
  <2>1. k + 1 \in 1..n /\ k + 1 \in 0..n /\ (k + 1) - 1 = k
    BY <1>2, SMT
  <2>2. u[k + 1] = F[k + 1][u[k]] /\ w[k + 1] = F[k + 1][w[k]]
    <3>1. u[k + 1] = F[k + 1][u[(k + 1) - 1]] /\ w[k + 1] = F[k + 1][w[(k + 1) - 1]]
      BY <2>1 DEF Runs
    <3> QED BY <2>1, <3>1
  <2> QED BY <1>2, <2>1, <2>2
<1>3. n \in P
  <2> HIDE DEF P
  <2>1. \A k \in 0..n : k \in P
    BY <1>1, <1>2, FromZero, Zenon
  <2>2. n \in 0..n
    BY SMT
  <2> QED BY <2>1, <2>2
<1> QED BY <1>3

-----------------------------------------------------------------------------
(* Lists of rows.                                                          *)

\* The first n lists are lists over S.
Lists(G, n, S) == \A k \in 1..n : G[k] \in Seq(S)

\* The lists after the first a are the same, where the first a of H are empty.
SameAfter(G, H, a, n) == Joined(H, a) = <<>> /\ \A k \in (a + 1)..n : G[k] = H[k]

EmptyAfter(G, a, n) == \A k \in (a + 1)..n : G[k] = <<>>

\* The lists of H continue the first a of G.
Continued(G, H, a, n) == Joined(G, n) = Joined(G, a) \o Joined(H, n)

\* Joined grows list by list.
LEMMA JoinedSteps ==
  ASSUME NEW S, NEW N \in Nat, NEW G, Lists(G, N, S)
  PROVE  /\ Joined(G, 0) = <<>>
         /\ \A n \in 0..N : Joined(G, n) \in Seq(S)
         /\ \A n \in 0..N : n < N => Joined(G, n + 1) = Joined(G, n) \o G[n + 1]
<1> DEFINE F == [k \in 1..N |-> [s \in Seq(S) |-> s \o G[k]]]
<1>1. \A k \in 1..N : F[k] \in [Seq(S) -> Seq(S)]
  BY ConcatProperties DEF Lists
<1>2. <<>> \in Seq(S)
  BY SMT
<1>3. PICK u : Runs(u, Seq(S), <<>>, F, N)
  <2> HIDE DEF F
  <2> QED BY <1>1, <1>2, RunExists, Zenon
<1>4. u \in [0..N -> Seq(S)] /\ u[0] = <<>>
  BY <1>3 DEF Runs
<1>5. \A k \in 1..N : u[k] = u[k - 1] \o G[k]
  <2> SUFFICES ASSUME NEW k \in 1..N PROVE u[k] = u[k - 1] \o G[k]
    OBVIOUS
  <2>1. u[k - 1] \in Seq(S)
    <3>1. k - 1 \in 0..N
      BY SMT
    <3> QED BY <1>4, <3>1
  <2>2. u[k] = F[k][u[k - 1]]
    BY <1>3 DEF Runs
  <2> QED BY <2>1, <2>2
<1> HIDE DEF F
<1>6. ASSUME NEW n \in 0..N PROVE Joined(G, n) = u[n]
  <2>1. n \in Nat /\ \A k \in 0..n : k \in 0..N /\ (k # 0 => k \in 1..N)
    BY SMT
  <2> DEFINE w == [k \in 0..n |-> u[k]]
  <2>2. w = [k \in 0..n |-> IF k = 0 THEN <<>> ELSE w[k - 1] \o G[k]]
    <3>1. \A k \in 0..n : k # 0 => k - 1 \in 0..n
      BY <2>1, SMT
    <3>2. \A k \in 0..n : w[k] = IF k = 0 THEN <<>> ELSE w[k - 1] \o G[k]
      BY <1>4, <1>5, <2>1, <3>1
    <3> QED BY <3>2
  <2>3. \E g : g = [k \in 0..n |-> IF k = 0 THEN <<>> ELSE g[k - 1] \o G[k]]
    BY <2>2
  <2>4. PICK c : /\ c = [k \in 0..n |-> IF k = 0 THEN <<>> ELSE c[k - 1] \o G[k]]
                 /\ Joined(G, n) = c[n]
    BY <2>3 DEF Joined
  <2> DEFINE P == {k \in 0..n : c[k] = u[k]}
  <2>5. 0 \in P
    <3>1. 0 \in 0..n
      BY <2>1, SMT
    <3>2. c[0] = <<>>
      BY <2>4, <3>1
    <3> QED BY <1>4, <3>1, <3>2
  <2>6. ASSUME NEW k \in 0..n, k < n, k \in P PROVE k + 1 \in P
    <3>1. k + 1 \in 0..n /\ k + 1 \in 1..N /\ k + 1 # 0 /\ (k + 1) - 1 = k
      BY <2>1, <2>6, SMT
    <3>2. c[k + 1] = c[(k + 1) - 1] \o G[k + 1]
      BY <2>4, <3>1
    <3>3. u[k + 1] = u[(k + 1) - 1] \o G[k + 1]
      BY <1>5, <3>1
    <3>4. c[k] = u[k]
      BY <2>6
    <3> QED BY <3>1, <3>2, <3>3, <3>4
  <2>7. n \in P
    <3> HIDE DEF P
    <3>1. \A k \in 0..n : k \in P
      BY <2>1, <2>5, <2>6, FromZero, Zenon
    <3>2. n \in 0..n
      BY <2>1, SMT
    <3> QED BY <3>1, <3>2
  <2> QED BY <2>4, <2>7
<1>7. 0 \in 0..N /\ \A n \in 0..N : n < N => n + 1 \in 0..N /\ n + 1 \in 1..N /\ (n + 1) - 1 = n
  BY SMT
<1>8. ASSUME NEW n \in 0..N, n < N PROVE u[n + 1] = u[n] \o G[n + 1]
  <2>1. u[n + 1] = u[(n + 1) - 1] \o G[n + 1]
    BY <1>5, <1>7, <1>8
  <2> QED BY <1>7, <1>8, <2>1
<1> QED BY <1>4, <1>6, <1>7, <1>8

\* Lists that are the same after the first a continue them.
LEMMA JoinedTail ==
  ASSUME NEW S, NEW N \in Nat, NEW a \in 0..N, NEW G, NEW H, Lists(G, N, S), Lists(H, N, S),
         SameAfter(G, H, a, N)
  PROVE  Continued(G, H, a, N)
<1> DEFINE P == {k \in a..N : Continued(G, H, a, k)}
<1>0. a \in Nat /\ \A k \in a..N : k \in 0..N
  BY SMT
<1>1. a \in P
  <2>1. Joined(G, a) \in Seq(S)
    BY JoinedSteps
  <2>2. Joined(G, a) \o <<>> = Joined(G, a)
    BY <2>1, ConcatEmptySeq
  <2>3. a \in a..N
    BY SMT
  <2> QED BY <2>2, <2>3 DEF Continued, SameAfter
<1>2. ASSUME NEW k \in a..N, k < N, k \in P PROVE k + 1 \in P
  <2>1. k \in 0..N /\ k + 1 \in (a + 1)..N /\ k + 1 \in a..N /\ k + 1 \in 1..N
    BY <1>2, SMT
  <2>2. Joined(G, k + 1) = Joined(G, k) \o G[k + 1] /\ Joined(H, k + 1) = Joined(H, k) \o H[k + 1]
    BY <1>2, <2>1, JoinedSteps
  <2>3. Joined(G, a) \in Seq(S) /\ Joined(H, k) \in Seq(S) /\ H[k + 1] \in Seq(S)
    BY <2>1, JoinedSteps DEF Lists
  <2>4. (Joined(G, a) \o Joined(H, k)) \o H[k + 1] = Joined(G, a) \o (Joined(H, k) \o H[k + 1])
    <3>1. \A r, s, t \in Seq(S) : (r \o s) \o t = r \o (s \o t)
      BY SMTT(30)
    <3> QED BY <2>3, <3>1
  <2>5. G[k + 1] = H[k + 1] /\ Joined(G, k) = Joined(G, a) \o Joined(H, k)
    BY <1>2, <2>1 DEF SameAfter, Continued
  <2>6. Joined(G, k + 1) = Joined(G, a) \o Joined(H, k + 1)
    BY <2>2, <2>4, <2>5
  <2> QED BY <2>1, <2>6 DEF Continued
<1>3. N \in P
  <2> HIDE DEF P
  <2>1. \A k \in a..N : k \in P
    BY <1>0, <1>1, <1>2, UpTo, Zenon
  <2>2. N \in a..N
    BY SMT
  <2> QED BY <2>1, <2>2
<1> QED BY <1>3

\* Empty lists add nothing.
LEMMA JoinedNothing ==
  ASSUME NEW S, NEW N \in Nat, NEW a \in 0..N, NEW G, Lists(G, N, S),
         EmptyAfter(G, a, N)
  PROVE  Joined(G, N) = Joined(G, a)
<1> DEFINE P == {k \in a..N : Joined(G, k) = Joined(G, a)}
<1>0. a \in Nat /\ a \in a..N /\ N \in a..N
  BY SMT
<1>1. a \in P
  BY <1>0
<1>2. ASSUME NEW k \in a..N, k < N, k \in P PROVE k + 1 \in P
  <2>1. k \in 0..N /\ k + 1 \in (a + 1)..N /\ k + 1 \in a..N
    BY <1>2, SMT
  <2>2. Joined(G, k + 1) = Joined(G, k) \o G[k + 1] /\ Joined(G, k) \in Seq(S)
    BY <1>2, <2>1, JoinedSteps
  <2>3. Joined(G, k) \o <<>> = Joined(G, k)
    BY <2>2, ConcatEmptySeq
  <2>4. Joined(G, k + 1) = Joined(G, a)
    BY <1>2, <2>1, <2>2, <2>3 DEF EmptyAfter
  <2> QED BY <2>1, <2>4
<1>3. N \in P
  <2> HIDE DEF P
  <2>1. \A k \in a..N : k \in P
    BY <1>0, <1>1, <1>2, UpTo, Zenon
  <2> QED BY <1>0, <2>1
<1> QED BY <1>3

\* The same lists give the same list.
LEMMA JoinedSame ==
  ASSUME NEW S, NEW N \in Nat, NEW G, NEW H, Lists(G, N, S), Lists(H, N, S),
         \A k \in 1..N : G[k] = H[k]
  PROVE  Joined(G, N) = Joined(H, N)
<1>1. 0 \in 0..N /\ N \in 0..N /\ \A k \in (0 + 1)..N : k \in 1..N
  BY SMT
<1>2. Joined(G, 0) = <<>> /\ Joined(H, 0) = <<>> /\ Joined(H, N) \in Seq(S)
  BY <1>1, JoinedSteps
<1>3. Joined(G, N) = Joined(G, 0) \o Joined(H, N)
  <2>1. PICK a \in 0..N : a = 0
    BY <1>1
  <2>2. SameAfter(G, H, a, N)
    BY <1>1, <1>2, <2>1 DEF SameAfter
  <2>3. Continued(G, H, a, N)
    BY <2>2, JoinedTail
  <2> QED BY <2>1, <2>3 DEF Continued
<1> QED BY <1>2, <1>3, ConcatEmptySeq

\* Rows read are rows to insert, one by one.
LEMMA InsertsOf ==
  ASSUME NEW r \in Seq(Rows), NEW s \in Seq(Rows)
  PROVE  AsInserts(r) \in Seq(Rows) /\ AsInserts(r \o s) = AsInserts(r) \o AsInserts(s)
<1>1. ASSUME NEW q \in Seq(Rows)
      PROVE  /\ AsInserts(q) \in Seq(Rows) /\ Len(AsInserts(q)) = Len(q)
             /\ \A i \in 1..Len(q) : AsInserts(q)[i] = [q[i] EXCEPT !.op = "insert"]
  <2>1. Len(q) \in Nat /\ DOMAIN q = 1..Len(q) /\ \A i \in 1..Len(q) : q[i] \in Rows
    BY SMT
  <2>2. \A x \in Rows : [x EXCEPT !.op = "insert"] \in Rows
    BY DEF Rows
  <2>3. AsInserts(q) = [i \in 1..Len(q) |-> [q[i] EXCEPT !.op = "insert"]]
    BY <2>1 DEF AsInserts
  <2>4. AsInserts(q) \in [1..Len(q) -> Rows]
    BY <2>1, <2>2, <2>3, ZenonT(40)
  <2> QED BY <2>1, <2>3, <2>4, SMT
<1>2. /\ r \o s \in Seq(Rows) /\ Len(r \o s) = Len(r) + Len(s)
      /\ \A i \in 1..Len(r) + Len(s) : (r \o s)[i] = IF i <= Len(r) THEN r[i] ELSE s[i - Len(r)]
  BY ConcatProperties, SMT
<1> DEFINE u == AsInserts(r)
           w == AsInserts(s)
           v == AsInserts(r \o s)
<1>3. /\ u \in Seq(Rows) /\ Len(u) = Len(r) /\ w \in Seq(Rows) /\ Len(w) = Len(s)
      /\ v \in Seq(Rows) /\ Len(v) = Len(r) + Len(s) /\ Len(r) \in Nat /\ Len(s) \in Nat
  <2>1. Len(r) \in Nat /\ Len(s) \in Nat
    BY SMT
  <2> QED BY <1>1, <1>2, <2>1
<1>4. /\ u \o w \in Seq(Rows) /\ Len(u \o w) = Len(r) + Len(s)
      /\ \A i \in 1..Len(r) + Len(s) : (u \o w)[i] = IF i <= Len(r) THEN u[i] ELSE w[i - Len(r)]
  <2> HIDE DEF u, w
  <2> QED BY <1>3, ConcatProperties, SMT
<1>5. ASSUME NEW i \in 1..Len(r) + Len(s) PROVE v[i] = (u \o w)[i]
  <2>1. v[i] = [(r \o s)[i] EXCEPT !.op = "insert"]
    BY <1>1, <1>2
  <2>2. CASE i <= Len(r)
    <3>1. i \in 1..Len(r)
      BY <1>3, <2>2, SMT
    <3>2. u[i] = [r[i] EXCEPT !.op = "insert"]
      BY <1>1, <3>1
    <3> HIDE DEF u, v, w
    <3> QED BY <1>2, <1>4, <2>1, <2>2, <3>2
  <2>3. CASE ~ (i <= Len(r))
    <3>1. i - Len(r) \in 1..Len(s)
      BY <1>3, <2>3, SMT
    <3>2. w[i - Len(r)] = [s[i - Len(r)] EXCEPT !.op = "insert"]
      BY <1>1, <3>1
    <3> HIDE DEF u, v, w
    <3> QED BY <1>2, <1>4, <2>1, <2>3, <3>2
  <2> QED BY <2>2, <2>3
<1>6. v = u \o w
  <2> HIDE DEF u, v, w
  <2> QED BY <1>3, <1>4, <1>5, SeqEqual
<1> QED BY <1>3, <1>6

\* So the rows of a snapshot may be made inserts chunk by chunk.
LEMMA JoinedInserts ==
  ASSUME NEW N \in Nat, NEW G, NEW H, Lists(G, N, Rows), \A k \in 1..N : H[k] = AsInserts(G[k])
  PROVE  AsInserts(Joined(G, N)) = Joined(H, N)
<1> DEFINE P == {k \in 0..N : AsInserts(Joined(G, k)) = Joined(H, k)}
<1>0. 0 \in 0..N /\ N \in 0..N
  BY SMT
<1>1. Lists(H, N, Rows)
  BY InsertsOf DEF Lists
<1>2. 0 \in P
  <2>1. AsInserts(<<>>) = <<>>
    BY SMT DEF AsInserts
  <2> QED BY <1>0, <1>1, <2>1, JoinedSteps
<1>3. ASSUME NEW k \in 0..N, k < N, k \in P PROVE k + 1 \in P
  <2>1. k + 1 \in 0..N /\ k + 1 \in 1..N
    BY <1>3, SMT
  <2>2. Joined(G, k + 1) = Joined(G, k) \o G[k + 1] /\ Joined(H, k + 1) = Joined(H, k) \o H[k + 1]
    BY <1>1, <1>3, JoinedSteps
  <2>3. Joined(G, k) \in Seq(Rows) /\ G[k + 1] \in Seq(Rows)
    BY <2>1, JoinedSteps DEF Lists
  <2>4. AsInserts(Joined(G, k + 1)) = AsInserts(Joined(G, k)) \o AsInserts(G[k + 1])
    BY <2>2, <2>3, InsertsOf
  <2>5. AsInserts(Joined(G, k + 1)) = Joined(H, k + 1)
    BY <1>3, <2>1, <2>2, <2>4
  <2> QED BY <2>1, <2>5
<1>4. N \in P
  <2> HIDE DEF P
  <2>1. \A k \in 0..N : k \in P
    BY <1>2, <1>3, FromZero, Zenon
  <2> QED BY <1>0, <2>1
<1> QED BY <1>4

-----------------------------------------------------------------------------
(* What a list of rows makes of one table.                                 *)

Counts == [Values -> Int]

\* A row as a change of the table t.
Moved(c, row, t) ==
  IF row.table # t THEN c
  ELSE [v \in Values |-> c[v] - (IF row.op # "insert" /\ v = row.old THEN 1 ELSE 0)
                              + (IF row.op # "delete" /\ v = row.new THEN 1 ELSE 0)]

StepsOf(t, rows) == [i \in 1..Len(rows) |-> [c \in Counts |-> Moved(c, rows[i], t)]]

Leads(x, t, rows, y) == \E u : Runs(u, Counts, x, StepsOf(t, rows), Len(rows)) /\ u[Len(rows)] = y

Result(x, t, rows) == CHOOSE y : Leads(x, t, rows, y)

\* A row leaves a table of counts.
LEMMA MovedType ==
  ASSUME NEW c \in Counts, NEW row, NEW t
  PROVE  Moved(c, row, t) \in Counts
<1>1. CASE row.table # t
  BY <1>1 DEF Moved
<1>2. CASE row.table = t
  <2>1. ASSUME NEW v \in Values
        PROVE  c[v] - (IF row.op # "insert" /\ v = row.old THEN 1 ELSE 0)
                    + (IF row.op # "delete" /\ v = row.new THEN 1 ELSE 0) \in Int
    BY SMT DEF Counts
  <2>2. Moved(c, row, t) =
          [v \in Values |-> c[v] - (IF row.op # "insert" /\ v = row.old THEN 1 ELSE 0)
                                 + (IF row.op # "delete" /\ v = row.new THEN 1 ELSE 0)]
    BY <1>2 DEF Moved
  <2> QED BY <2>1, <2>2, ZenonT(40) DEF Counts
<1> QED BY <1>1, <1>2

\* A list of rows has one result.
LEMMA ResultIs ==
  ASSUME NEW x \in Counts, NEW t, NEW rows \in Seq(Rows)
  PROVE  /\ Result(x, t, rows) \in Counts
         /\ Leads(x, t, rows, Result(x, t, rows))
         /\ \A y : Leads(x, t, rows, y) => y = Result(x, t, rows)
<1>1. Len(rows) \in Nat
  BY SMT
<1>2. \A i \in 1..Len(rows) : StepsOf(t, rows)[i] \in [Counts -> Counts]
  BY MovedType DEF StepsOf
<1>3. PICK u : Runs(u, Counts, x, StepsOf(t, rows), Len(rows))
  BY <1>1, <1>2, RunExists
<1>4. Leads(x, t, rows, u[Len(rows)])
  BY <1>3 DEF Leads
<1>5. u[Len(rows)] \in Counts
  <2>1. Len(rows) \in 0..Len(rows)
    BY <1>1, SMT
  <2> QED BY <1>3, <2>1 DEF Runs
<1>6. \A y : Leads(x, t, rows, y) => y = u[Len(rows)]
  <2> SUFFICES ASSUME NEW y, Leads(x, t, rows, y) PROVE y = u[Len(rows)]
    OBVIOUS
  <2>1. PICK w : Runs(w, Counts, x, StepsOf(t, rows), Len(rows)) /\ w[Len(rows)] = y
    BY DEF Leads
  <2>2. w[Len(rows)] = u[Len(rows)]
    <3>1. PICK n \in Nat : n = Len(rows)
      BY <1>1
    <3>2. PICK F : F = StepsOf(t, rows)
      OBVIOUS
    <3>3. Runs(u, Counts, x, F, n) /\ Runs(w, Counts, x, F, n)
      BY <1>3, <2>1, <3>1, <3>2
    <3>4. w[n] = u[n]
      BY <3>3, RunUnique, SMTT(30)
    <3> QED BY <3>1, <3>4
  <2> QED BY <2>1, <2>2
<1>7. Leads(x, t, rows, Result(x, t, rows))
  BY <1>4 DEF Result
<1>8. Result(x, t, rows) = u[Len(rows)]
  BY <1>6, <1>7
<1> QED BY <1>5, <1>6, <1>7, <1>8

\* No row, no change.
LEMMA ResultNone ==
  ASSUME NEW x \in Counts, NEW t
  PROVE  Result(x, t, <<>>) = x
<1>1. Len(<<>>) = 0 /\ <<>> \in Seq(Rows) /\ 0 \in 0..0 /\ \A i : ~ (i \in 1..0)
  BY SMT
<1>2. PICK u : Runs(u, Counts, x, StepsOf(t, <<>>), Len(<<>>)) /\ u[Len(<<>>)] = Result(x, t, <<>>)
  BY <1>1, ResultIs DEF Leads
<1> QED BY <1>1, <1>2 DEF Runs

\* One list after the other.
Composes(x, t, r, s) == Result(x, t, r \o s) = Result(Result(x, t, r), t, s)

\* The result of two lists is that of the second after the first.
LEMMA ResultOfBoth ==
  ASSUME NEW x \in Counts, NEW t, NEW r \in Seq(Rows), NEW s \in Seq(Rows)
  PROVE  Composes(x, t, r, s)
<1> DEFINE y == Result(x, t, r)
           z == Result(y, t, s)
           a == Len(r)
           b == Len(s)
<1>1. /\ a \in Nat /\ b \in Nat /\ r \o s \in Seq(Rows) /\ Len(r \o s) = a + b
      /\ \A i \in 1..a + b : (r \o s)[i] = IF i <= a THEN r[i] ELSE s[i - a]
  BY ConcatProperties, SMT
<1>2. y \in Counts /\ Leads(x, t, r, y) /\ Leads(y, t, s, z)
  BY ResultIs
<1> HIDE DEF y, z
<1>3. PICK u : Runs(u, Counts, x, StepsOf(t, r), a) /\ u[a] = y
  BY <1>2 DEF Leads
<1>4. PICK w : Runs(w, Counts, y, StepsOf(t, s), b) /\ w[b] = z
  BY <1>2 DEF Leads
<1> HIDE DEF a, b
<1>5. /\ u \in [0..a -> Counts] /\ u[0] = x
      /\ \A i \in 1..a : u[i] = StepsOf(t, r)[i][u[i - 1]]
  BY <1>3 DEF Runs
<1>6. /\ w \in [0..b -> Counts] /\ w[0] = y
      /\ \A i \in 1..b : w[i] = StepsOf(t, s)[i][w[i - 1]]
  BY <1>4 DEF Runs
<1> DEFINE p == [i \in 0..a + b |-> IF i <= a THEN u[i] ELSE w[i - a]]
<1>7. p \in [0..a + b -> Counts]
  <2>1. \A i \in 0..a + b : IF i <= a THEN i \in 0..a ELSE i - a \in 0..b
    BY <1>1, SMT
  <2> QED BY <1>5, <1>6, <2>1
<1>8. p[0] = x /\ p[a + b] = z
  <2>1. /\ 0 \in 0..a + b /\ 0 <= a /\ a + b \in 0..a + b /\ (a + b) - a = b
        /\ a + b <= a => b = 0 /\ a + b = a
    BY <1>1, SMT
  <2> QED BY <1>3, <1>4, <1>5, <1>6, <2>1
<1>9. ASSUME NEW i \in 1..a + b PROVE p[i] = StepsOf(t, r \o s)[i][p[i - 1]]
  <2>1. i \in 0..a + b /\ i - 1 \in 0..a + b
    BY <1>1, SMT
  <2>2. p[i - 1] \in Counts
    BY <1>7, <2>1
  <2>3. StepsOf(t, r \o s)[i][p[i - 1]] = Moved(p[i - 1], (r \o s)[i], t)
    <3> HIDE DEF p
    <3> QED BY <1>1, <2>2 DEF StepsOf
  <2>4. CASE i <= a
    <3>1. i \in 1..a /\ i - 1 \in 0..a /\ i - 1 <= a
      BY <1>1, <2>4, SMT
    <3>2. p[i] = u[i] /\ p[i - 1] = u[i - 1]
      BY <2>1, <2>4, <3>1
    <3>3. (r \o s)[i] = r[i]
      BY <1>1, <2>4
    <3>4. u[i] = Moved(u[i - 1], r[i], t)
      BY <1>5, <3>1 DEF StepsOf, a
    <3> HIDE DEF p
    <3> QED BY <2>3, <3>2, <3>3, <3>4
  <2>5. CASE ~ (i <= a)
    <3>1. i - a \in 1..b /\ (i - a) - 1 \in 0..b /\ (i - 1) - a = (i - a) - 1
      BY <1>1, <2>5, SMT
    <3>2. p[i] = w[i - a]
      BY <2>1, <2>5
    <3>3. p[i - 1] = w[(i - a) - 1]
      <4>1. CASE i - 1 <= a
        <5>1. i - 1 = a /\ (i - a) - 1 = 0
          BY <1>1, <2>5, <4>1, SMT
        <5>2. p[i - 1] = u[i - 1]
          BY <2>1, <4>1
        <5> HIDE DEF p
        <5> QED BY <1>3, <1>6, <5>1, <5>2
      <4>2. CASE ~ (i - 1 <= a)
        <5>1. p[i - 1] = w[(i - 1) - a]
          BY <2>1, <4>2
        <5> HIDE DEF p
        <5> QED BY <3>1, <5>1
      <4> QED BY <4>1, <4>2
    <3>4. (r \o s)[i] = s[i - a]
      BY <1>1, <2>5
    <3>5. w[i - a] = Moved(w[(i - a) - 1], s[i - a], t)
      BY <1>6, <3>1 DEF StepsOf, b
    <3> HIDE DEF p
    <3> QED BY <2>3, <3>2, <3>3, <3>4, <3>5
  <2> QED BY <2>4, <2>5
<1> HIDE DEF p
<1>10. Runs(p, Counts, x, StepsOf(t, r \o s), a + b)
  BY <1>7, <1>8, <1>9 DEF Runs
<1>11. Leads(x, t, r \o s, z)
  BY <1>1, <1>8, <1>10 DEF Leads
<1> QED BY <1>1, <1>11, ResultIs DEF Composes, z, y

-----------------------------------------------------------------------------
(* What a list of rows makes of all tables.                                *)

AllCounts == [Tables -> Counts]

\* Counting a row changes its table.
LEMMA CountedMoves ==
  ASSUME NEW acc \in AllCounts, NEW row \in Rows
  PROVE  /\ Counted(acc, row) \in AllCounts
         /\ \A t \in Tables : Counted(acc, row)[t] = Moved(acc[t], row, t)
<1>1. row.table \in Tables
  BY DEF Rows
<1>2. \A t \in Tables : Counted(acc, row)[t] = Moved(acc[t], row, t)
  BY <1>1 DEF Counted, Moved, AllCounts
<1>3. DOMAIN Counted(acc, row) = Tables /\ Counted(acc, row) = [t \in Tables |-> Counted(acc, row)[t]]
  BY DEF Counted, AllCounts
<1>4. \A t \in Tables : Moved(acc[t], row, t) \in Counts
  BY MovedType DEF AllCounts
<1>5. \A t \in Tables : Counted(acc, row)[t] \in Counts
  BY <1>2, <1>4
<1> QED BY <1>2, <1>3, <1>5 DEF AllCounts

\* So does applying it, unless applyRow returns an error.
LEMMA AppliedMoves ==
  ASSUME NEW p, NEW acc \in AllCounts, NEW row \in Rows, row.op # "read",
         ApplyRow(p, acc, row) # None
  PROVE  /\ ApplyRow(p, acc, row) \in AllCounts
         /\ \A t \in Tables : ApplyRow(p, acc, row)[t] = Moved(acc[t], row, t)
<1> DEFINE c == acc[row.table]
           new == Moved(c, row, row.table)
<1>1. row.table \in Tables /\ row.op \in {"insert", "update", "delete"}
  BY DEF Rows
<1>2. c \in Counts
  BY <1>1 DEF AllCounts
<1>3. new = [v \in Values |-> c[v] - (IF row.op # "insert" /\ v = row.old THEN 1 ELSE 0)
                                   + (IF row.op # "delete" /\ v = row.new THEN 1 ELSE 0)]
  BY DEF Moved
<1>4. ApplyRow(p, acc, row) = [acc EXCEPT ![row.table] = new]
  <2>1. CASE row.op = "insert"
    <3>1. ApplyRow(p, acc, row) = [acc EXCEPT ![row.table][row.new] = @ + 1]
      BY <2>1 DEF ApplyRow
    <3>2. new = [c EXCEPT ![row.new] = @ + 1]
      <4>1. \A v \in Values : new[v] = [c EXCEPT ![row.new] = @ + 1][v]
        BY <1>2, <1>3, <2>1, SMT DEF Counts
      <4>2. DOMAIN new = Values /\ DOMAIN [c EXCEPT ![row.new] = @ + 1] = Values
        BY <1>2, <1>3 DEF Counts
      <4> QED BY <1>3, <4>1, <4>2 DEF Counts
    <3> QED BY <3>1, <3>2
  <2>2. CASE row.op = "delete"
    <3>1. ApplyRow(p, acc, row) = [acc EXCEPT ![row.table][row.old] = @ + (-1)]
      BY <2>2 DEF ApplyRow
    <3>2. new = [c EXCEPT ![row.old] = @ + (-1)]
      <4>1. \A v \in Values : new[v] = [c EXCEPT ![row.old] = @ + (-1)][v]
        BY <1>2, <1>3, <2>2, SMT DEF Counts
      <4>2. DOMAIN new = Values /\ DOMAIN [c EXCEPT ![row.old] = @ + (-1)] = Values
        BY <1>2, <1>3 DEF Counts
      <4> QED BY <1>3, <4>1, <4>2 DEF Counts
    <3> QED BY <3>1, <3>2
  <2>3. CASE row.op = "update"
    <3>1. ApplyRow(p, acc, row) =
            [acc EXCEPT ![row.table] = [v \in Values |-> @[v] - (IF v = row.old THEN 1 ELSE 0)
                                                            + (IF v = row.new THEN 1 ELSE 0)]]
      BY <2>3 DEF ApplyRow
    <3>2. new = [v \in Values |-> c[v] - (IF v = row.old THEN 1 ELSE 0)
                                       + (IF v = row.new THEN 1 ELSE 0)]
      BY <1>3, <2>3
    <3> QED BY <3>1, <3>2
  <2> QED BY <1>1, <2>1, <2>2, <2>3
<1>5. new \in Counts
  BY <1>2, MovedType
<1>6. \A t \in Tables : t # row.table => Moved(acc[t], row, t) = acc[t]
  BY DEF Moved
<1> HIDE DEF new
<1> QED BY <1>1, <1>4, <1>5, <1>6 DEF AllCounts, new

\* Tables that change row by row hold the results of the rows.
LEMMA TraceResult ==
  ASSUME NEW rows \in Seq(Rows), NEW c, \A i \in 0..Len(rows) : c[i] \in AllCounts,
         \A i \in 1..Len(rows) : \A t \in Tables : c[i][t] = Moved(c[i - 1][t], rows[i], t)
  PROVE  \A t \in Tables : c[Len(rows)][t] = Result(c[0][t], t, rows)
<1> SUFFICES ASSUME NEW t \in Tables PROVE c[Len(rows)][t] = Result(c[0][t], t, rows)
  OBVIOUS
<1> DEFINE u == [i \in 0..Len(rows) |-> c[i][t]]
<1>1. /\ Len(rows) \in Nat /\ 0 \in 0..Len(rows) /\ Len(rows) \in 0..Len(rows)
      /\ \A i \in 1..Len(rows) : i \in 0..Len(rows) /\ i - 1 \in 0..Len(rows)
  BY SMT
<1>2. u \in [0..Len(rows) -> Counts] /\ u[0] = c[0][t] /\ u[Len(rows)] = c[Len(rows)][t]
  BY <1>1 DEF AllCounts
<1>3. ASSUME NEW i \in 1..Len(rows) PROVE u[i] = StepsOf(t, rows)[i][u[i - 1]]
  <2>1. u[i] = c[i][t] /\ u[i - 1] = c[i - 1][t] /\ u[i - 1] \in Counts
    BY <1>1, <1>2
  <2> HIDE DEF u
  <2>2. StepsOf(t, rows)[i][u[i - 1]] = Moved(u[i - 1], rows[i], t)
    BY <2>1 DEF StepsOf
  <2> QED BY <2>1, <2>2
<1> HIDE DEF u
<1>4. Runs(u, Counts, c[0][t], StepsOf(t, rows), Len(rows))
  BY <1>2, <1>3 DEF Runs
<1>5. Leads(c[0][t], t, rows, c[Len(rows)][t])
  BY <1>2, <1>4 DEF Leads
<1>6. c[0][t] \in Counts
  BY <1>1 DEF AllCounts
<1> QED BY <1>5, <1>6, ResultIs

\* Expected counts the rows of the log one by one.
LEMMA ExpectedResult ==
  ASSUME NEW n, LogRows(n) \in Seq(Rows)
  PROVE  \A t \in Tables : Expected(n)[t] = Result([v \in Values |-> 0], t, LogRows(n))
<1> DEFINE rows == LogRows(n)
           zero == [t \in Tables |-> [v \in Values |-> 0]]
           F == [i \in 1..Len(rows) |-> [acc \in AllCounts |-> Counted(acc, rows[i])]]
<1>1. /\ Len(rows) \in Nat /\ \A i \in 1..Len(rows) : rows[i] \in Rows
      /\ 0 \in 0..Len(rows) /\ Len(rows) \in 0..Len(rows)
      /\ \A i \in 1..Len(rows) : i # 0 /\ i \in 0..Len(rows) /\ i - 1 \in 0..Len(rows)
      /\ \A i \in 0..Len(rows) : i # 0 => i \in 1..Len(rows)
  <2> HIDE DEF rows
  <2>1. rows \in Seq(Rows)
    BY DEF rows
  <2> QED BY <2>1, SMT
<1>2. zero \in AllCounts
  BY SMT DEF AllCounts, Counts
<1>3. \A i \in 1..Len(rows) : F[i] \in [AllCounts -> AllCounts]
  BY <1>1, CountedMoves
<1> HIDE DEF zero
<1>4. PICK u : Runs(u, AllCounts, zero, F, Len(rows))
  <2> HIDE DEF F, rows
  <2> QED BY <1>1, <1>2, <1>3, RunExists
<1>5. u = [i \in 0..Len(rows) |-> IF i = 0 THEN zero ELSE Counted(u[i - 1], rows[i])]
  <2> HIDE DEF rows
  <2>1. \A i \in 0..Len(rows) : u[i] = IF i = 0 THEN zero ELSE Counted(u[i - 1], rows[i])
    BY <1>1, <1>4 DEF Runs
  <2> QED BY <1>4, <2>1 DEF Runs
<1>6. PICK c : /\ c = [i \in 0..Len(rows) |-> IF i = 0 THEN zero ELSE Counted(c[i - 1], rows[i])]
               /\ Expected(n) = c[Len(rows)]
  BY <1>5 DEF Expected, zero
<1> HIDE DEF rows, F
<1>7. c[0] = zero /\ \A i \in 1..Len(rows) : c[i] = Counted(c[i - 1], rows[i])
  BY <1>1, <1>6
<1> DEFINE P == {i \in 0..Len(rows) : c[i] \in AllCounts}
<1>8. 0 \in P
  BY <1>1, <1>2, <1>7
<1>9. ASSUME NEW i \in 0..Len(rows), i < Len(rows), i \in P PROVE i + 1 \in P
  <2>1. i + 1 \in 1..Len(rows) /\ (i + 1) - 1 = i
    BY <1>1, <1>9, SMT
  <2>2. c[i + 1] = Counted(c[(i + 1) - 1], rows[i + 1])
    BY <1>7, <2>1
  <2>3. Counted(c[i], rows[i + 1]) \in AllCounts
    BY <1>1, <1>9, <2>1, CountedMoves
  <2> QED BY <1>1, <2>1, <2>2, <2>3
<1>10. \A i \in 0..Len(rows) : i \in P
  <2> HIDE DEF P
  <2> QED BY <1>1, <1>8, <1>9, FromZero, Zenon
<1>11. \A i \in 1..Len(rows) : \A t \in Tables : c[i][t] = Moved(c[i - 1][t], rows[i], t)
  <2> SUFFICES ASSUME NEW i \in 1..Len(rows), NEW t \in Tables
               PROVE  c[i][t] = Moved(c[i - 1][t], rows[i], t)
    OBVIOUS
  <2>1. c[i] = Counted(c[i - 1], rows[i]) /\ c[i - 1] \in AllCounts /\ rows[i] \in Rows
    BY <1>1, <1>7, <1>10
  <2>2. \A x \in AllCounts, y \in Rows : Counted(x, y)[t] = Moved(x[t], y, t)
    BY CountedMoves
  <2>3. Counted(c[i - 1], rows[i])[t] = Moved(c[i - 1][t], rows[i], t)
    BY <2>1, <2>2
  <2> QED BY <2>1, <2>3
<1>12. \A t \in Tables : c[Len(rows)][t] = Result(c[0][t], t, rows)
  BY <1>10, <1>11, TraceResult DEF rows
<1>13. \A t \in Tables : c[0][t] = [v \in Values |-> 0]
  BY <1>7 DEF zero
<1> QED BY <1>6, <1>12, <1>13 DEF rows

\* ApplyRows, when no row fails, changes the tables row by row.
LEMMA AppliedResult ==
  ASSUME NEW p, NEW start \in AllCounts, NEW rows \in Seq(Rows),
         \A i \in DOMAIN rows : rows[i].op # "read", ApplyRows(p, start, rows) # None
  PROVE  /\ ApplyRows(p, start, rows) \in AllCounts
         /\ \A t \in Tables : ApplyRows(p, start, rows)[t] = Result(start[t], t, rows)
<1> DEFINE X == AllCounts \cup {None}
           After1(acc, i) == IF acc = None THEN None ELSE ApplyRow(p, acc, rows[i])
           F == [i \in 1..Len(rows) |-> [acc \in X |-> After1(acc, i)]]
<1>1. /\ Len(rows) \in Nat /\ \A i \in 1..Len(rows) : rows[i] \in Rows /\ rows[i].op # "read"
      /\ 0 \in 0..Len(rows) /\ Len(rows) \in 0..Len(rows)
      /\ \A i \in 1..Len(rows) : i # 0 /\ i \in 0..Len(rows) /\ i - 1 \in 0..Len(rows)
      /\ \A i \in 0..Len(rows) : i # 0 => i \in 1..Len(rows)
  <2>1. DOMAIN rows = 1..Len(rows)
    BY SMT
  <2>2. \A i \in 1..Len(rows) : rows[i] \in Rows
    BY SMT
  <2>3. /\ Len(rows) \in Nat /\ 0 \in 0..Len(rows) /\ Len(rows) \in 0..Len(rows)
        /\ \A i \in 1..Len(rows) : i # 0 /\ i \in 0..Len(rows) /\ i - 1 \in 0..Len(rows)
        /\ \A i \in 0..Len(rows) : i # 0 => i \in 1..Len(rows)
    BY SMT
  <2> QED BY <2>1, <2>2, <2>3
<1>2. ASSUME NEW i \in 1..Len(rows), NEW acc \in X PROVE After1(acc, i) \in X
  BY <1>1, AppliedMoves
<1>3. \A i \in 1..Len(rows) : F[i] \in [X -> X]
  <2> HIDE DEF After1, X
  <2> QED BY <1>2
<1>4. PICK u : Runs(u, X, start, F, Len(rows))
  <2>1. start \in X
    OBVIOUS
  <2> HIDE DEF F, X
  <2> QED BY <1>1, <1>3, <2>1, RunExists
<1>5. u = [i \in 0..Len(rows) |-> IF i = 0 THEN start ELSE After1(u[i - 1], i)]
  <2> HIDE DEF After1, X
  <2>1. \A i \in 0..Len(rows) : u[i] = IF i = 0 THEN start ELSE After1(u[i - 1], i)
    BY <1>1, <1>4 DEF Runs
  <2> QED BY <1>4, <2>1 DEF Runs
<1>6. PICK c : /\ c = [i \in 0..Len(rows) |->
                         IF i = 0 THEN start
                         ELSE IF c[i - 1] = None THEN None ELSE ApplyRow(p, c[i - 1], rows[i])]
               /\ ApplyRows(p, start, rows) = c[Len(rows)]
  BY <1>5 DEF ApplyRows
<1> HIDE DEF F
<1>7. /\ c[0] = start
      /\ \A i \in 1..Len(rows) : /\ c[i - 1] = None => c[i] = None
                                 /\ c[i - 1] # None => c[i] = ApplyRow(p, c[i - 1], rows[i])
  BY <1>1, <1>6
<1>8. ASSUME NEW j \in 0..Len(rows) PROVE c[j] # None
  <2> SUFFICES ASSUME c[j] = None PROVE c[Len(rows)] = None
    BY <1>6
  <2> DEFINE P == {i \in j..Len(rows) : c[i] = None}
  <2>1. j \in Nat /\ j \in j..Len(rows) /\ Len(rows) \in j..Len(rows)
    BY <1>1, SMT
  <2>2. j \in P
    BY <2>1
  <2>3. ASSUME NEW i \in j..Len(rows), i < Len(rows), i \in P PROVE i + 1 \in P
    <3>1. i + 1 \in 1..Len(rows) /\ i + 1 \in j..Len(rows) /\ (i + 1) - 1 = i
      BY <1>1, <2>1, <2>3, SMTT(30)
    <3>2. c[(i + 1) - 1] = None => c[i + 1] = None
      BY <1>7, <3>1
    <3> QED BY <2>3, <3>1, <3>2
  <2>4. \A i \in j..Len(rows) : i \in P
    <3> HIDE DEF P
    <3> QED BY <1>1, <2>1, <2>2, <2>3, UpTo, Zenon
  <2> QED BY <2>1, <2>4
<1> DEFINE Q == {i \in 0..Len(rows) : c[i] \in AllCounts}
<1>9. 0 \in Q
  BY <1>1, <1>7
<1>10. ASSUME NEW i \in 0..Len(rows), i < Len(rows), i \in Q PROVE i + 1 \in Q
  <2>1. i + 1 \in 1..Len(rows) /\ (i + 1) - 1 = i /\ i + 1 \in 0..Len(rows)
    BY <1>1, <1>10, SMT
  <2>2. c[(i + 1) - 1] # None => c[i + 1] = ApplyRow(p, c[(i + 1) - 1], rows[i + 1])
    BY <1>7, <2>1
  <2>3. c[i + 1] = ApplyRow(p, c[i], rows[i + 1]) /\ c[i + 1] # None
    BY <1>8, <2>1, <2>2
  <2>4. c[i] \in AllCounts /\ rows[i + 1] \in Rows /\ rows[i + 1].op # "read"
    BY <1>1, <1>10, <2>1
  <2>5. ApplyRow(p, c[i], rows[i + 1]) \in AllCounts
    BY <2>3, <2>4, AppliedMoves
  <2> QED BY <2>1, <2>3, <2>5
<1>11. \A i \in 0..Len(rows) : i \in Q
  <2> HIDE DEF Q
  <2> QED BY <1>1, <1>9, <1>10, FromZero, Zenon
<1>12. ASSUME NEW i \in 1..Len(rows), NEW t \in Tables
       PROVE  c[i][t] = Moved(c[i - 1][t], rows[i], t)
  <2>1. c[i] = ApplyRow(p, c[i - 1], rows[i]) /\ c[i] # None /\ c[i - 1] \in AllCounts
    BY <1>1, <1>7, <1>8, <1>11
  <2>2. rows[i] \in Rows /\ rows[i].op # "read" /\ ApplyRow(p, c[i - 1], rows[i]) # None
    BY <1>1, <2>1
  <2>3. \A x \in AllCounts, y \in Rows : y.op # "read" /\ ApplyRow(p, x, y) # None =>
          ApplyRow(p, x, y)[t] = Moved(x[t], y, t)
    BY AppliedMoves
  <2>4. ApplyRow(p, c[i - 1], rows[i])[t] = Moved(c[i - 1][t], rows[i], t)
    BY <2>1, <2>2, <2>3
  <2> QED BY <2>1, <2>4
<1>13. \A t \in Tables : c[Len(rows)][t] = Result(c[0][t], t, rows)
  BY <1>11, <1>12, TraceResult
<1> QED BY <1>1, <1>6, <1>7, <1>11, <1>13

-----------------------------------------------------------------------------
(* What is staged is what the log says.                                    *)

Content(d) ==
  LET h == d.message_hash
  IN  /\ d.Received <= MaxSeq
      /\ \A n \in 1..d.Received : h[n] \in Bodies
      /\ \A n \in DOMAIN d.inbox : n \in 1..d.Received /\ d.inbox[n] = h[n]
      /\ d.Phase # "stream" =>
           /\ \A n \in DOMAIN d.snapshot_rows : d.snapshot_rows[n] = h[n]
           /\ \A n \in 1..d.Received : h[n].kind # "transaction_rows"
      /\ d.Phase = "stream" =>
           /\ d.Applied > 0
           /\ \A n \in d.Applied + 1 .. d.Received : h[n].kind # "snapshot_rows"
      /\ d.Phase = "snapshot" => d.scope = h[1].scope

\* A generation starts with nothing staged.
LEMMA EmptyContent ==
  ASSUME NEW d, Empty(d)
  PROVE  Content(d)
<1>1. DOMAIN NoRow = {}
  BY DEF NoRow
<1> QED BY <1>1, TargetAssumption, SMT DEF Empty, Content

\* An admissible message is staged as it was received.
LEMMA AfterContent ==
  ASSUME NEW d, NEW m, MetaInv(d), Content(d), Contiguous(d, m), Batch(d, m.body),
         InPhase(d, m.body), Offered(m), m.body \in Bodies, m.seq <= MaxSeq
  PROVE  Content(After(d, m))
<1> DEFINE e == After(d, m)
           b == m.body
           R == d.Received
           h == d.message_hash
           g == e.message_hash
<1>1. /\ R \in Nat /\ d.Applied \in Nat /\ d.Applied <= R /\ m.seq = R + 1
      /\ Fields \subseteq DOMAIN d /\ DOMAIN h = 1..R
      /\ R = 0 <=> d.Phase = None
      /\ d.Phase # "stream" =>
           DOMAIN d.snapshot_rows = {n \in 1..R : h[n].kind = "snapshot_rows"}
  BY DEF MetaInv, Shape, Batched, Phased, Contiguous
<1>2. /\ e.Received = R + 1
      /\ e.Applied = IF b.kind \in Applies THEN R + 1 ELSE d.Applied
      /\ e.Phase = PhaseAfter(d, b)
  BY <1>1, AfterState
<1>3. /\ e.inbox = InboxAfter(d, m)
      /\ e.snapshot_rows = SnapshotAfter(d, m)
      /\ g[m.seq] = b
      /\ \A n \in DOMAIN h : n # m.seq => g[n] = h[n]
  BY <1>1, AfterStaging, ZenonT(40)
<1>4. e.scope = CASE b.kind = "snapshot_begin" -> b.scope
                  [] b.kind = "snapshot_end" -> {}
                  [] OTHER -> d.scope
  BY <1>1 DEF After, Fields
<1> HIDE DEF e
<1>5. g[R + 1] = b /\ \A n \in 1..R : g[n] = h[n]
  BY <1>1, <1>3, SMT
<1>6. /\ \A n \in 1..R : h[n] \in Bodies
      /\ \A n \in DOMAIN d.inbox : n \in 1..R /\ d.inbox[n] = h[n]
      /\ d.Phase # "stream" => /\ \A n \in DOMAIN d.snapshot_rows : d.snapshot_rows[n] = h[n]
                               /\ \A n \in 1..R : h[n].kind # "transaction_rows"
      /\ d.Phase = "stream" => /\ d.Applied > 0
                               /\ \A n \in d.Applied + 1 .. R : h[n].kind # "snapshot_rows"
      /\ d.Phase = "snapshot" => d.scope = h[1].scope
  BY DEF Content
<1>7. R = 0 <=> b.kind = "snapshot_begin"
  BY <1>1, SMT DEF Offered
<1> HIDE DEF b, R, h, g
<1>8. \A n \in 1..(R + 1) : n \in 1..R \/ n = R + 1
  BY <1>1, SMT
<1>9. \A n \in 1..R : n \in 1..(R + 1) /\ n # R + 1
  BY <1>1, SMT
<1>10. \A n \in 1..(R + 1) : g[n] \in Bodies
  BY <1>5, <1>6, <1>8 DEF b
<1>11. ASSUME NEW n \in DOMAIN e.inbox PROVE n \in 1..(R + 1) /\ e.inbox[n] = g[n]
  <2>1. R + 1 \in 1..(R + 1)
    BY <1>1, SMT
  <2>2. CASE b.kind \in Opens
    <3>1. b.kind \notin {"transaction_end", "file_end"}
      BY <2>2 DEF Opens
    <3>2. e.inbox = [k \in DOMAIN d.inbox \cup {R + 1} |-> IF k = R + 1 THEN b ELSE d.inbox[k]]
      BY <1>1, <1>3, <2>2, <3>1 DEF InboxAfter, b
    <3>3. n \in DOMAIN d.inbox \cup {R + 1}
      BY <3>2
    <3>4. e.inbox[n] = IF n = R + 1 THEN b ELSE d.inbox[n]
      BY <3>2, <3>3
    <3> QED BY <1>5, <1>6, <1>9, <2>1, <3>3, <3>4
  <2>3. CASE b.kind = "transaction_end"
    <3>1. e.inbox = [k \in DOMAIN d.inbox \ DOMAIN OfTransaction(d, b.tx) |-> d.inbox[k]]
      BY <1>3, <2>3 DEF InboxAfter, Opens, b
    <3>2. n \in DOMAIN d.inbox /\ e.inbox[n] = d.inbox[n]
      BY <3>1
    <3> QED BY <1>5, <1>6, <1>9, <3>2
  <2>4. CASE b.kind = "file_end"
    BY <1>3, <2>4 DEF InboxAfter, Opens, NoRow, b
  <2>5. CASE b.kind \notin Opens \cup {"transaction_end", "file_end"}
    <3>1. e.inbox = d.inbox
      BY <1>3, <2>5 DEF InboxAfter, b
    <3> QED BY <1>5, <1>6, <1>9, <3>1
  <2> QED BY <2>2, <2>3, <2>4, <2>5
<1>12. ASSUME e.Phase # "stream"
       PROVE  /\ \A n \in DOMAIN e.snapshot_rows : e.snapshot_rows[n] = g[n]
              /\ \A n \in 1..(R + 1) : g[n].kind # "transaction_rows"
  <2>1. d.Phase # "stream" /\ b.kind # "snapshot_end"
    BY <1>1, <1>2, <1>7, <1>12, TargetAssumption DEF PhaseAfter
  <2>2. b.kind # "transaction_rows"
    BY <2>1 DEF InPhase, b
  <2>3. ASSUME NEW n \in DOMAIN e.snapshot_rows PROVE e.snapshot_rows[n] = g[n]
    <3>1. CASE b.kind = "snapshot_rows"
      <4>1. e.snapshot_rows = [k \in DOMAIN d.snapshot_rows \cup {R + 1} |->
                                 IF k = R + 1 THEN b ELSE d.snapshot_rows[k]]
        <5>1. SnapshotAfter(d, m) = [k \in DOMAIN d.snapshot_rows \cup {m.seq} |->
                                       IF k = m.seq THEN b ELSE d.snapshot_rows[k]]
          BY <3>1 DEF SnapshotAfter, b
        <5>2. m.seq = R + 1 /\ e.snapshot_rows = SnapshotAfter(d, m)
          BY <1>1, <1>3
        <5> QED BY <5>1, <5>2
      <4>2. n \in DOMAIN d.snapshot_rows \cup {R + 1}
        BY <4>1
      <4>3. e.snapshot_rows[n] = IF n = R + 1 THEN b ELSE d.snapshot_rows[n]
        BY <4>1, <4>2
      <4> QED BY <1>1, <1>5, <1>6, <2>1, <4>2, <4>3
    <3>2. CASE b.kind = "snapshot_begin"
      BY <1>3, <3>2 DEF SnapshotAfter, NoRow, b
    <3>3. CASE b.kind \notin {"snapshot_rows", "snapshot_begin"}
      <4>1. e.snapshot_rows = d.snapshot_rows
        BY <1>3, <2>1, <3>3 DEF SnapshotAfter, b
      <4> QED BY <1>1, <1>5, <1>6, <2>1, <4>1
    <3> QED BY <3>1, <3>2, <3>3
  <2> QED BY <1>5, <1>6, <1>8, <2>1, <2>2, <2>3
<1>13. ASSUME e.Phase = "stream"
       PROVE  /\ e.Applied > 0
              /\ \A n \in e.Applied + 1 .. R + 1 : g[n].kind # "snapshot_rows"
  <2>1. CASE b.kind \in Applies
    BY <1>1, <1>2, <2>1, SMT
  <2>2. CASE b.kind \notin Applies
    <3>1. d.Phase = "stream" /\ e.Applied = d.Applied /\ b.kind # "snapshot_rows"
      BY ZenonT(40), <1>2, <1>13, <2>2, TargetAssumption DEF PhaseAfter, Applies, InPhase, b
    <3>2. \A n \in d.Applied + 1 .. R + 1 : (n \in 1..R /\ n \in d.Applied + 1 .. R) \/ n = R + 1
      BY <1>1, SMT
    <3> QED BY <1>5, <1>6, <3>1, <3>2
  <2> QED BY <2>1, <2>2
<1>14. ASSUME e.Phase = "snapshot" PROVE e.scope = g[1].scope
  <2>1. CASE b.kind = "snapshot_begin"
    <3>1. R = 0 /\ 0 + 1 = 1
      BY <1>7, <2>1, SMT
    <3> QED BY <1>4, <1>5, <2>1, <3>1
  <2>2. CASE b.kind # "snapshot_begin"
    <3>1. d.Phase = "snapshot" /\ b.kind # "snapshot_end"
      BY <1>2, <1>14, <2>2 DEF PhaseAfter
    <3>2. 1 \in 1..R
      BY <1>1, <1>7, <2>2, SMTT(30)
    <3> QED BY <1>4, <1>5, <1>6, <2>2, <3>1, <3>2
  <2> QED BY <2>1, <2>2
<1>15. R + 1 <= MaxSeq
  BY <1>1
<1> QED BY <1>2, <1>10, <1>11, <1>12, <1>13, <1>14, <1>15 DEF Content, g, e

-----------------------------------------------------------------------------
(* The business tables.                                                    *)

Changes == {row \in Rows : row.op # "read"}

\* The first n messages of a log, and those another log begins with.
Bodied(g, n) == \A k \in 1..n : g[k] \in Bodies
Begins(h, g, n) == \A k \in 1..n : h[k] = g[k]

\* The rows of the first n messages of the log h.
RowLists(h, n) == [k \in 1..n |-> RowsOf(h[k])]
Log(h, n) == Joined(RowLists(h, n), n)

\* Of the lists C, up to M, those after a and up to N are what the log says.
StagedAs(C, g, a, N, M) ==
  \A k \in 1..M : /\ k \in (a + 1)..N => C[k] = RowsOf(g[k])
                  /\ k \notin (a + 1)..N => C[k] = <<>>

\* The first N messages of g add the lists C to the first a of h.
Added(g, N, h, a, C, M) ==
  Joined(C, M) \in Seq(Changes) /\ Log(g, N) = Log(h, a) \o Joined(C, M)

\* Lists of changes are lists of rows.
LEMMA ChangesAreRows ==
  ASSUME NEW rows \in Seq(Changes)
  PROVE  rows \in Seq(Rows) /\ \A i \in DOMAIN rows : rows[i].op # "read"
<1>1. /\ \A i \in DOMAIN rows : rows[i] \in Changes
      /\ DOMAIN rows = 1..Len(rows) /\ Len(rows) \in Nat /\ rows \in [1..Len(rows) -> Changes]
  BY SMT
<1>2. \A i \in DOMAIN rows : rows[i] \in Rows /\ rows[i].op # "read"
  BY <1>1 DEF Changes
<1>3. rows \in [1..Len(rows) -> Rows]
  BY <1>1, <1>2
<1> QED BY <1>1, <1>2, <1>3, SMTT(30)

\* A message brings a list of changes.
LEMMA RowsOfType ==
  ASSUME NEW b \in Bodies
  PROVE  RowsOf(b) \in Seq(Changes) /\ AsInserts(b.rows) \in Seq(Changes)
<1>1. b.rows \in Seq(Rows)
  BY BodyAssumption
<1>2. Len(b.rows) \in Nat /\ DOMAIN b.rows = 1..Len(b.rows) /\ \A i \in 1..Len(b.rows) : b.rows[i] \in Rows
  BY <1>1, SMT
<1>3. AsInserts(b.rows) \in Seq(Changes)
  <2>1. \A x \in Rows : [x EXCEPT !.op = "insert"] \in Changes
    BY DEF Rows, Changes
  <2>2. AsInserts(b.rows) = [i \in 1..Len(b.rows) |-> [b.rows[i] EXCEPT !.op = "insert"]]
    BY <1>2 DEF AsInserts
  <2>3. AsInserts(b.rows) \in [1..Len(b.rows) -> Changes]
    BY <1>2, <2>1, <2>2
  <2> QED BY <1>2, <2>3, SMT
<1>4. ASSUME b.kind = "transaction_rows" PROVE b.rows \in Seq(Changes)
  <2>1. \A i \in 1..Len(b.rows) : b.rows[i] \in Changes
    BY <1>2, <1>4, BodyAssumption DEF Changes
  <2> QED BY <1>1, <1>2, <2>1, SMT
<1>5. <<>> \in Seq(Changes)
  BY SMT
<1>6. RowsOf(b) \in Seq(Changes)
  <2>1. CASE b.kind = "snapshot_rows"
    BY <1>3, <2>1 DEF RowsOf
  <2>2. CASE b.kind = "transaction_rows"
    BY <1>4, <2>2 DEF RowsOf
  <2>3. CASE b.kind \notin {"snapshot_rows", "transaction_rows"}
    BY <1>5, <2>3 DEF RowsOf
  <2> QED BY <2>1, <2>2, <2>3
<1> QED BY <1>3, <1>6

\* The log is a list of changes, and its beginning does not change.
LEMMA LogType ==
  ASSUME NEW g, NEW n \in Nat, Bodied(g, n)
  PROVE  Log(g, n) \in Seq(Changes)
<1> DEFINE G == RowLists(g, n)
<1>1. Lists(G, n, Changes)
  BY RowsOfType DEF Lists, Bodied, RowLists
<1>2. n \in 0..n
  BY SMT
<1> HIDE DEF G
<1> QED BY <1>1, <1>2, JoinedSteps DEF Log, G

\* The beginning of a log stays as it is when the log grows.
LEMMA LogBegins ==
  ASSUME NEW g, NEW h, NEW N \in Nat, NEW a \in 0..N,
         Bodied(g, N), Begins(h, g, a)
  PROVE  Joined(RowLists(g, N), a) = Log(h, a)
<1> DEFINE G == RowLists(g, N)
           H == RowLists(h, a)
<1>1. a \in Nat /\ \A k \in 1..a : k \in 1..N
  BY SMT
<1>2. \A k \in 1..a : G[k] = H[k] /\ G[k] \in Seq(Changes)
  BY <1>1, RowsOfType DEF Bodied, Begins, RowLists
<1>3. Lists(G, a, Changes) /\ Lists(H, a, Changes)
  BY <1>2 DEF Lists
<1> HIDE DEF G, H
<1>4. Joined(G, a) = Joined(H, a)
  BY <1>1, <1>2, <1>3, JoinedSame
<1> QED BY <1>4 DEF G, H, Log

\* Messages without rows leave the log's rows as they are ...
LEMMA LogKept ==
  ASSUME NEW g, NEW h, NEW N \in Nat, NEW a \in 0..N,
         Bodied(g, N), Begins(h, g, a),
         \A k \in (a + 1)..N : RowsOf(g[k]) = <<>>
  PROVE  Log(g, N) = Log(h, a)
<1> DEFINE G == RowLists(g, N)
<1>1. Lists(G, N, Changes)
  BY RowsOfType DEF Lists, Bodied, RowLists
<1>2. \A k \in (a + 1)..N : k \in 1..N
  BY SMT
<1>3. \A k \in (a + 1)..N : G[k] = <<>>
  BY <1>2 DEF RowLists
<1>4. Joined(G, a) = Log(h, a)
  BY LogBegins
<1> HIDE DEF G
<1>5. Joined(G, N) = Joined(G, a)
  <2>1. EmptyAfter(G, a, N)
    BY <1>3 DEF EmptyAfter
  <2> QED BY <1>1, <2>1, JoinedNothing, ZenonT(40)
<1> QED BY <1>4, <1>5 DEF Log, G

\* ... and a batch, all of whose rows are staged in C, is appended to them.
LEMMA LogExtended ==
  ASSUME NEW g, NEW h, NEW M \in Nat, NEW N \in 0..M, NEW a \in 0..N, NEW C,
         Bodied(g, N), Begins(h, g, a),
         StagedAs(C, g, a, N, M)
  PROVE  Added(g, N, h, a, C, M)
<1> DEFINE G == RowLists(g, N)
<1>0. N \in Nat /\ a \in Nat
  BY SMT
<1>1. /\ 0 \in 0..a
      /\ \A k \in 1..N : k \in 1..M
      /\ \A k \in (a + 1)..N : k \in 1..N
      /\ \A k \in (0 + 1)..a : k \in 1..M /\ k \notin (a + 1)..N
      /\ \A k \in (N + 1)..M : k \in 1..M /\ k \notin (a + 1)..N
  BY SMT
<1>2. /\ Lists(G, N, Changes) /\ Lists(C, N, Changes) /\ Lists(C, a, Changes)
      /\ Lists(C, M, Changes)
  <2>1. <<>> \in Seq(Changes) /\ \A k \in 1..a : k \in 1..M
    BY SMT
  <2>2. \A k \in 1..N : RowsOf(g[k]) \in Seq(Changes)
    BY RowsOfType DEF Bodied
  <2>3. Lists(C, M, Changes)
    BY <1>1, <2>1, <2>2 DEF Lists, StagedAs
  <2> QED BY <1>1, <2>1, <2>2, <2>3 DEF Lists, RowLists
<1>3. Joined(G, a) = Log(h, a)
  BY <1>0, LogBegins
<1>4. Joined(C, a) = <<>>
  <2>1. \A k \in (0 + 1)..a : C[k] = <<>>
    BY <1>1 DEF StagedAs
  <2>2. PICK o \in 0..a : o = 0
    BY <1>1
  <2>3. Joined(C, a) = Joined(C, o)
    <3>1. EmptyAfter(C, o, a)
      BY <2>1, <2>2 DEF EmptyAfter
    <3>2. Lists(C, a, Changes)
      BY <1>2
    <3> QED BY <1>0, <3>1, <3>2, JoinedNothing, ZenonT(90)
  <2>4. Joined(C, 0) = <<>>
    BY <1>2, JoinedSteps
  <2> QED BY <2>2, <2>3, <2>4
<1>5. \A k \in (a + 1)..N : G[k] = C[k]
  BY <1>1 DEF RowLists, StagedAs
<1> HIDE DEF G
<1>6. SameAfter(G, C, a, N)
  BY <1>4, <1>5 DEF SameAfter
<1>7. Continued(G, C, a, N)
  BY <1>0, <1>2, <1>6, JoinedTail
<1>8. Joined(C, M) = Joined(C, N)
  <2>1. EmptyAfter(C, N, M)
    BY <1>1 DEF EmptyAfter, StagedAs
  <2> QED BY <1>2, <2>1, JoinedNothing, ZenonT(40)
<1>9. Joined(C, M) \in Seq(Changes)
  <2>1. M \in 0..M
    BY SMT
  <2> QED BY <1>2, <2>1, JoinedSteps
<1> QED BY <1>3, <1>7, <1>8, <1>9 DEF Added, Continued, Log, G

\* The lists InOrder joins.
Chunks(chunks) == [n \in 1..MaxSeq |-> IF n \in DOMAIN chunks THEN chunks[n].rows ELSE <<>>]

\* g is the log after the message m with content b.
Grown(d, g, b) == Begins(d.message_hash, g, d.Received) /\ g[d.Received + 1] = b

\* The rows transaction_end applies are those of the messages after applied_seq.
LEMMA TransactionStaged ==
  ASSUME NEW d, NEW g, NEW b \in Bodies, MetaInv(d), Content(d), Batch(d, b),
         d.Phase = "stream", b.kind = "transaction_end", Grown(d, g, b)
  PROVE  StagedAs(Chunks(OfTransaction(d, b.tx)), g, d.Applied, d.Received + 1, MaxSeq)
<1> DEFINE R == d.Received
           A == d.Applied
           h == d.message_hash
           C == Chunks(OfTransaction(d, b.tx))
<1>1. /\ R \in Nat /\ A \in Nat /\ A <= R
      /\ DOMAIN d.inbox = {n \in A + 1 .. R : h[n].kind \in Opens}
      /\ \A n \in DOMAIN d.inbox : d.inbox[n].tx = d.OpenTransaction
  BY DEF MetaInv, Shape, Batched
<1>2. /\ \A n \in 1..R : h[n] \in Bodies
      /\ \A n \in DOMAIN d.inbox : d.inbox[n] = h[n]
      /\ \A n \in A + 1 .. R : h[n].kind # "snapshot_rows"
  BY DEF Content
<1>3. (\A n \in 1..R : h[n] = g[n]) /\ g[R + 1] = b
  BY DEF Grown, Begins
<1>4. d.OpenTransaction = b.tx
  BY DEF Batch, Closes
<1>5. /\ DOMAIN OfTransaction(d, b.tx) = DOMAIN d.inbox
      /\ \A n \in DOMAIN d.inbox : OfTransaction(d, b.tx)[n] = h[n]
  BY <1>1, <1>2, <1>4 DEF OfTransaction
<1>6. ASSUME NEW k \in 1..MaxSeq
      PROVE  /\ k \in DOMAIN d.inbox => C[k] = h[k].rows
             /\ k \notin DOMAIN d.inbox => C[k] = <<>>
  BY <1>5 DEF Chunks
<1> HIDE DEF R, A, h, C
<1>7. ASSUME NEW k \in 1..MaxSeq, k \notin (A + 1)..(R + 1) PROVE C[k] = <<>>
  <2>1. k \notin A + 1 .. R
    BY <1>1, <1>7, SMT
  <2> QED BY <1>1, <1>6, <2>1
<1>8. ASSUME NEW k \in 1..MaxSeq, k \in (A + 1)..(R + 1) PROVE C[k] = RowsOf(g[k])
  <2>1. CASE k = R + 1
    <3>1. k \notin A + 1 .. R
      BY <1>1, <2>1, SMTT(30)
    <3>2. RowsOf(b) = <<>>
      BY DEF RowsOf
    <3> QED BY <1>1, <1>3, <1>6, <2>1, <3>1, <3>2, ZenonT(40)
  <2>2. CASE k # R + 1
    <3>1. k \in A + 1 .. R /\ k \in 1..R
      BY <1>1, <1>8, <2>2, SMTT(30)
    <3>2. g[k] = h[k] /\ h[k] \in Bodies /\ h[k].kind # "snapshot_rows"
      BY <1>2, <1>3, <3>1
    <3>3. CASE h[k].kind = "transaction_rows"
      <4>1. RowsOf(h[k]) = h[k].rows
        BY <3>3 DEF RowsOf
      <4>2. k \in DOMAIN d.inbox
        BY <1>1, <3>1, <3>3 DEF Opens
      <4> QED BY <1>6, <3>2, <4>1, <4>2
    <3>4. CASE h[k].kind # "transaction_rows"
      <4>1. RowsOf(h[k]) = <<>>
        BY <3>2, <3>4 DEF RowsOf
      <4>2. k \in DOMAIN d.inbox => h[k].rows = <<>>
        BY <1>1, <3>2, <3>4, BodyAssumption DEF Opens
      <4> QED BY <1>6, <3>2, <4>1, <4>2
    <3> QED BY <3>3, <3>4
  <2> QED BY <2>1, <2>2
<1> QED BY <1>7, <1>8 DEF StagedAs, R, A, C

\* The rows snapshot_end inserts are those of all messages before it.
LEMMA SnapshotStaged ==
  ASSUME NEW d, NEW g, NEW b \in Bodies, MetaInv(d), Content(d), d.Received + 1 <= MaxSeq,
         d.Phase = "snapshot", b.kind = "snapshot_end", Grown(d, g, b)
  PROVE  \E C : /\ StagedAs(C, g, 0, d.Received + 1, MaxSeq)
                /\ AsInserts(InOrder(d.snapshot_rows)) = Joined(C, MaxSeq)
<1> DEFINE R == d.Received
           h == d.message_hash
           G == Chunks(d.snapshot_rows)
           C == [k \in 1..MaxSeq |-> AsInserts(G[k])]
<1>0. AsInserts(<<>>) = <<>> /\ <<>> \in Seq(Rows)
  BY SMT DEF AsInserts
<1>1. R \in Nat /\ DOMAIN d.snapshot_rows = {n \in 1..R : h[n].kind = "snapshot_rows"}
  BY DEF MetaInv, Shape, Batched
<1>2. /\ \A n \in 1..R : h[n] \in Bodies /\ h[n].kind # "transaction_rows"
      /\ \A n \in DOMAIN d.snapshot_rows : d.snapshot_rows[n] = h[n]
  BY DEF Content
<1>3. (\A n \in 1..R : h[n] = g[n]) /\ g[R + 1] = b
  BY DEF Grown, Begins
<1>4. ASSUME NEW k \in 1..MaxSeq
      PROVE  /\ k \in DOMAIN d.snapshot_rows => G[k] = h[k].rows
             /\ k \notin DOMAIN d.snapshot_rows => G[k] = <<>>
  BY <1>2 DEF Chunks
<1>5. Lists(G, MaxSeq, Rows)
  <2>1. \A k \in DOMAIN d.snapshot_rows : h[k].rows \in Seq(Rows)
    BY <1>1, <1>2, BodyAssumption
  <2> HIDE DEF G, h
  <2> QED BY <1>0, <1>4, <2>1 DEF Lists
<1>6. InOrder(d.snapshot_rows) = Joined(G, MaxSeq)
  BY DEF InOrder, Chunks
<1> HIDE DEF G
<1>7. \A k \in 1..MaxSeq : C[k] = AsInserts(G[k])
  OBVIOUS
<1> HIDE DEF C, R, h
<1>8. AsInserts(Joined(G, MaxSeq)) = Joined(C, MaxSeq)
  BY <1>5, <1>7, JoinedInserts, TargetAssumption
<1>9. ASSUME NEW k \in 1..MaxSeq, k \notin (0 + 1)..(R + 1) PROVE C[k] = <<>>
  <2>1. k \notin 1..R
    BY <1>1, <1>9, TargetAssumption, SMTT(30)
  <2> QED BY ZenonT(40), <1>0, <1>1, <1>4, <1>7, <2>1
<1>10. ASSUME NEW k \in 1..MaxSeq, k \in (0 + 1)..(R + 1) PROVE C[k] = RowsOf(g[k])
  <2>1. CASE k = R + 1
    <3>1. k \notin 1..R
      BY <1>1, <2>1, SMTT(30)
    <3>2. RowsOf(b) = <<>>
      BY DEF RowsOf
    <3> QED BY <1>0, <1>1, <1>3, <1>4, <1>7, <2>1, <3>1, <3>2, ZenonT(40)
  <2>2. CASE k # R + 1
    <3>1. k \in 1..R
      BY <1>1, <1>10, <2>2, SMTT(30)
    <3>2. g[k] = h[k] /\ h[k].kind # "transaction_rows"
      BY <1>2, <1>3, <3>1
    <3>3. CASE h[k].kind = "snapshot_rows"
      <4>1. RowsOf(h[k]) = AsInserts(h[k].rows)
        BY <3>3 DEF RowsOf
      <4> QED BY <1>1, <1>4, <1>7, <3>1, <3>2, <3>3, <4>1, ZenonT(40)
    <3>4. CASE h[k].kind # "snapshot_rows"
      <4>1. RowsOf(h[k]) = <<>>
        BY <3>2, <3>4 DEF RowsOf
      <4> QED BY <1>0, <1>1, <1>4, <1>7, <3>2, <3>4, <4>1, ZenonT(40)
    <3> QED BY <3>3, <3>4
  <2> QED BY <2>1, <2>2
<1>11. StagedAs(C, g, 0, R + 1, MaxSeq)
  BY <1>9, <1>10 DEF StagedAs
<1> QED BY <1>6, <1>8, <1>11 DEF R

\* A message that applies no rows comes when no rows are staged.
LEMMA NothingStaged ==
  ASSUME NEW d, NEW g, NEW b \in Bodies, MetaInv(d), Content(d), Batch(d, b), Barrier(d, b),
         d.Phase = "stream", b.kind \in {"schema_end", "file_end", "file_delete"}, Grown(d, g, b),
         b.kind = "file_end" => FileComplete(d, b)
  PROVE  \A k \in (d.Applied + 1)..(d.Received + 1) : RowsOf(g[k]) = <<>>
<1> DEFINE R == d.Received
           A == d.Applied
           h == d.message_hash
<1>1. /\ R \in Nat /\ A \in Nat /\ A <= R
      /\ DOMAIN d.inbox = {n \in A + 1 .. R : h[n].kind \in Opens}
      /\ d.OpenTransaction = None => DOMAIN d.inbox = {}
      /\ d.Pending # None => d.OpenTransaction = None
  BY DEF MetaInv, Shape, Batched
<1>2. /\ \A n \in DOMAIN d.inbox : d.inbox[n] = h[n]
      /\ \A n \in A + 1 .. R : h[n].kind # "snapshot_rows"
  BY DEF Content
<1>3. (\A n \in 1..R : h[n] = g[n]) /\ g[R + 1] = b
  BY DEF Grown, Begins
<1>4. \A n \in DOMAIN d.inbox : h[n].kind # "transaction_rows"
  <2>1. CASE b.kind = "schema_end"
    BY <1>1, <2>1 DEF Barrier
  <2>2. CASE b.kind = "file_delete"
    BY <1>1, <2>2 DEF Batch
  <2>3. CASE b.kind = "file_end"
    <3>1. \A n \in DOMAIN d.inbox : d.inbox[n].kind \in {"file_begin", "file_chunk"}
      BY <2>3 DEF FileComplete
    <3> QED BY <1>2, <3>1
  <2> QED BY <2>1, <2>2, <2>3
<1> HIDE DEF R, A, h
<1>5. ASSUME NEW k \in (A + 1)..(R + 1) PROVE RowsOf(g[k]) = <<>>
  <2>1. CASE k = R + 1
    BY <1>3, <2>1 DEF RowsOf
  <2>2. CASE k # R + 1
    <3>1. k \in A + 1 .. R /\ k \in 1..R
      BY <1>1, <2>2, SMTT(30)
    <3>2. h[k].kind \notin {"transaction_rows", "snapshot_rows"}
      BY <1>1, <1>2, <1>4, <3>1 DEF Opens
    <3> QED BY <1>3, <3>1, <3>2, ZenonT(40) DEF RowsOf
  <2> QED BY <2>1, <2>2
<1> QED BY <1>5 DEF R, A

Zero == [v \in Values |-> 0]

\* The tables of a snapshot hold the results of the log's rows up to applied_seq.
Reflects(tb, d) ==
  d.Applied > 0 => \A t \in d.message_hash[1].scope : tb[t] = Result(Zero, t, Log(d.message_hash, d.Applied))

TablesInv == Content(db) /\ tables \in AllCounts /\ Reflects(tables, db)

\* A committed message leaves the tables as the log says.
LEMMA StoreTables ==
  ASSUME MetaInv(db), TablesInv, NEW m \in Messages, m.seq <= MaxSeq, NEW p, Offered(m), Store(p, m)
  PROVE  TablesInv'
<1> DEFINE d == Current(m)
           b == m.body
           e == After(d, m)
           R == d.Received
           A == d.Applied
           h == d.message_hash
           g == e.message_hash
           T == TablesAfter(p, d, b)
           rows == RowsApplied(d, b)
           start == IF b.kind = "snapshot_end" THEN Cleared(d.scope) ELSE tables
<1>1. /\ db' = e /\ tables' = T /\ T # None
      /\ Contiguous(d, m) /\ Barrier(d, b) /\ Batch(d, b) /\ InPhase(d, b)
      /\ b.kind = "file_end" => FileComplete(d, b)
  BY DEF Store, Commits, Admissible, Succeeds
<1>2. b \in Bodies
  BY DEF Messages
<1>3. MetaInv(d) /\ Content(d) /\ Reflects(tables, d)
  <2>1. CASE d = db
    BY <2>1 DEF TablesInv
  <2>2. CASE d # db
    <3>1. Empty(d)
      BY <2>2, FreshEmpty DEF Current
    <3> HIDE DEF d
    <3>2. ~ (d.Applied > 0)
      BY <3>1, SMT DEF Empty
    <3> QED BY <3>1, <3>2, EmptyInv, EmptyContent DEF Reflects
  <2> QED BY <2>1, <2>2
<1> HIDE DEF d
<1>4. /\ R \in Nat /\ A \in Nat /\ A <= R /\ m.seq = R + 1 /\ R + 1 <= MaxSeq
      /\ Fields \subseteq DOMAIN d /\ DOMAIN h = 1..R
  BY <1>1, <1>3 DEF MetaInv, Shape, Batched, Contiguous
<1>5. /\ e.Applied = IF b.kind \in Applies THEN R + 1 ELSE A
      /\ g[m.seq] = b
      /\ \A n \in DOMAIN h : n # m.seq => g[n] = h[n]
  <2>1. e.Applied = IF b.kind \in Applies THEN m.seq ELSE A
    BY <1>4, AfterState
  <2>2. g[m.seq] = b /\ \A n \in DOMAIN h : n # m.seq => g[n] = h[n]
    BY ZenonT(40), <1>4, AfterStaging
  <2> QED BY <1>4, <2>1, <2>2
<1>6. Content(e)
  BY <1>1, <1>2, <1>3, AfterContent
<1> HIDE DEF e
<1>7. Begins(h, g, R) /\ g[R + 1] = b /\ Grown(d, g, b)
  <2>1. \A n \in 1..R : n # R + 1
    BY <1>4, SMT
  <2> QED BY <1>4, <1>5, <2>1 DEF Begins, Grown
<1>8. Bodied(g, R + 1)
  <2>1. \A n \in 1..R : h[n] \in Bodies
    BY <1>3 DEF Content
  <2>2. \A n \in 1..(R + 1) : n \in 1..R \/ n = R + 1
    BY <1>4, SMTT(30)
  <2> QED BY <1>2, <1>7, <2>1, <2>2 DEF Bodied, Begins
<1>9. /\ R + 1 \in Nat /\ A \in 0..R + 1 /\ 0 \in 0..R + 1 /\ R + 1 \in 0..MaxSeq /\ MaxSeq \in Nat
      /\ \A n \in 1..A : n \in 1..R
  BY <1>4, TargetAssumption, SMT
<1>10. Begins(h, g, A)
  BY <1>7, <1>9 DEF Begins
<1>11. A > 0 => g[1] = h[1]
  <2>1. A > 0 => 1 \in 1..R
    BY <1>4, SMT
  <2> QED BY <1>7, <2>1 DEF Begins
<1>12. T = ApplyRows(p, start, rows)
  BY DEF TablesAfter
<1>13. Zero \in Counts /\ tables \in AllCounts /\ start \in AllCounts
  <2>1. Zero \in Counts
    BY SMT DEF Zero, Counts
  <2>2. Cleared(d.scope) = [t \in Tables |-> IF t \in d.scope THEN Zero ELSE tables[t]]
    BY DEF Cleared, Zero
  <2>3. Cleared(d.scope) \in AllCounts
    BY <2>1, <2>2 DEF AllCounts, TablesInv
  <2> QED BY <2>1, <2>3 DEF TablesInv
<1> HIDE DEF T, rows, start, h, g, R, A, b
<1>14. ASSUME rows \in Seq(Changes)
       PROVE  T \in AllCounts /\ \A t \in Tables : T[t] = Result(start[t], t, rows)
  <2>1. rows \in Seq(Rows) /\ \A i \in DOMAIN rows : rows[i].op # "read"
    BY <1>14, ChangesAreRows
  <2> QED BY <1>1, <1>12, <1>13, <2>1, AppliedResult
<1>15. \A n \in 1..(R + 1) : g[n].scope \subseteq Tables
  BY <1>8, BodyAssumption DEF Bodied
<1>16. 1 \in 1..(R + 1)
  BY <1>4, SMT
<1>17. CASE b.kind = "transaction_end"
  <2> DEFINE C == Chunks(OfTransaction(d, b.tx))
  <2>1. d.Phase = "stream" /\ A > 0
    <3>1. d.Phase = "stream"
      BY <1>1, <1>17 DEF InPhase
    <3> QED BY <1>3, <3>1 DEF Content, A
  <2>2. rows = Joined(C, MaxSeq)
    BY <1>17 DEF RowsApplied, InOrder, Chunks, rows
  <2>3. StagedAs(C, g, A, R + 1, MaxSeq)
    BY <1>1, <1>2, <1>3, <1>7, <1>17, <2>1, TransactionStaged, ZenonT(40) DEF R, A, b
  <2> HIDE DEF C
  <2>4. rows \in Seq(Changes) /\ Log(g, R + 1) = Log(h, A) \o rows
    <3>1. Added(g, R + 1, h, A, C, MaxSeq)
      BY <1>8, <1>9, <1>10, <2>3, LogExtended
    <3> QED BY <2>2, <3>1 DEF Added
  <2>5. Log(h, A) \in Seq(Rows) /\ rows \in Seq(Rows)
    <3>1. Bodied(h, A)
      BY <1>3, <1>9 DEF Content, Bodied, h, R
    <3>2. A \in Nat
      BY <1>4
    <3> QED BY <2>4, <3>1, <3>2, LogType, ChangesAreRows
  <2>6. ASSUME NEW t \in g[1].scope PROVE T[t] = Result(Zero, t, Log(g, R + 1))
    <3>1. t \in Tables /\ start = tables
      BY <1>15, <1>16, <1>17, <2>6 DEF start
    <3>2. tables[t] = Result(Zero, t, Log(h, A))
      BY <1>3, <1>11, <2>1, <2>6 DEF Reflects, h, A
    <3>3. T[t] = Result(Result(Zero, t, Log(h, A)), t, rows)
      BY <1>14, <2>4, <3>1, <3>2
    <3>4. Result(Zero, t, Log(h, A) \o rows) = Result(Result(Zero, t, Log(h, A)), t, rows)
      <4>1. Composes(Zero, t, Log(h, A), rows)
        BY <1>13, <2>5, ResultOfBoth
      <4> QED BY <4>1 DEF Composes
    <3> QED BY <2>4, <3>3, <3>4
  <2>7. e.Applied = R + 1
    BY <1>5, <1>17 DEF Applies
  <2> QED BY <1>1, <1>6, <1>14, <2>4, <2>6, <2>7, ZenonT(40) DEF TablesInv, Reflects, g
<1>18. CASE b.kind = "snapshot_end"
  <2>1. d.Phase = "snapshot"
    BY <1>1, <1>18 DEF InPhase
  <2>2. PICK C : /\ StagedAs(C, g, 0, R + 1, MaxSeq)
                 /\ AsInserts(InOrder(d.snapshot_rows)) = Joined(C, MaxSeq)
    BY ZenonT(40), <1>2, <1>3, <1>4, <1>7, <1>18, <2>1, SnapshotStaged DEF R
  <2>3. rows = Joined(C, MaxSeq)
    BY <1>18, <2>2 DEF RowsApplied, rows
  <2>4. PICK o \in 0..R + 1 : o = 0
    BY <1>9
  <2>5. Begins(h, g, o) /\ Log(h, o) = <<>>
    <3>1. \A n : ~ (n \in 1..0)
      BY SMT
    <3>2. Lists(RowLists(h, 0), 0, Changes) /\ 0 \in Nat
      BY <3>1, SMT DEF Lists
    <3>3. Log(h, 0) = <<>>
      BY <3>2, JoinedSteps DEF Log
    <3> QED BY <2>4, <3>1, <3>3 DEF Begins
  <2>6. rows \in Seq(Changes) /\ Log(g, R + 1) = Log(h, o) \o rows
    <3>1. StagedAs(C, g, o, R + 1, MaxSeq)
      BY <2>2, <2>4
    <3>2. Added(g, R + 1, h, o, C, MaxSeq)
      BY <1>8, <1>9, <2>5, <3>1, LogExtended
    <3> QED BY <2>3, <3>2 DEF Added
  <2>7. Log(g, R + 1) = rows
    BY <2>5, <2>6, ConcatEmptySeq
  <2>8. ASSUME NEW t \in g[1].scope PROVE T[t] = Result(Zero, t, rows)
    <3>1. t \in Tables
      BY <1>15, <1>16, <2>8
    <3>2. d.scope = g[1].scope
      <4>1. d.Phase # None
        BY <2>1, TargetAssumption
      <4>2. R # 0
        BY <1>3, <4>1 DEF MetaInv, Phased, R
      <4>3. 1 \in 1..R
        BY <1>4, <4>2, SMTT(30)
      <4> QED BY <1>3, <1>7, <2>1, <4>3 DEF Content, Begins, h
    <3>3. start[t] = Zero
      BY <1>18, <2>8, <3>1, <3>2 DEF start, Cleared, Zero
    <3> QED BY <1>14, <2>6, <3>1, <3>3
  <2>9. e.Applied = R + 1
    BY <1>5, <1>18 DEF Applies
  <2> QED BY <1>1, <1>6, <1>14, <2>6, <2>7, <2>8, <2>9, ZenonT(40) DEF TablesInv, Reflects, g
<1>19. CASE b.kind \notin {"transaction_end", "snapshot_end"}
  <2>1. rows = <<>> /\ start = tables
    BY <1>19 DEF RowsApplied, rows, start
  <2>2. <<>> \in Seq(Changes)
    BY SMT
  <2>3. T \in AllCounts /\ \A t \in Tables : T[t] = tables[t]
    <3>1. T \in AllCounts /\ \A t \in Tables : T[t] = Result(tables[t], t, <<>>)
      BY <1>14, <2>1, <2>2
    <3>2. \A t \in Tables : tables[t] \in Counts
      BY <1>13 DEF AllCounts
    <3> QED BY <3>1, <3>2, ResultNone
  <2>4. CASE b.kind \in Applies
    <3>1. b.kind \in {"schema_end", "file_end", "file_delete"}
      BY <1>19, <2>4 DEF Applies
    <3>2. d.Phase = "stream" /\ A > 0
      <4>1. d.Phase = "stream"
        BY <1>1, <3>1 DEF InPhase
      <4> QED BY <1>3, <4>1 DEF Content, A
    <3>3. \A k \in (A + 1)..(R + 1) : RowsOf(g[k]) = <<>>
      BY <1>1, <1>2, <1>3, <1>7, <3>1, <3>2, NothingStaged, ZenonT(40) DEF R, A, b
    <3>4. Log(g, R + 1) = Log(h, A)
      BY <1>8, <1>9, <1>10, <3>3, LogKept
    <3>5. ASSUME NEW t \in g[1].scope PROVE T[t] = Result(Zero, t, Log(g, R + 1))
      <4>1. t \in Tables
        BY ZenonT(40), <1>15, <1>16, <3>5
      <4>2. tables[t] = Result(Zero, t, Log(h, A))
        BY <1>3, <1>11, <3>2, <3>5 DEF Reflects, h, A
      <4> QED BY <2>3, <3>4, <4>1, <4>2
    <3>6. e.Applied = R + 1
      BY <1>5, <2>4
    <3> QED BY <1>1, <1>6, <2>3, <3>5, <3>6 DEF TablesInv, Reflects, g
  <2>5. CASE b.kind \notin Applies
    <3>1. e.Applied = A
      BY <1>5, <2>5
    <3>2. Log(g, A) = Log(h, A)
      <4>1. Bodied(g, A) /\ A \in Nat /\ A \in 0..A
        <5>1. A \in Nat /\ A \in 0..A /\ \A n \in 1..A : n \in 1..(R + 1)
          BY <1>4, SMT
        <5> QED BY <1>8, <5>1 DEF Bodied
      <4>2. \A k \in (A + 1)..A : RowsOf(g[k]) = <<>>
        BY <4>1, SMT
      <4> QED BY <1>10, <4>1, <4>2, LogKept
    <3>3. ASSUME A > 0, NEW t \in g[1].scope PROVE T[t] = Result(Zero, t, Log(g, A))
      <4>1. t \in Tables
        BY <1>15, <1>16, <3>3
      <4>2. tables[t] = Result(Zero, t, Log(h, A))
        BY <1>3, <1>11, <3>3 DEF Reflects, h, A
      <4> QED BY <2>3, <3>2, <4>1, <4>2
    <3> QED BY <1>1, <1>6, <2>3, <3>1, <3>3 DEF TablesInv, Reflects, g
  <2> QED BY <2>4, <2>5
<1> QED BY <1>17, <1>18, <1>19

\* After any deliveries, repetitions, failures and restarts, the tables of the
\* snapshot hold what the messages up to applied_seq say, each row counted once
\* (store, applyMessage, applyRow).
THEOREM RowsAppliedExactlyOnce == Spec => []AppliedExactlyOnce
<1>1. Init => TablesInv
  <2> SUFFICES ASSUME Init PROVE TablesInv
    OBVIOUS
  <2>1. Empty(db)
    BY FreshEmpty DEF Init
  <2>2. ~ (db.Applied > 0)
    BY <2>1, SMT DEF Empty
  <2>3. tables \in AllCounts
    BY SMT DEF Init, AllCounts, Counts
  <2> QED BY <2>1, <2>2, <2>3, EmptyContent DEF TablesInv, Reflects
<1>2. MetaInv(db) /\ TablesInv /\ [Next]_targetVars => TablesInv'
  <2> SUFFICES ASSUME MetaInv(db), TablesInv, [Next]_targetVars PROVE TablesInv'
    OBVIOUS
  <2>1. CASE db' = db /\ tables' = tables
    BY <2>1 DEF TablesInv, Reflects, Content
  <2>2. ASSUME NEW m \in Messages, Duplicate(m) PROVE db' = db /\ tables' = tables
    BY <2>2 DEF Duplicate
  <2>3. ASSUME NEW m \in Messages, NEW p \in Servers, RolledBack(p, m)
        PROVE  db' = db /\ tables' = tables
    BY <2>3 DEF RolledBack
  <2>4. ASSUME NEW p \in Servers, Restart(p) PROVE db' = db /\ tables' = tables
    BY <2>4 DEF Restart
  <2>5. UNCHANGED targetVars => db' = db /\ tables' = tables
    BY DEF targetVars
  <2>6. ASSUME NEW m \in Messages, m.seq <= MaxSeq, Arrives(m) PROVE TablesInv'
    BY <2>1, <2>2, <2>3, <2>6, StoreTables DEF Arrives
  <2> QED BY <2>1, <2>4, <2>5, <2>6, StepCases, ZenonT(40)
<1>3. MetaInv(db) /\ TablesInv => AppliedExactlyOnce
  <2> SUFFICES ASSUME MetaInv(db), TablesInv, db.Applied > 0, NEW t \in db.message_hash[1].scope
               PROVE  tables[t] = Expected(db.Applied)[t]
    BY DEF AppliedExactlyOnce
  <2>1. /\ db.Applied \in Nat /\ db.Received \in Nat /\ db.Applied <= db.Received
        /\ \A k \in 1..db.Received : db.message_hash[k] \in Bodies
    BY DEF MetaInv, Shape, Batched, TablesInv, Content
  <2>2. 1 \in 1..db.Received /\ \A k \in 1..db.Applied : k \in 1..db.Received
    BY <2>1, SMT
  <2>3. Bodied(db.message_hash, db.Applied)
    BY <2>1, <2>2 DEF Bodied
  <2>4. LogRows(db.Applied) = Log(db.message_hash, db.Applied)
    BY DEF LogRows, Log, RowLists
  <2>5. LogRows(db.Applied) \in Seq(Rows)
    BY <2>1, <2>3, <2>4, LogType, ChangesAreRows
  <2>6. t \in Tables
    BY <2>1, <2>2, BodyAssumption
  <2>7. Expected(db.Applied)[t] = Result(Zero, t, LogRows(db.Applied))
    BY <2>5, <2>6, ExpectedResult DEF Zero
  <2> QED BY <2>4, <2>7 DEF TablesInv, Reflects
<1> QED BY <1>1, <1>2, <1>3, Metadata, PTL DEF Spec
=============================================================================

---------------------------- MODULE QueueProofs -----------------------------
(***************************************************************************)
(* The queue's safety properties, for every size limit, archive limit,     *)
(* message and bound.                                                      *)
(*                                                                         *)
(* The properties support each other, so the inductive invariant is their  *)
(* conjunction.  WithinLimits needs ByteAccounting (an Ack subtracts the   *)
(* length of a message that must have been counted), ByteAccounting needs  *)
(* NoGap (Recover and the eviction loop must meet every message of a       *)
(* range), and NoGap needs CursorOrder.                                    *)
(*                                                                         *)
(* The module begins with lemmas about Upto and Total, the sums of message *)
(* lengths that the byte accounting is stated with.                        *)
(***************************************************************************)
EXTENDS Queue, WellFoundedInduction, SequenceTheorems, TLAPS

\* The default prover, for the leaves that name none.
USE Zenon

-----------------------------------------------------------------------------
(* Induction over the naturals.                                            *)

\* The natural order is well founded.
LEMMA NatWellFounded ==
  IsWellFoundedOn({ss \in Nat \X Nat : ss[1] < ss[2]}, Nat)
  BY NatLessThanWellFounded, Zenon DEF OpToRel

\* A set of naturals that is not empty has a least element.
LEMMA LeastElement ==
  ASSUME NEW T, T \subseteq Nat, T # {}
  PROVE  \E x \in T : \A y \in T : x <= y
<1> DEFINE R == {ss \in Nat \X Nat : ss[1] < ss[2]}
<1>1. PICK x \in T : \A y \in T : ~ (<<y, x>> \in R)
  <2> HIDE DEF R
  <2> QED BY NatWellFounded, WFMin, Zenon DEF R
<1>2. ASSUME NEW y \in T PROVE x <= y
  <2>1. x \in Nat /\ y \in Nat
    OBVIOUS
  <2>2. ~ (<<y, x>> \in R)
    BY <1>1
  <2>3. ~ (y < x)
    BY <2>1, <2>2
  <2> QED BY <2>1, <2>3, SMT
<1> QED BY <1>2

\* Induction over the naturals, for a property given as a set.
LEMMA SetInduction ==
  ASSUME NEW S, 0 \in S, \A n \in Nat : n \in S => n + 1 \in S
  PROVE  Nat \subseteq S
<1> DEFINE T == Nat \ S
<1> SUFFICES ASSUME T # {} PROVE FALSE
  OBVIOUS
<1>1. T \subseteq Nat
  OBVIOUS
<1>2. PICK x \in T : \A y \in T : x <= y
  <2> HIDE DEF T
  <2> QED BY <1>1, LeastElement, Zenon
<1>3. x \in Nat /\ x # 0
  OBVIOUS
<1>4. x - 1 \in Nat /\ x - 1 \in T
  BY <1>3, SMT
<1> QED BY <1>2, <1>3, <1>4, SMT

-----------------------------------------------------------------------------
(* Sums of message lengths.                                                *)

\* Items whose lengths are natural numbers (all that the lemmas need).
Sized(its) == \A n \in Nat : SizeAt(its, n) \in Nat

\* g is a table of the sums of its up to m.
Table(its, m, g) == /\ g \in [0..m -> Nat]
                    /\ \A k \in 0..m : g[k] = IF k = 0 THEN 0
                                              ELSE g[k-1] + SizeAt(its, k)

\* A table exists for every length ...
LEMMA TableExists ==
  ASSUME NEW its, Sized(its)
  PROVE  \A m \in Nat : \E g : Table(its, m, g)
<1> DEFINE S == {m \in Nat : \E g : Table(its, m, g)}
<1>1. 0 \in S
  <2>1. Table(its, 0, [k \in 0..0 |-> 0])
    BY SMT DEF Table
  <2> QED BY <2>1
<1>2. ASSUME NEW m \in Nat, m \in S PROVE m + 1 \in S
  <2>1. PICK g : Table(its, m, g)
    BY <1>2
  <2> DEFINE h == [k \in 0..(m+1) |-> IF k = m + 1 THEN g[m] + SizeAt(its, m+1)
                                                  ELSE g[k]]
  <2>2. SizeAt(its, m+1) \in Nat /\ g[m] \in Nat
    BY <2>1, SMT DEF Sized, Table
  <2>3. h \in [0..(m+1) -> Nat]
    BY <2>1, <2>2, SMT DEF Table
  <2>4. ASSUME NEW k \in 0..(m+1)
        PROVE  h[k] = IF k = 0 THEN 0 ELSE h[k-1] + SizeAt(its, k)
    <3>1. CASE k = m + 1
      BY <3>1, SMT
    <3>2. CASE k \in 0..m
      <4>1. h[k] = g[k] /\ (k # 0 => h[k-1] = g[k-1])
        BY <3>2, SMT
      <4> HIDE DEF h
      <4> QED BY <2>1, <3>2, <4>1 DEF Table
    <3> QED BY <3>1, <3>2, SMT
  <2>5. Table(its, m + 1, h)
    BY <2>3, <2>4 DEF Table
  <2> QED BY <2>5, SMT
<1>3. Nat \subseteq S
  <2> HIDE DEF S
  <2> QED BY <1>1, <1>2, SetInduction
<1> QED BY <1>3

\* ... and two tables agree wherever both are defined.
LEMMA TableUnique ==
  ASSUME NEW its, NEW m \in Nat, NEW n \in Nat, NEW g, NEW h,
         Table(its, m, g), Table(its, n, h)
  PROVE  \A k \in Nat : k <= m /\ k <= n => g[k] = h[k]
<1> DEFINE S == {k \in Nat : k <= m /\ k <= n => g[k] = h[k]}
<1>1. 0 \in S
  BY SMT DEF Table
<1>2. ASSUME NEW k \in Nat, k \in S PROVE k + 1 \in S
  BY <1>2, SMT DEF Table
<1>3. Nat \subseteq S
  <2> HIDE DEF S
  <2> QED BY <1>1, <1>2, SetInduction
<1> QED BY <1>3

\* Hence the recursive definition of Upto defines a function, and ...
LEMMA UptoExists ==
  ASSUME NEW its, Sized(its)
  PROVE  \E f : f = [n \in Nat |-> IF n = 0 THEN 0 ELSE f[n-1] + SizeAt(its, n)]
<1> DEFINE T(m) == CHOOSE g : Table(its, m, g)
           f == [n \in Nat |-> T(n)[n]]
<1>1. \A m \in Nat : Table(its, m, T(m))
  BY TableExists
<1> HIDE DEF T
<1>2. ASSUME NEW n \in Nat
      PROVE  f[n] = IF n = 0 THEN 0 ELSE f[n-1] + SizeAt(its, n)
  <2>1. CASE n = 0
    BY <1>1, <2>1, SMT DEF Table
  <2>2. CASE n # 0
    <3>1. n - 1 \in Nat /\ Table(its, n, T(n)) /\ Table(its, n-1, T(n-1))
      BY <1>1, <2>2, SMT
    <3>2. T(n)[n-1] = T(n-1)[n-1]
      BY <3>1, TableUnique, SMT
    <3>3. T(n)[n] = T(n)[n-1] + SizeAt(its, n)
      BY <2>2, <3>1, SMT DEF Table
    <3> QED BY <2>2, <3>1, <3>2, <3>3
  <2> QED BY <2>1, <2>2
<1>3. f = [n \in Nat |-> IF n = 0 THEN 0 ELSE f[n-1] + SizeAt(its, n)]
  BY <1>2
<1> QED BY <1>3, Zenon

\* ... that function satisfies its equation.
LEMMA UptoEquation ==
  ASSUME NEW its, Sized(its)
  PROVE  Upto(its) = [n \in Nat |-> IF n = 0 THEN 0
                                    ELSE Upto(its)[n-1] + SizeAt(its, n)]
  BY UptoExists DEF Upto

-----------------------------------------------------------------------------
(* What the accounting proofs use.                                         *)

\* Upto grows by one message at a time and stays a natural number.
LEMMA UptoStep ==
  ASSUME NEW its, Sized(its)
  PROVE  /\ Upto(its)[0] = 0
         /\ \A n \in Nat : /\ Upto(its)[n] \in Nat
                           /\ Upto(its)[n+1] = Upto(its)[n] + SizeAt(its, n+1)
<1>1. Upto(its)[0] = 0
  BY UptoEquation
<1>2. \A n \in Nat : Upto(its)[n+1] = Upto(its)[n] + SizeAt(its, n+1)
  <2> TAKE n \in Nat
  <2>1. n + 1 \in Nat /\ n + 1 # 0 /\ (n + 1) - 1 = n
    BY SMT
  <2> DEFINE f == Upto(its)
  <2>2. f = [k \in Nat |-> IF k = 0 THEN 0 ELSE f[k-1] + SizeAt(its, k)]
    BY UptoEquation
  <2> HIDE DEF f
  <2>3. f[n+1] = f[(n+1)-1] + SizeAt(its, n+1)
    BY <2>1, <2>2
  <2>4. f[n+1] = f[n] + SizeAt(its, n+1)
    BY <2>1, <2>3
  <2> QED BY <2>4 DEF f
<1> DEFINE S == {n \in Nat : Upto(its)[n] \in Nat}
<1>3. 0 \in S
  BY <1>1, SMT
<1>4. ASSUME NEW n \in Nat, n \in S PROVE n + 1 \in S
  BY <1>2, <1>4, SMT DEF Sized
<1>5. Nat \subseteq S
  <2> HIDE DEF S
  <2> QED BY <1>3, <1>4, SetInduction
<1> QED BY <1>1, <1>2, <1>5

\* A sum of lengths is an integer, and the empty range adds up to nothing.
LEMMA TotalInt ==
  ASSUME NEW its, Sized(its), NEW lo \in Nat \ {0}, NEW hi \in Nat
  PROVE  Total(its, lo, hi) \in Int /\ Total(its, lo, lo - 1) = 0
<1>1. lo - 1 \in Nat
  BY SMT
<1>2. Upto(its)[lo-1] \in Nat /\ Upto(its)[hi] \in Nat
  BY <1>1, UptoStep
<1> QED BY <1>2, SMT DEF Total

\* A range of messages can be cut anywhere.
LEMMA TotalSplit ==
  ASSUME NEW its, Sized(its), NEW lo \in Nat \ {0}, NEW mid \in Nat, NEW hi \in Nat
  PROVE  Total(its, lo, hi) = Total(its, lo, mid) + Total(its, mid + 1, hi)
<1>1. lo - 1 \in Nat /\ (mid + 1) - 1 = mid
  BY SMT
<1>2. /\ Upto(its)[lo-1] \in Nat
      /\ Upto(its)[mid] \in Nat
      /\ Upto(its)[hi] \in Nat
  BY <1>1, UptoStep
<1> QED BY <1>1, <1>2, SMT DEF Total

\* The range grows by one message at either end.
LEMMA TotalExtend ==
  ASSUME NEW its, Sized(its), NEW lo \in Nat \ {0}, NEW hi \in Nat
  PROVE  /\ Total(its, lo, hi + 1) = Total(its, lo, hi) + SizeAt(its, hi + 1)
         /\ Total(its, lo, hi) = SizeAt(its, lo) + Total(its, lo + 1, hi)
<1>1. lo - 1 \in Nat /\ (lo - 1) + 1 = lo /\ (lo + 1) - 1 = lo
  BY SMT
<1>2. /\ Upto(its)[lo-1] \in Nat /\ Upto(its)[lo] \in Nat /\ Upto(its)[hi] \in Nat
      /\ Upto(its)[hi+1] = Upto(its)[hi] + SizeAt(its, hi+1)
  BY <1>1, UptoStep
<1>3. Upto(its)[lo] = Upto(its)[lo-1] + SizeAt(its, lo)
  <2>1. Upto(its)[(lo-1)+1] = Upto(its)[lo-1] + SizeAt(its, (lo-1)+1)
    BY <1>1, UptoStep
  <2> QED BY <1>1, <2>1
<1>4. SizeAt(its, lo) \in Nat /\ SizeAt(its, hi+1) \in Nat
  BY SMT DEF Sized
<1> QED BY <1>1, <1>2, <1>3, <1>4, SMT DEF Total

\* The sum depends only on the lengths in the range.
LEMMA TotalAgree ==
  ASSUME NEW its, NEW jts, Sized(its), Sized(jts),
         NEW lo \in Nat \ {0}, NEW hi \in Nat,
         \A n \in lo..hi : SizeAt(its, n) = SizeAt(jts, n)
  PROVE  lo <= hi + 1 => Total(its, lo, hi) = Total(jts, lo, hi)
<1> DEFINE S == {d \in Nat : (lo - 1) + d <= hi =>
                   Total(its, lo, (lo - 1) + d) = Total(jts, lo, (lo - 1) + d)}
<1>0. lo - 1 \in Nat /\ (lo - 1) + 0 = lo - 1
  BY SMT
<1>1. 0 \in S
  <2>1. Total(its, lo, lo - 1) = 0 /\ Total(jts, lo, lo - 1) = 0
    BY TotalInt
  <2> QED BY <1>0, <2>1
<1>2. ASSUME NEW d \in Nat, d \in S PROVE d + 1 \in S
  <2> DEFINE k == (lo - 1) + d
  <2>1. k \in Nat /\ (lo - 1) + (d + 1) = k + 1
    BY SMT
  <2> SUFFICES ASSUME k + 1 <= hi
               PROVE  Total(its, lo, k + 1) = Total(jts, lo, k + 1)
    BY <2>1, SMT
  <2>2. Total(its, lo, k) = Total(jts, lo, k)
    BY <1>2, <2>1, SMT
  <2>3. k + 1 \in lo..hi
    BY <2>1, SMT
  <2> HIDE DEF k
  <2>4. SizeAt(its, k + 1) = SizeAt(jts, k + 1)
    BY <2>3
  <2>5. /\ Total(its, lo, k + 1) = Total(its, lo, k) + SizeAt(its, k + 1)
        /\ Total(jts, lo, k + 1) = Total(jts, lo, k) + SizeAt(jts, k + 1)
    BY <2>1, TotalExtend
  <2> QED BY <2>2, <2>4, <2>5
<1>3. Nat \subseteq S
  <2> HIDE DEF S
  <2> QED BY <1>1, <1>2, SetInduction
<1> SUFFICES ASSUME lo <= hi + 1 PROVE Total(its, lo, hi) = Total(jts, lo, hi)
  OBVIOUS
<1>4. hi - (lo - 1) \in Nat /\ (lo - 1) + (hi - (lo - 1)) = hi
  BY <1>0, SMT
<1>5. hi - (lo - 1) \in S
  BY <1>3, <1>4
<1> QED BY <1>4, <1>5, SMT

\* A sum of lengths is a natural number, and a range that holds no message
\* adds up to nothing.
LEMMA TotalNat ==
  ASSUME NEW its, Sized(its), NEW lo \in Nat \ {0}, NEW hi \in Nat
  PROVE  lo <= hi + 1 => Total(its, lo, hi) \in Nat
<1> DEFINE S == {d \in Nat : Total(its, lo, (lo - 1) + d) \in Nat}
<1>0. lo - 1 \in Nat /\ (lo - 1) + 0 = lo - 1
  BY SMT
<1>1. 0 \in S
  BY <1>0, TotalInt, SMT
<1>2. ASSUME NEW d \in Nat, d \in S PROVE d + 1 \in S
  <2> DEFINE k == (lo - 1) + d
  <2>1. k \in Nat /\ (lo - 1) + (d + 1) = k + 1
    BY SMT
  <2>2. Total(its, lo, k) \in Nat
    BY <1>2
  <2> HIDE DEF k
  <2>3. Total(its, lo, k + 1) = Total(its, lo, k) + SizeAt(its, k + 1)
    BY <2>1, TotalExtend
  <2>4. Total(its, lo, k + 1) \in Nat
    BY <2>1, <2>2, <2>3, SMT DEF Sized
  <2> QED BY <2>1, <2>4, SMT
<1>3. Nat \subseteq S
  <2> HIDE DEF S
  <2> QED BY <1>1, <1>2, SetInduction
<1> SUFFICES ASSUME lo <= hi + 1 PROVE Total(its, lo, hi) \in Nat
  OBVIOUS
<1>4. hi - (lo - 1) \in Nat /\ (lo - 1) + (hi - (lo - 1)) = hi
  BY <1>0, SMT
<1>5. hi - (lo - 1) \in S
  BY <1>3, <1>4, Zenon
<1> QED BY <1>4, <1>5

\* A range in which no message is stored adds up to nothing.
LEMMA TotalNone ==
  ASSUME NEW its, Sized(its), NEW lo \in Nat \ {0}, NEW hi \in Nat,
         \A n \in lo..hi : n \notin DOMAIN its
  PROVE  lo <= hi + 1 => Total(its, lo, hi) = 0
<1> DEFINE S == {d \in Nat : (lo - 1) + d <= hi => Total(its, lo, (lo - 1) + d) = 0}
<1>0. lo - 1 \in Nat /\ (lo - 1) + 0 = lo - 1
  BY SMT
<1>1. 0 \in S
  BY <1>0, TotalInt
<1>2. ASSUME NEW d \in Nat, d \in S PROVE d + 1 \in S
  <2> DEFINE k == (lo - 1) + d
  <2>1. k \in Nat /\ (lo - 1) + (d + 1) = k + 1
    BY SMT
  <2> SUFFICES ASSUME k + 1 <= hi PROVE Total(its, lo, k + 1) = 0
    BY <2>1, SMT
  <2>2. Total(its, lo, k) = 0
    BY <1>2, <2>1, SMT
  <2>3. k + 1 \in lo..hi
    BY <2>1, SMT
  <2> HIDE DEF k
  <2>4. SizeAt(its, k + 1) = 0
    BY <2>3 DEF SizeAt
  <2>5. Total(its, lo, k + 1) = Total(its, lo, k) + SizeAt(its, k + 1)
    BY <2>1, TotalExtend
  <2> QED BY <2>2, <2>4, <2>5, SMT
<1>3. Nat \subseteq S
  <2> HIDE DEF S
  <2> QED BY <1>1, <1>2, SetInduction
<1> SUFFICES ASSUME lo <= hi + 1 PROVE Total(its, lo, hi) = 0
  OBVIOUS
<1>4. hi - (lo - 1) \in Nat /\ (lo - 1) + (hi - (lo - 1)) = hi
  BY <1>0, SMT
<1>5. hi - (lo - 1) \in S
  BY <1>3, <1>4
<1> QED BY <1>4, <1>5, SMT

-----------------------------------------------------------------------------
(* The inductive invariant.                                                *)

IndInv == /\ TypeOK
          /\ CursorOrder
          /\ NoGap
          /\ OneGeneration
          /\ ByteAccounting
          /\ WithinLimits

-----------------------------------------------------------------------------

\* Typed items have natural lengths.
LEMMA TypedSized ==
  ASSUME NEW its, \A n \in DOMAIN its : its[n] \in Message
  PROVE  Sized(its)
  BY DEF Sized, SizeAt, Message

\* The empty bucket, as Initialize and ResetForSnapshot leave it.
LEMMA EmptyBucket ==
  ASSUME items' = [n \in {} |-> None],
         st' \in State, minted' \in 0..MaxGen,
         st'.NextSeq = 0, st'.ReadySeq = 0, st'.DeliveredSeq = 0,
         st'.Bytes = 0, st'.ArchiveBytes = 0, st'.EarliestSeq \in 0..1,
         st'.Generation <= minted'
  PROVE  IndInv'
<1>1. TypeOK'
  BY DEF TypeOK
<1>2. CursorOrder'
  BY SMT DEF CursorOrder
<1>3. Earliest' = 1
  BY SMT DEF Earliest
<1>4. NoGap'
  BY <1>3, SMT DEF NoGap
<1>5. OneGeneration'
  BY DEF OneGeneration
<1>6. Sized(items') /\ Total(items', 1, 0) = 0
  <2>1. Sized(items')
    BY DEF Sized, SizeAt
  <2>2. 1 \in Nat \ {0} /\ 1 - 1 = 0
    BY SMT
  <2> QED BY <2>1, <2>2, TotalInt
<1>7. ByteAccounting'
  BY <1>3, <1>6, SMT DEF ByteAccounting
<1>8. WithinLimits'
  BY LimitAssumption, SMT DEF WithinLimits
<1> QED BY <1>1, <1>2, <1>4, <1>5, <1>7, <1>8 DEF IndInv

\* A step that leaves the bucket alone and moves no cursor but ReadySeq.
LEMMA CursorStep ==
  ASSUME IndInv, items' = items, minted' = minted, st' \in State,
         st'.NextSeq = st.NextSeq, st'.DeliveredSeq = st.DeliveredSeq,
         st'.EarliestSeq = st.EarliestSeq, st'.Generation = st.Generation,
         st'.Bytes = st.Bytes, st'.ArchiveBytes = st.ArchiveBytes,
         st'.ReadySeq \in {st.ReadySeq, st.NextSeq},
         st'.Phase # "stream" => st'.ReadySeq = 0
  PROVE  IndInv'
<1> USE DEF IndInv
<1>1. TypeOK'
  BY DEF TypeOK
<1>2. CursorOrder'
  BY SMT DEF CursorOrder, TypeOK, State
<1>3. Earliest' = Earliest
  BY DEF Earliest
<1>4. NoGap' /\ OneGeneration'
  BY <1>3 DEF NoGap, OneGeneration
<1>5. ByteAccounting'
  BY <1>3 DEF ByteAccounting
<1>6. WithinLimits'
  BY DEF WithinLimits
<1> QED BY <1>1, <1>2, <1>4, <1>5, <1>6

\* Initialize starts a generation with an empty bucket.
LEMMA InitializeStep ==
  ASSUME IndInv, NEW hash \in Hashes, Initialize(hash)
  PROVE  IndInv'
<1>0. /\ st' = Blank(minted + 1, hash, "snapshot", 1)
      /\ minted' = minted + 1
      /\ items' = [n \in {} |-> None]
  BY DEF Initialize
<1>1. minted + 1 \in 0..MaxGen
  <2>1. minted \in 0..MaxGen
    BY DEF IndInv, TypeOK
  <2>2. minted < MaxGen
    BY DEF Initialize
  <2> QED BY <2>1, <2>2, LimitAssumption, SMT
<1>2. st' \in State
  BY <1>0, <1>1, SMT DEF State, Blank, HashValues, LSNValues, Phases
<1>3. /\ st'.NextSeq = 0 /\ st'.ReadySeq = 0 /\ st'.DeliveredSeq = 0
      /\ st'.Bytes = 0 /\ st'.ArchiveBytes = 0 /\ st'.EarliestSeq = 1
      /\ st'.Generation = minted'
  BY <1>0 DEF Blank
<1> QED BY <1>0, <1>1, <1>2, <1>3, EmptyBucket, SMT

\* ResetForSnapshot empties the bucket of an acknowledged generation.
LEMMA ResetStep ==
  ASSUME IndInv, ResetForSnapshot
  PROVE  IndInv'
<1>1. /\ st' = Blank(0, None, "snapshot", 1)
      /\ minted' = minted /\ minted \in 0..MaxGen
      /\ items' = [n \in {} |-> None]
  BY DEF ResetForSnapshot, IndInv, TypeOK
<1>2. st' \in State
  BY <1>1, LimitAssumption, SMT DEF State, Blank, HashValues, LSNValues, Phases
<1>3. /\ st'.NextSeq = 0 /\ st'.ReadySeq = 0 /\ st'.DeliveredSeq = 0
      /\ st'.Bytes = 0 /\ st'.ArchiveBytes = 0 /\ st'.EarliestSeq = 1
      /\ st'.Generation = 0
  BY <1>1 DEF Blank
<1> QED BY <1>1, <1>2, <1>3, EmptyBucket, SMT

\* Append stores one message after the last one and counts its length.
LEMMA AppendStep ==
  ASSUME IndInv, NEW m \in Messages, AppendMessage(m)
  PROVE  IndInv'
<1> DEFINE next == st.NextSeq + 1
           size == Stamped(m).size
<1> USE DEF IndInv
<1>1. st \in State /\ next \in Nat \ {0} /\ Sized(items)
  BY TypedSized, SMT DEF TypeOK, State
<1>2. Stamped(m) \in Message /\ size = SizeOf[Stamped(m).body] + LsnLen(Stamped(m).LSN)
  <2>1. m.body \in Bodies /\ m.version \in HashValues /\ m.lsn \in LSNValues
    BY DEF Messages
  <2>2. st.Generation \in 0..MaxGen /\ st.SchemaHash \in HashValues
    BY <1>1 DEF State
  <2>3. SizeOf[m.body] \in Nat /\ LsnLen(m.lsn) \in Nat
    BY <2>1, SizeAssumption, LimitAssumption DEF LsnLen
  <2> QED BY <2>1, <2>2, <2>3, SMT DEF Stamped, Message
<1>3. size \in Nat
  BY <1>2 DEF Message
<1>4. /\ items' = [n \in DOMAIN items \cup {next} |->
                     IF n = next THEN Stamped(m) ELSE items[n]]
      /\ minted' = minted
      /\ st' = [st EXCEPT !.NextSeq = @ + 1, !.Bytes = @ + size]
      /\ st.Bytes + size <= MaxBytes
  BY <1>1, <1>3, LimitAssumption, SMT DEF AppendMessage, Full, State
<1> HIDE DEF size
<1>5. /\ st' \in State
      /\ st'.NextSeq = next /\ st'.Bytes = st.Bytes + size
      /\ st'.ReadySeq = st.ReadySeq /\ st'.DeliveredSeq = st.DeliveredSeq
      /\ st'.EarliestSeq = st.EarliestSeq /\ st'.ArchiveBytes = st.ArchiveBytes
      /\ st'.Generation = st.Generation /\ st'.Phase = st.Phase
  <2>1. st.NextSeq + 1 \in Nat /\ st.Bytes + size \in Int
    BY <1>1, <1>3, SMT DEF State
  <2>2. st' \in State
    BY <1>1, <1>4, <2>1, Zenon DEF State
  <2> QED BY <1>1, <1>4, <2>2 DEF State
<1>6. TypeOK'
  BY <1>1, <1>2, <1>4, <1>5 DEF TypeOK
<1>7. CursorOrder'
  BY <1>1, <1>5, SMT DEF CursorOrder, State
<1>8. Earliest' = Earliest /\ Earliest \in Nat /\ Earliest <= st.DeliveredSeq + 1
  BY <1>1, <1>5, SMT DEF Earliest, CursorOrder, State
<1>9. NoGap'
  <2>1. DOMAIN items' = (Earliest..st.NextSeq) \cup {next}
    BY <1>4 DEF NoGap
  <2>2. Earliest <= next
    BY <1>1, <1>8, SMT DEF CursorOrder, State
  <2> QED BY <1>1, <1>5, <1>8, <2>1, <2>2, SMT DEF NoGap, State
<1>10. OneGeneration'
  BY <1>4, <1>5 DEF OneGeneration, Stamped
<1>11. Sized(items') /\ SizeAt(items', next) = size
       /\ \A n \in Nat : n # next => SizeAt(items', n) = SizeAt(items, n)
  <2>1. Sized(items')
    BY <1>6, TypedSized DEF TypeOK
  <2> QED BY <2>1, <1>4 DEF SizeAt, size
<1>12. ByteAccounting'
  <2>0. /\ st.DeliveredSeq \in Nat /\ st.NextSeq \in Nat
        /\ st.DeliveredSeq + 1 \in Nat \ {0}
        /\ st.DeliveredSeq <= st.NextSeq
    BY <1>1, SMT DEF State, CursorOrder
  <2>1. Total(items', st.DeliveredSeq + 1, st.NextSeq)
          = Total(items, st.DeliveredSeq + 1, st.NextSeq)
    <3>1. \A n \in st.DeliveredSeq + 1 .. st.NextSeq :
             SizeAt(items', n) = SizeAt(items, n)
      BY <1>11, <2>0, SMT
    <3> QED BY <1>1, <1>11, <2>0, <3>1, TotalAgree, SMT
  <2>2. Total(items', st.DeliveredSeq + 1, next)
          = Total(items', st.DeliveredSeq + 1, st.NextSeq) + size
    BY <1>11, <2>0, TotalExtend
  <2>3. Earliest # 0
    <3>1. st.EarliestSeq = 0 => Earliest # 0
      BY <2>0 DEF Earliest
    <3> QED BY <3>1 DEF Earliest
  <2>4. Total(items', Earliest, st.DeliveredSeq) = Total(items, Earliest, st.DeliveredSeq)
    <3>1. \A n \in Earliest .. st.DeliveredSeq : SizeAt(items', n) = SizeAt(items, n)
      BY <1>8, <1>11, <2>0, SMT
    <3> QED BY <1>1, <1>8, <1>11, <2>0, <2>3, <3>1, TotalAgree, SMT
  <2>5. \A n \in DOMAIN items' :
          items'[n].size = SizeOf[items'[n].body] + LsnLen(items'[n].LSN)
    BY <1>2, <1>4 DEF ByteAccounting, size
  <2> QED BY <1>5, <1>8, <2>1, <2>2, <2>4, <2>5 DEF ByteAccounting
<1>13. WithinLimits'
  BY <1>1, <1>3, <1>4, <1>5, SMT DEF WithinLimits, State
<1> QED BY <1>6, <1>7, <1>9, <1>10, <1>12, <1>13

\* Publish and its variants move ReadySeq to the last staged message.
LEMMA PublishStep ==
  ASSUME IndInv,
         \/ SealSnapshot
         \/ PublishTransaction
         \/ \E lsn \in LSNs, hash \in Hashes : PublishSchema(lsn, hash)
  PROVE  IndInv'
<1>0. st \in State
  BY DEF IndInv, TypeOK
<1>1. CASE SealSnapshot
  <2>1. PICK lsn \in LSNs : Publish(lsn, TRUE)
    BY <1>1, Zenon DEF SealSnapshot
  <2>2. /\ st' = [st EXCEPT !.Phase = "stream", !.ReadySeq = st.NextSeq,
                            !.DurableLSN = lsn, !.SourceCleanup = None]
        /\ items' = items /\ minted' = minted
    BY <2>1 DEF Publish, PublishSource
  <2>3. st' \in State /\ st'.Phase = "stream"
    BY <1>0, <2>2, Zenon DEF State, Phases, LSNValues
  <2> QED BY <1>0, <2>2, <2>3, CursorStep DEF State
<1>2. CASE PublishTransaction
  <2>1. PICK lsn \in LSNs, cleanup \in Tokens \cup {None} :
           PublishSource(lsn, FALSE, cleanup)
    BY <1>2, Zenon DEF PublishTransaction
  <2>2. /\ st' = [st EXCEPT !.Phase = st.Phase, !.ReadySeq = st.NextSeq,
                            !.DurableLSN = lsn, !.SourceCleanup = cleanup]
        /\ items' = items /\ minted' = minted
    BY <2>1 DEF PublishSource
  <2>3. st' \in State /\ st'.Phase = "stream"
    BY <1>0, <1>2, <2>2, ZenonT(60) DEF PublishTransaction, State, Phases, LSNValues
  <2> QED BY <1>0, <2>2, <2>3, CursorStep DEF State
<1>3. CASE \E lsn \in LSNs, hash \in Hashes : PublishSchema(lsn, hash)
  <2>1. PICK lsn \in LSNs, hash \in Hashes : PublishSchema(lsn, hash)
    BY <1>3
  <2>2. /\ st' = [st EXCEPT !.ReadySeq = st.NextSeq, !.DurableLSN = lsn,
                            !.SchemaHash = hash]
        /\ items' = items /\ minted' = minted /\ st.Phase = "stream"
    BY <2>1, Zenon DEF PublishSchema
  <2>3. st' \in State /\ st'.Phase = "stream"
    BY <1>0, <2>2, Zenon DEF State, Phases, LSNValues, HashValues
  <2> QED BY <1>0, <2>2, <2>3, CursorStep DEF State
<1> QED BY <1>1, <1>2, <1>3

\* SnapshotPoint and ClearSourceCleanup touch no cursor and no message.
LEMMA BookkeepingStep ==
  ASSUME IndInv,
         \/ \E lsn \in LSNs : SnapshotPoint(lsn)
         \/ \E token \in Tokens : ClearSourceCleanup(token)
  PROVE  IndInv'
<1>0. st \in State /\ (st.Phase # "stream" => st.ReadySeq = 0)
  BY DEF IndInv, TypeOK, CursorOrder
<1>1. CASE \E lsn \in LSNs : SnapshotPoint(lsn)
  <2>1. PICK lsn \in LSNs : SnapshotPoint(lsn)
    BY <1>1
  <2>2. st' = [st EXCEPT !.SnapshotLSN = lsn] /\ items' = items /\ minted' = minted
    BY <2>1 DEF SnapshotPoint
  <2>3. st' \in State
    BY <1>0, <2>2 DEF State, LSNValues
  <2> QED BY <1>0, <2>2, <2>3, CursorStep DEF State
<1>2. CASE \E token \in Tokens : ClearSourceCleanup(token)
  <2>1. PICK token \in Tokens : ClearSourceCleanup(token)
    BY <1>2
  <2>2. st' = [st EXCEPT !.SourceCleanup = None] /\ items' = items /\ minted' = minted
    BY <2>1 DEF ClearSourceCleanup
  <2>3. st' \in State
    BY <1>0, <2>2 DEF State
  <2> QED BY <1>0, <2>2, <2>3, CursorStep DEF State
<1> QED BY <1>1, <1>2

\* FinalizeSnapshotLSN rewrites the staged messages and recounts their lengths.
LEMMA FinalizeStep ==
  ASSUME IndInv, NEW lsn \in LSNs, FinalizeSnapshotLSN(lsn)
  PROVE  IndInv'
<1> USE DEF IndInv
<1> DEFINE total == Total(Finalized(lsn), 1, st.NextSeq)
<1>1. st \in State /\ st.ReadySeq = 0 /\ st.DeliveredSeq = 0 /\ st.NextSeq \in Nat
  BY SMT DEF TypeOK, State, CursorOrder, FinalizeSnapshotLSN
<1>2. Earliest = 1
  BY <1>1, SMT DEF Earliest, CursorOrder, State
<1>3. DOMAIN items = 1..st.NextSeq
  BY <1>2 DEF NoGap
<1>4. /\ DOMAIN Finalized(lsn) = DOMAIN items
      /\ \A n \in DOMAIN items :
           /\ Finalized(lsn)[n].Generation = items[n].Generation
           /\ Finalized(lsn)[n].size = SizeOf[items[n].body] + LsnLen(lsn)
           /\ Finalized(lsn)[n].body = items[n].body
           /\ Finalized(lsn)[n].LSN = lsn
           /\ Finalized(lsn)[n] \in Message
  <2>1. DOMAIN Finalized(lsn) = DOMAIN items
    BY DEF Finalized
  <2> SUFFICES ASSUME NEW n \in DOMAIN items
      PROVE  /\ Finalized(lsn)[n].Generation = items[n].Generation
             /\ Finalized(lsn)[n].size = SizeOf[items[n].body] + LsnLen(lsn)
             /\ Finalized(lsn)[n].body = items[n].body
             /\ Finalized(lsn)[n].LSN = lsn
             /\ Finalized(lsn)[n] \in Message
    BY <2>1
  <2> DEFINE m == items[n]
             size == m.size - LsnLen(m.LSN) + LsnLen(lsn)
  <2>2. Finalized(lsn)[n] = [m EXCEPT !.LSN = lsn, !.size = size]
    BY <1>3, Zenon DEF Finalized
  <2>3. m \in Message /\ m.size = SizeOf[m.body] + LsnLen(m.LSN)
    BY DEF TypeOK, ByteAccounting
  <2>4. SizeOf[m.body] \in Nat /\ LsnLen(m.LSN) \in Nat /\ LsnLen(lsn) \in Nat
    BY <2>3, SizeAssumption, LimitAssumption DEF LsnLen, Message
  <2>5. size = SizeOf[m.body] + LsnLen(lsn) /\ size \in Nat
    BY <2>3, <2>4, SMT
  <2> HIDE DEF m, size
  <2>6. [m EXCEPT !.LSN = lsn, !.size = size] \in Message
    BY <2>3, <2>5, Zenon DEF Message, LSNValues
  <2>7. /\ Finalized(lsn)[n].Generation = m.Generation
        /\ Finalized(lsn)[n].size = size
        /\ Finalized(lsn)[n].body = m.body
        /\ Finalized(lsn)[n].LSN = lsn
    BY <2>2, <2>3 DEF Message
  <2> QED BY <2>2, <2>5, <2>6, <2>7 DEF m
<1>5. Sized(Finalized(lsn))
  BY <1>4, TypedSized
<1>6. total \in Nat /\ Total(Finalized(lsn), 1, 0) = 0
  <2>1. 1 \in Nat \ {0} /\ 1 - 1 = 0 /\ 1 <= st.NextSeq + 1
    BY <1>1, SMT
  <2>2. Total(Finalized(lsn), 1, 1 - 1) = 0
    BY <1>1, <1>5, <2>1, TotalInt
  <2>3. total \in Nat
    BY <1>1, <1>5, <2>1, TotalNat
  <2> QED BY <2>1, <2>2, <2>3
<1>7. /\ items' = Finalized(lsn) /\ minted' = minted /\ total <= MaxBytes
      /\ st' = [st EXCEPT !.Bytes = total, !.SnapshotLSN = lsn]
  BY DEF FinalizeSnapshotLSN
<1> HIDE DEF total
<1>8. /\ st'.NextSeq = st.NextSeq /\ st'.ReadySeq = 0 /\ st'.DeliveredSeq = 0
      /\ st'.EarliestSeq = st.EarliestSeq /\ st'.Bytes = total
      /\ st'.ArchiveBytes = st.ArchiveBytes /\ st'.Generation = st.Generation
      /\ st'.Phase = st.Phase
  BY <1>1, <1>7 DEF State
<1>9. st' \in State
  <2>1. total \in Int /\ lsn \in LSNValues
    BY <1>6, SMT DEF LSNValues
  <2> QED BY <1>1, <1>7, <2>1, Zenon DEF State
<1>10. TypeOK'
  BY <1>4, <1>7, <1>9 DEF TypeOK
<1>11. CursorOrder'
  BY <1>1, <1>8 DEF CursorOrder, State
<1>12. Earliest' = 1
  BY <1>1, <1>2, <1>8 DEF Earliest
<1>13. NoGap'
  BY <1>3, <1>4, <1>7, <1>8, <1>12 DEF NoGap
<1>14. OneGeneration'
  BY <1>4, <1>7, <1>8 DEF OneGeneration
<1>15. st.ArchiveBytes = 0
  <2>1. Total(items, 1, 0) = 0
    <3>1. Sized(items) /\ 1 \in Nat \ {0} /\ 1 - 1 = 0
      BY TypedSized, SMT DEF TypeOK
    <3> QED BY <3>1, TotalInt
  <2> QED BY <1>1, <1>2, <2>1 DEF ByteAccounting
<1>16. ByteAccounting'
  BY <1>4, <1>6, <1>7, <1>8, <1>12, <1>15, SMT DEF ByteAccounting, total
<1>17. WithinLimits'
  BY <1>6, <1>7, <1>8, <1>15, LimitAssumption, SMT DEF WithinLimits
<1> QED BY <1>10, <1>11, <1>13, <1>14, <1>16, <1>17

\* Recover removes the staged messages and their lengths, and nothing else.
LEMMA RecoverStep ==
  ASSUME IndInv, Recover
  PROVE  IndInv'
<1> USE DEF IndInv
<1> DEFINE ready == st.ReadySeq
           tail == Total(items, ready + 1, st.NextSeq)
<1>1. /\ st \in State /\ Sized(items)
      /\ ready \in Nat /\ st.NextSeq \in Nat /\ st.DeliveredSeq \in Nat
      /\ st.DeliveredSeq <= ready /\ ready <= st.NextSeq
  BY TypedSized DEF TypeOK, State, CursorOrder
<1>2. Earliest \in Nat \ {0} /\ Earliest <= st.DeliveredSeq + 1
  BY <1>1, SMT DEF Earliest, CursorOrder, State
<1>3. tail \in Int
  BY <1>1, TotalInt, SMT
<1>4. /\ items' = [n \in DOMAIN items \ Unpublished |-> items[n]]
      /\ st' = [st EXCEPT !.Bytes = st.Bytes - tail, !.NextSeq = ready]
      /\ minted' = minted
  BY DEF Recover
<1>5. DOMAIN items' = Earliest..ready /\ \A n \in DOMAIN items' : items'[n] = items[n]
  BY <1>1, <1>2, <1>4, SMT DEF NoGap, Unpublished
<1> HIDE DEF tail, ready
<1>6. /\ st'.NextSeq = ready /\ st'.ReadySeq = ready
      /\ st'.DeliveredSeq = st.DeliveredSeq
      /\ st'.EarliestSeq = st.EarliestSeq /\ st'.Bytes = st.Bytes - tail
      /\ st'.ArchiveBytes = st.ArchiveBytes /\ st'.Generation = st.Generation
      /\ st'.Phase = st.Phase
  BY <1>1, <1>4 DEF State, ready
<1>7. st' \in State
  <2>1. st.Bytes - tail \in Int
    BY <1>1, <1>3, SMT DEF State
  <2> QED BY <1>1, <1>4, <2>1, Zenon DEF State
<1>8. TypeOK'
  <2>1. DOMAIN items' \subseteq DOMAIN items
    BY <1>4
  <2> QED BY <1>4, <1>5, <1>7, <2>1 DEF TypeOK
<1>9. CursorOrder'
  BY <1>1, <1>6, SMT DEF CursorOrder, State, ready
<1>10. Earliest' = Earliest
  BY <1>6 DEF Earliest
<1>11. NoGap'
  BY <1>5, <1>6, <1>10 DEF NoGap
<1>12. OneGeneration'
  BY <1>4, <1>5, <1>6 DEF OneGeneration
<1>13. Sized(items') /\ \A n \in Earliest..ready : SizeAt(items', n) = SizeAt(items, n)
  <2>1. Sized(items')
    BY <1>8, TypedSized DEF TypeOK
  <2>2. Earliest..ready \subseteq DOMAIN items
    BY <1>1, <1>2, SMT DEF NoGap
  <2> QED BY <1>5, <2>1, <2>2 DEF SizeAt
<1>14. Total(items', Earliest, st.DeliveredSeq) = Total(items, Earliest, st.DeliveredSeq)
  <2>1. \A n \in Earliest..st.DeliveredSeq : SizeAt(items', n) = SizeAt(items, n)
    BY <1>1, <1>2, <1>13, SMT
  <2> QED BY <1>1, <1>2, <1>13, <2>1, TotalAgree, ZenonT(40)
<1>15. Total(items', st.DeliveredSeq + 1, ready) = Total(items, st.DeliveredSeq + 1, ready)
  <2>1. \A n \in st.DeliveredSeq + 1 .. ready : SizeAt(items', n) = SizeAt(items, n)
    BY <1>1, <1>2, <1>13, SMT
  <2> QED BY <1>1, <1>13, <2>1, TotalAgree, SMT
<1>16. st.Bytes - tail = Total(items, st.DeliveredSeq + 1, ready)
  <2>1. Total(items, st.DeliveredSeq + 1, st.NextSeq)
          = Total(items, st.DeliveredSeq + 1, ready) + tail
    BY <1>1, TotalSplit, SMT DEF tail
  <2>2. Total(items, st.DeliveredSeq + 1, ready) \in Int
    BY <1>1, TotalInt, SMT
  <2> QED BY <1>3, <2>1, <2>2, SMT DEF ByteAccounting
<1>17. ByteAccounting'
  <2>1. \A n \in DOMAIN items' :
          items'[n].size = SizeOf[items'[n].body] + LsnLen(items'[n].LSN)
    BY <1>4, <1>5 DEF ByteAccounting
  <2> QED BY <1>6, <1>10, <1>14, <1>15, <1>16, <2>1 DEF ByteAccounting
<1>18. WithinLimits'
  <2>1. tail \in Nat /\ Total(items, st.DeliveredSeq + 1, ready) \in Nat
    BY <1>1, TotalNat, SMT DEF tail
  <2>2. 0 <= st.Bytes - tail /\ st.Bytes - tail <= MaxBytes
    BY <1>1, <1>16, <2>1, LimitAssumption, SMT DEF WithinLimits, State
  <2> QED BY <1>6, <2>2 DEF WithinLimits
<1> QED BY <1>8, <1>9, <1>11, <1>12, <1>17, <1>18

\* What Ack's loop leaves: everything before e is evicted, and if a message
\* that is acknowledged is left, the archive is within its limit.
LEMMA AckStep ==
  ASSUME IndInv, Deliver
  PROVE  IndInv'
<1> USE DEF IndInv
<1>0. PICK expired \in SUBSET DOMAIN items, seq \in DOMAIN items :
         Ack(seq, MessageID(seq), expired)
  BY DEF Deliver
<1> DEFINE first == IF st.EarliestSeq = 0 THEN 1 ELSE st.EarliestSeq
           archive == st.ArchiveBytes + SizeAt(items, seq)
<1>1. /\ st \in State /\ Sized(items)
      /\ st.ReadySeq \in Nat /\ st.NextSeq \in Nat /\ st.DeliveredSeq \in Nat
      /\ seq = st.DeliveredSeq + 1 /\ seq <= st.ReadySeq /\ st.ReadySeq <= st.NextSeq
      /\ seq \in Nat \ {0}
  BY <1>0, TypedSized DEF TypeOK, State, CursorOrder, Ack
<1>2. PICK e \in first..(seq + 1) :
        /\ EvictionStops(e, first, seq, archive, expired)
        /\ items' = [n \in DOMAIN items \ (first..(e - 1)) |-> items[n]]
        /\ st' = [st EXCEPT !.Bytes = st.Bytes - SizeAt(items, seq),
                            !.ArchiveBytes = archive - Total(items, first, e - 1),
                            !.DeliveredSeq = seq, !.EarliestSeq = e]
        /\ minted' = minted
  BY <1>0, Zenon DEF Ack
<1>3. /\ first \in Nat \ {0} /\ e \in Nat \ {0} /\ e - 1 \in Nat
      /\ first <= e /\ e <= seq + 1
      /\ Earliest \in Nat \ {0} /\ Earliest <= seq
      /\ first <= Earliest
      /\ (st.EarliestSeq # 0 => first = Earliest)
      /\ (st.EarliestSeq = 0 => Earliest = seq)
  BY <1>1, <1>2, SMT DEF Earliest, CursorOrder, State
<1>4. Earliest <= e
  <2>1. e > seq \/ e \in DOMAIN items
    BY <1>2 DEF EvictionStops
  <2> QED BY <1>1, <1>3, <2>1, SMT DEF NoGap
<1>5. DOMAIN items' = e..st.NextSeq /\ \A n \in DOMAIN items' : items'[n] = items[n]
  BY <1>1, <1>2, <1>3, <1>4, SMT DEF NoGap
<1> DEFINE size == SizeAt(items, seq)
           evicted == Total(items, first, e - 1)
<1> HIDE DEF first
<1>6. size \in Nat /\ evicted \in Int /\ st.ArchiveBytes \in Int /\ archive \in Int
      /\ st.Bytes \in Int
  <2>1. size \in Nat /\ st.ArchiveBytes \in Int /\ st.Bytes \in Int
    BY <1>1 DEF Sized, State
  <2>2. evicted \in Int
    BY <1>1, <1>3, TotalInt
  <2> QED BY <2>1, <2>2, SMT
<1>7. archive - evicted = Total(items, e, seq)
  <2>1. Total(items, first, e - 1) = Total(items, Earliest, e - 1)
    <3>1. CASE st.EarliestSeq # 0
      BY <1>3, <3>1
    <3>2. CASE st.EarliestSeq = 0
      <4>1. first = 1 /\ Earliest = seq
        BY <1>3, <3>2 DEF first
      <4>2. \A n \in first..st.DeliveredSeq : n \notin DOMAIN items
        BY <1>1, <4>1, SMT DEF NoGap
      <4>3. Total(items, first, st.DeliveredSeq) = 0
        BY <1>1, <1>3, <4>1, <4>2, TotalNone
      <4>4. Total(items, first, e - 1)
              = Total(items, first, st.DeliveredSeq)
                + Total(items, st.DeliveredSeq + 1, e - 1)
        BY <1>1, <1>3, TotalSplit, SMT
      <4>5. Total(items, seq, e - 1) \in Int
        BY <1>1, <1>3, TotalInt
      <4> QED BY <1>1, <4>1, <4>3, <4>4, <4>5, SMT
    <3> QED BY <3>1, <3>2
  <2>2. archive = Total(items, Earliest, seq)
    <3>1. Total(items, Earliest, st.DeliveredSeq + 1)
            = Total(items, Earliest, st.DeliveredSeq) + SizeAt(items, st.DeliveredSeq + 1)
      BY <1>1, <1>3, TotalExtend, SMT
    <3> QED BY <1>1, <3>1 DEF ByteAccounting
  <2>3. Total(items, Earliest, seq)
          = Total(items, Earliest, e - 1) + Total(items, (e - 1) + 1, seq)
    BY <1>1, <1>3, TotalSplit, SMT
  <2>4. Total(items, Earliest, e - 1) \in Int /\ Total(items, e, seq) \in Int
        /\ (e - 1) + 1 = e
    BY <1>1, <1>3, TotalInt, SMT
  <2> QED BY <2>1, <2>2, <2>3, <2>4, SMT
<1>8. archive - evicted \in Nat /\ archive - evicted <= ReplayBytes
  <2>1. Total(items, e, seq) \in Nat
    BY <1>1, <1>3, TotalNat
  <2>2. CASE e > seq
    <3>1. e = seq + 1 /\ e - 1 = seq
      BY <1>1, <1>3, <2>2, SMT
    <3>2. Total(items, e, e - 1) = 0
      BY <1>1, <1>3, TotalInt
    <3> QED BY <1>7, <2>1, <3>1, <3>2, LimitAssumption, SMT
  <2>3. CASE ~(e > seq)
    BY <1>2, <1>7, <2>1, <2>3 DEF EvictionStops
  <2> QED BY <2>2, <2>3
<1> HIDE DEF size, evicted, archive
<1>9. /\ st' = [st EXCEPT !.Bytes = st.Bytes - size,
                          !.ArchiveBytes = archive - evicted,
                          !.DeliveredSeq = seq, !.EarliestSeq = e]
  BY <1>2 DEF size, evicted
<1>10. /\ st'.NextSeq = st.NextSeq /\ st'.ReadySeq = st.ReadySeq
       /\ st'.DeliveredSeq = seq /\ st'.EarliestSeq = e
       /\ st'.Bytes = st.Bytes - size /\ st'.ArchiveBytes = archive - evicted
       /\ st'.Generation = st.Generation /\ st'.Phase = st.Phase
  BY <1>1, <1>9 DEF State
<1>11. st' \in State
  <2>1. st.Bytes - size \in Int /\ archive - evicted \in Int /\ seq \in Nat /\ e \in Nat
    BY <1>1, <1>3, <1>6, SMT
  <2> QED BY <1>1, <1>9, <2>1, Zenon DEF State
<1>12. TypeOK'
  <2>1. DOMAIN items' \subseteq DOMAIN items /\ minted' = minted
    BY <1>2
  <2> QED BY <1>5, <1>11, <2>1 DEF TypeOK
<1>13. CursorOrder'
  BY <1>1, <1>3, <1>10 DEF CursorOrder
<1>14. Earliest' = e
  BY <1>3, <1>10 DEF Earliest
<1>15. NoGap'
  BY <1>5, <1>10, <1>14 DEF NoGap
<1>16. OneGeneration'
  BY <1>2, <1>5, <1>10 DEF OneGeneration
<1>17. Sized(items') /\ \A n \in e..st.NextSeq : SizeAt(items', n) = SizeAt(items, n)
  <2>1. Sized(items')
    BY <1>12, TypedSized DEF TypeOK
  <2>2. e..st.NextSeq \subseteq DOMAIN items
    BY <1>2, <1>5
  <2> QED BY <1>5, <2>1, <2>2 DEF SizeAt
<1>18. Total(items', e, seq) = Total(items, e, seq)
  <2>1. \A n \in e..seq : SizeAt(items', n) = SizeAt(items, n)
    BY <1>1, <1>3, <1>17, SMT
  <2> QED BY <1>1, <1>3, <1>17, <2>1, TotalAgree, SMT
<1>19. Total(items', seq + 1, st.NextSeq) = Total(items, seq + 1, st.NextSeq)
  <2>1. \A n \in seq + 1 .. st.NextSeq : SizeAt(items', n) = SizeAt(items, n)
    BY <1>1, <1>3, <1>17, SMT
  <2> QED BY <1>1, <1>17, <2>1, TotalAgree, SMT
<1>20. st.Bytes - size = Total(items, seq + 1, st.NextSeq)
  <2>0. st.Bytes = Total(items, seq, st.NextSeq)
    BY <1>1 DEF ByteAccounting
  <2>1. st.Bytes = SizeAt(items, seq) + Total(items, seq + 1, st.NextSeq)
    BY <1>1, <2>0, TotalExtend, ZenonT(40)
  <2>2. Total(items, seq + 1, st.NextSeq) \in Int
    BY <1>1, TotalInt, SMT
  <2> QED BY <1>6, <2>1, <2>2, SMT DEF size
<1>21. ByteAccounting'
  <2>1. \A n \in DOMAIN items' :
          items'[n].size = SizeOf[items'[n].body] + LsnLen(items'[n].LSN)
    BY <1>2, <1>5 DEF ByteAccounting
  <2> QED BY <1>7, <1>10, <1>14, <1>18, <1>19, <1>20, <2>1 DEF ByteAccounting
<1>22. WithinLimits'
  <2>1. Total(items, seq + 1, st.NextSeq) \in Nat
    BY <1>1, TotalNat, SMT
  <2>2. 0 <= st.Bytes - size /\ st.Bytes - size <= MaxBytes
    BY <1>1, <1>6, <1>20, <2>1, LimitAssumption, SMT DEF WithinLimits, State
  <2> QED BY <1>8, <1>10, <2>2, SMT DEF WithinLimits
<1> QED BY <1>12, <1>13, <1>15, <1>16, <1>21, <1>22

\* A new database and one written before the replay archive satisfy the invariant.
LEMMA InitInv ==
  ASSUME Init
  PROVE  IndInv
<1>1. CASE Open
  <2>1. /\ items = [n \in {} |-> None] /\ minted = 0
        /\ st.NextSeq = 0 /\ st.ReadySeq = 0 /\ st.DeliveredSeq = 0
        /\ st.Bytes = 0 /\ st.ArchiveBytes = 0 /\ st.EarliestSeq = 0
        /\ st.Generation = 0
    BY <1>1 DEF Open, Blank
  <2>2. TypeOK
    <3>1. 0 \in 0..MaxGen /\ st = Blank(0, None, "empty", 0)
      BY <1>1, LimitAssumption, SMT DEF Open
    <3>2. st \in State
      BY <3>1, SMT DEF Blank, State, HashValues, LSNValues, Phases
    <3> QED BY <2>1, <3>1, <3>2 DEF TypeOK
  <2>3. CursorOrder
    BY <2>1, SMT DEF CursorOrder
  <2>4. Earliest = 1
    BY <2>1, SMT DEF Earliest
  <2>5. NoGap /\ OneGeneration
    BY <2>1, <2>4, SMT DEF NoGap, OneGeneration
  <2>6. Total(items, 1, 0) = 0
    <3>1. Sized(items) /\ 1 \in Nat \ {0} /\ 1 - 1 = 0
      BY <2>1, SMT DEF Sized, SizeAt
    <3>2. Total(items, 1, 1 - 1) = 0
      BY <3>1, TotalInt
    <3> QED BY <3>1, <3>2
  <2>7. ByteAccounting
    BY <2>1, <2>4, <2>6, SMT DEF ByteAccounting
  <2>8. WithinLimits
    BY <2>1, LimitAssumption, SMT DEF WithinLimits
  <2> QED BY <2>2, <2>3, <2>5, <2>7, <2>8 DEF IndInv
<1>2. CASE OpenLegacy
  <2>0. PICK delivered \in 0..MaxSeq, ready \in 0..MaxSeq, next \in 0..MaxSeq,
             hash \in Hashes, lsn \in LSNs :
          /\ delivered <= ready /\ ready <= next
          /\ \E body \in [delivered+1..next -> Bodies] :
               /\ items = [n \in delivered+1..next |->
                             [Generation |-> 1, SchemaVersion |-> hash, LSN |-> None,
                              body |-> body[n], size |-> SizeOf[body[n]]]]
               /\ Total(items, delivered + 1, next) <= MaxBytes
               /\ st = [Blank(1, hash, "stream", 0) EXCEPT
                          !.SnapshotLSN = lsn, !.DurableLSN = lsn,
                          !.NextSeq = next, !.ReadySeq = ready,
                          !.DeliveredSeq = delivered,
                          !.Bytes = Total(items, delivered + 1, next)]
          /\ minted = 1
    BY <1>2, Zenon DEF OpenLegacy
  <2>1. PICK body \in [delivered+1..next -> Bodies] :
          /\ items = [n \in delivered+1..next |->
                        [Generation |-> 1, SchemaVersion |-> hash, LSN |-> None,
                         body |-> body[n], size |-> SizeOf[body[n]]]]
          /\ Total(items, delivered + 1, next) <= MaxBytes
          /\ st = [Blank(1, hash, "stream", 0) EXCEPT
                     !.SnapshotLSN = lsn, !.DurableLSN = lsn,
                     !.NextSeq = next, !.ReadySeq = ready,
                     !.DeliveredSeq = delivered,
                     !.Bytes = Total(items, delivered + 1, next)]
    BY <2>0, Zenon
  <2>2. delivered \in Nat /\ ready \in Nat /\ next \in Nat
    BY LimitAssumption, SMT
  <2>3. \A n \in DOMAIN items :
          /\ items[n] \in Message
          /\ items[n].Generation = 1
          /\ items[n].size = SizeOf[items[n].body] + LsnLen(items[n].LSN)
    <3> TAKE n \in DOMAIN items
    <3>1. n \in delivered+1..next /\ body[n] \in Bodies
      BY <2>1
    <3>2. items[n] = [Generation |-> 1, SchemaVersion |-> hash, LSN |-> None,
                      body |-> body[n], size |-> SizeOf[body[n]]]
      BY <2>1, <3>1
    <3>3. SizeOf[body[n]] \in Nat /\ 1 \in 0..MaxGen
      BY <3>1, SizeAssumption, LimitAssumption, SMT
    <3> QED BY <3>1, <3>2, <3>3, SMT DEF Message, HashValues, LSNValues, LsnLen
  <2>4. Sized(items)
    BY <2>3, TypedSized
  <2> DEFINE total == Total(items, delivered + 1, next)
  <2>5. total \in Nat /\ Total(items, delivered + 1, delivered) = 0
    <3>1. delivered + 1 \in Nat \ {0} /\ (delivered + 1) - 1 = delivered
          /\ delivered + 1 <= next + 1
      BY <2>0, <2>2, SMT
    <3>2. total \in Nat
      BY <2>2, <2>4, <3>1, TotalNat
    <3>3. Total(items, delivered + 1, (delivered + 1) - 1) = 0
      BY <2>2, <2>4, <3>1, TotalInt
    <3> QED BY <3>1, <3>2, <3>3
  <2> HIDE DEF total
  <2>6. /\ st.NextSeq = next /\ st.ReadySeq = ready /\ st.DeliveredSeq = delivered
        /\ st.Bytes = total /\ st.ArchiveBytes = 0 /\ st.EarliestSeq = 0
        /\ st.Generation = 1 /\ st.Phase = "stream"
    BY <2>1 DEF Blank, total
  <2>7. st = [Generation |-> 1, SchemaHash |-> hash, Phase |-> "stream",
              SnapshotLSN |-> lsn, DurableLSN |-> lsn, SourceCleanup |-> None,
              NextSeq |-> next, ReadySeq |-> ready, DeliveredSeq |-> delivered,
              Bytes |-> total, EarliestSeq |-> 0, ArchiveBytes |-> 0]
    BY <2>1, Zenon DEF Blank, total
  <2>8. TypeOK
    <3>1. 1 \in 0..MaxGen /\ total \in Int /\ 0 \in Int
      BY <2>5, LimitAssumption, SMT
    <3>2. st \in State
      BY <2>2, <2>7, <3>1 DEF State, HashValues, LSNValues, Phases
    <3>3. DOMAIN items \subseteq Nat \ {0}
      BY <2>1, <2>2, SMT
    <3> QED BY <2>0, <2>3, <3>1, <3>2, <3>3 DEF TypeOK
  <2>9. CursorOrder
    BY <2>0, <2>2, <2>6, SMT DEF CursorOrder
  <2>10. Earliest = delivered + 1
    BY <2>6 DEF Earliest
  <2>11. NoGap /\ OneGeneration
    BY <2>0, <2>1, <2>3, <2>6, <2>10, SMT DEF NoGap, OneGeneration
  <2>12. ByteAccounting
    BY <2>3, <2>5, <2>6, <2>10 DEF ByteAccounting, total
  <2>13. WithinLimits
    BY <2>1, <2>5, <2>6, LimitAssumption, SMT DEF WithinLimits, total
  <2> QED BY <2>8, <2>9, <2>11, <2>12, <2>13 DEF IndInv
<1> QED BY <1>1, <1>2 DEF Init

\* Every transaction of the queue preserves the invariant.
LEMMA NextInv ==
  ASSUME IndInv, [Next]_queueVars
  PROVE  IndInv'
<1>1. ASSUME NEW hash \in Hashes, Initialize(hash) PROVE IndInv'
  BY <1>1, InitializeStep
<1>2. ASSUME NEW lsn \in LSNs, SnapshotPoint(lsn) PROVE IndInv'
  BY <1>2, BookkeepingStep
<1>3. ASSUME NEW lsn \in LSNs, FinalizeSnapshotLSN(lsn) PROVE IndInv'
  BY <1>3, FinalizeStep
<1>4. CASE Stage
  BY <1>4, AppendStep DEF Stage
<1>5. CASE SealSnapshot \/ PublishTransaction
  BY <1>5, PublishStep
<1>6. ASSUME NEW lsn \in LSNs, NEW hash \in Hashes, PublishSchema(lsn, hash)
      PROVE  IndInv'
  BY <1>6, PublishStep
<1>7. ASSUME NEW token \in Tokens, ClearSourceCleanup(token) PROVE IndInv'
  BY <1>7, BookkeepingStep
<1>8. CASE Recover
  BY <1>8, RecoverStep
<1>9. CASE ResetForSnapshot
  BY <1>9, ResetStep
<1>10. CASE Deliver
  BY <1>10, AckStep
<1>11. CASE UNCHANGED queueVars
  BY <1>11 DEF queueVars, IndInv, TypeOK, CursorOrder, NoGap, OneGeneration,
               ByteAccounting, WithinLimits, Earliest
<1> QED BY <1>1, <1>2, <1>3, <1>4, <1>5, <1>6, <1>7, <1>8, <1>9, <1>10, <1>11 DEF Next

\* The inductive invariant holds in every reachable state.
THEOREM Invariance == Spec => []IndInv
<1>1. Init => IndInv
  BY InitInv
<1>2. IndInv /\ [Next]_queueVars => IndInv'
  BY NextInv
<1> QED BY <1>1, <1>2, PTL DEF Spec

\* queue.go's state record and items bucket are always well formed.
THEOREM TypeCorrect == Spec => []TypeOK
<1>1. IndInv => TypeOK
  BY DEF IndInv
<1> QED BY <1>1, Invariance, PTL

\* The bucket is always exactly the range from the earliest retained message
\* to the last staged one, all of the current generation, and the cursors never
\* cross (queue.go Append, Initialize, Ack, Recover, ResetForSnapshot): no
\* "queue gap" error is ever returned.
THEOREM GapFree == Spec => [](ItemsExact /\ CursorOrder)
<1>1. IndInv => ItemsExact /\ CursorOrder
  BY DEF IndInv, ItemsExact
<1> QED BY <1>1, Invariance, PTL

\* Bytes and ArchiveBytes never drift from what is stored, however many
\* appends, recoveries, acknowledgements and evictions there were, and so the
\* configured limits hold for what is really stored.
THEOREM AccountingExact == Spec => []Accounted
<1>1. IndInv => Accounted
  BY DEF IndInv, Accounted
<1> QED BY <1>1, Invariance, PTL

-----------------------------------------------------------------------------
(* What a step may do to the published messages.                           *)

\* A step that leaves the bucket alone and only advances ReadySeq.
LEMMA KeepCursorStep ==
  ASSUME IndInv, items' = items, st'.DeliveredSeq = st.DeliveredSeq,
         st'.ReadySeq \in {st.ReadySeq, st.NextSeq}
  PROVE  KeepsPublished
<1>1. /\ st.DeliveredSeq \in Nat /\ st.ReadySeq \in Nat /\ st.NextSeq \in Nat
      /\ st.ReadySeq <= st.NextSeq
      /\ st.DeliveredSeq + 1 .. st.ReadySeq \subseteq DOMAIN items
  BY SMT DEF IndInv, TypeOK, State, CursorOrder, NoGap, Earliest
<1> QED BY <1>1, SMT DEF KeepsPublished

\* A step taken when nothing is published and unacknowledged.
LEMMA KeepNothing ==
  ASSUME st.DeliveredSeq \in Nat, st.ReadySeq \in Nat, st.DeliveredSeq >= st.ReadySeq
  PROVE  KeepsPublished
  BY SMT DEF KeepsPublished

\* Every transaction of the queue keeps what is published and unacknowledged.
LEMMA KeepStep ==
  ASSUME IndInv, Next
  PROVE  KeepsPublished
<1>0. /\ st \in State
      /\ st.DeliveredSeq \in Nat /\ st.ReadySeq \in Nat /\ st.NextSeq \in Nat
      /\ st.ReadySeq <= st.NextSeq
      /\ (st.Phase # "stream" => st.ReadySeq = 0)
      /\ DOMAIN items = Earliest..st.NextSeq
      /\ Earliest \in Nat /\ Earliest <= st.DeliveredSeq + 1
  BY SMT DEF IndInv, TypeOK, State, CursorOrder, NoGap, Earliest
<1>1. ASSUME NEW hash \in Hashes, Initialize(hash) PROVE KeepsPublished
  <2>1. st.ReadySeq = 0
    BY <1>0, <1>1 DEF Initialize
  <2> QED BY <1>0, <2>1, KeepNothing, SMT
<1>2. ASSUME NEW lsn \in LSNs, SnapshotPoint(lsn) \/ FinalizeSnapshotLSN(lsn),
             st.Phase = "snapshot"
      PROVE  KeepsPublished
  BY <1>0, <1>2, KeepNothing, SMT
<1>3. CASE Stage
  <2>1. PICK m \in Messages : AppendMessage(m)
    BY <1>3 DEF Stage
  <2>2. /\ items' = [n \in DOMAIN items \cup {st.NextSeq + 1} |->
                       IF n = st.NextSeq + 1 THEN Stamped(m) ELSE items[n]]
        /\ st' = [st EXCEPT !.NextSeq = st.NextSeq + 1,
                            !.Bytes = st.Bytes + Stamped(m).size]
    BY <2>1 DEF AppendMessage
  <2>3. st'.DeliveredSeq = st.DeliveredSeq /\ st'.ReadySeq = st.ReadySeq
    BY <1>0, <2>2 DEF State
  <2> QED BY <1>0, <2>2, <2>3, SMT DEF KeepsPublished
<1>4. CASE SealSnapshot \/ PublishTransaction
  <2>1. PICK lsn \in LSNs, seal \in BOOLEAN, cleanup \in Tokens \cup {None} :
          PublishSource(lsn, seal, cleanup)
    BY <1>4, Zenon DEF SealSnapshot, PublishTransaction, Publish
  <2>2. items' = items /\ st'.DeliveredSeq = st.DeliveredSeq
        /\ st'.ReadySeq = st.NextSeq
    BY <1>0, <2>1 DEF PublishSource, State
  <2> QED BY <2>2, KeepCursorStep
<1>5. ASSUME NEW lsn \in LSNs, NEW hash \in Hashes, PublishSchema(lsn, hash)
      PROVE  KeepsPublished
  <2>2. items' = items /\ st'.DeliveredSeq = st.DeliveredSeq
        /\ st'.ReadySeq = st.NextSeq
    BY <1>0, <1>5 DEF PublishSchema, State
  <2> QED BY <2>2, KeepCursorStep
<1>6. ASSUME NEW token \in Tokens, ClearSourceCleanup(token) PROVE KeepsPublished
  <2>2. items' = items /\ st'.DeliveredSeq = st.DeliveredSeq
        /\ st'.ReadySeq = st.ReadySeq
    BY <1>0, <1>6 DEF ClearSourceCleanup, State
  <2> QED BY <2>2, KeepCursorStep
<1>7. CASE Recover
  <2>1. /\ items' = [n \in DOMAIN items \ Unpublished |-> items[n]]
        /\ st' = [st EXCEPT !.Bytes = st.Bytes - Total(items, st.ReadySeq + 1, st.NextSeq),
                            !.NextSeq = st.ReadySeq]
    BY <1>7 DEF Recover
  <2>2. st'.DeliveredSeq = st.DeliveredSeq /\ st'.ReadySeq = st.ReadySeq
    BY <1>0, <2>1 DEF State
  <2> QED BY <1>0, <2>1, <2>2, SMT DEF KeepsPublished, Unpublished
<1>8. CASE ResetForSnapshot
  <2>1. st.DeliveredSeq = st.ReadySeq
    BY <1>8 DEF ResetForSnapshot
  <2> QED BY <1>0, <2>1, KeepNothing, SMT
<1>9. CASE Deliver
  <2>1. PICK expired \in SUBSET DOMAIN items, seq \in DOMAIN items :
           Ack(seq, MessageID(seq), expired)
    BY <1>9 DEF Deliver
  <2> DEFINE first == IF st.EarliestSeq = 0 THEN 1 ELSE st.EarliestSeq
             archive == st.ArchiveBytes + SizeAt(items, seq)
  <2>2. seq = st.DeliveredSeq + 1
    BY <2>1 DEF Ack
  <2>3. PICK e \in first..(seq + 1) :
          /\ items' = [n \in DOMAIN items \ (first..(e - 1)) |-> items[n]]
          /\ st' = [st EXCEPT !.Bytes = st.Bytes - SizeAt(items, seq),
                              !.ArchiveBytes = archive - Total(items, first, e - 1),
                              !.DeliveredSeq = seq, !.EarliestSeq = e]
    BY <2>1, Zenon DEF Ack
  <2> HIDE DEF archive
  <2>4. st'.DeliveredSeq = seq /\ st'.ReadySeq = st.ReadySeq
    BY <1>0, <2>3 DEF State
  <2>5. first \in Nat /\ e \in Nat /\ e - 1 <= seq
    BY <1>0, <2>2, <2>3, SMT DEF State
  <2>6. ASSUME NEW n \in st.DeliveredSeq + 1 .. st.ReadySeq, n # seq
        PROVE  n \in DOMAIN items' /\ items'[n] = items[n]
    <3>1. n > seq /\ n \notin first..(e - 1)
      BY <1>0, <2>2, <2>5, <2>6, SMT
    <3>2. n \in DOMAIN items
      BY <1>0, SMT
    <3> QED BY <2>3, <3>1, <3>2
  <2> QED BY <1>0, <2>2, <2>4, <2>6, SMT DEF KeepsPublished
<1> QED BY <1>1, <1>2, <1>3, <1>4, <1>5, <1>6, <1>7, <1>8, <1>9 DEF Next

\* No step of the queue loses, changes or hides a published message that has
\* not been acknowledged, and acknowledgements go one by one, in order:
\* "never evicts an undelivered message" for every limit and every age.
THEOREM PublishedNeverLost == Spec => PublishedKept
<1>1. IndInv /\ [Next]_queueVars => [KeepsPublished]_queueVars
  BY KeepStep
<1> QED BY <1>1, Invariance, PTL DEF Spec, PublishedKept

-----------------------------------------------------------------------------
(* The queue implements the transactional FIFO of module Outbox: the       *)
(* initial states map to initial states, and every step of the queue maps  *)
(* to a step of Outbox or leaves its state unchanged.                      *)

\* A range of messages is a sequence of bodies.
LEMMA SliceSeq ==
  ASSUME NEW its, NEW lo \in Nat, NEW hi \in Nat, lo <= hi,
         \A n \in lo+1..hi : its[n].body \in Bodies
  PROVE  /\ Slice(its, lo, hi) \in Seq(Bodies)
         /\ Len(Slice(its, lo, hi)) = hi - lo
         /\ \A i \in 1..(hi - lo) : Slice(its, lo, hi)[i] = its[lo + i].body
<1>1. hi - lo \in Nat /\ \A i \in 1..(hi - lo) : lo + i \in lo+1..hi
  BY SMT
<1>2. Slice(its, lo, hi) \in [1..(hi - lo) -> Bodies]
  BY <1>1 DEF Slice
<1> QED BY <1>1, <1>2, SMT DEF Slice

\* A range whose messages a step keeps is the same sequence after it.
LEMMA SliceKept ==
  ASSUME NEW lo \in Nat, NEW hi \in Nat,
         \A n \in lo+1..hi : items'[n].body = items[n].body
  PROVE  Slice(items', lo, hi) = Slice(items, lo, hi)
<1>1. \A i \in 1..(hi - lo) : items'[lo + i].body = items[lo + i].body
  BY SMT
<1> QED BY <1>1 DEF Slice

\* The empty range.
LEMMA SliceEmpty ==
  ASSUME NEW its, NEW lo \in Nat
  PROVE  Slice(its, lo, lo) = <<>>
<1>1. 1..(lo - lo) = {}
  BY SMT
<1> QED BY <1>1, SMT DEF Slice

\* Adjacent ranges concatenate.
LEMMA SliceConcat ==
  ASSUME NEW its, NEW lo \in Nat, NEW mid \in Nat, NEW hi \in Nat,
         lo <= mid, mid <= hi,
         \A n \in lo+1..hi : its[n].body \in Bodies
  PROVE  Slice(its, lo, hi) = Slice(its, lo, mid) \o Slice(its, mid, hi)
<1> DEFINE a == Slice(its, lo, mid)
           b == Slice(its, mid, hi)
           c == Slice(its, lo, hi)
<1>0. /\ \A n \in lo+1..mid : its[n].body \in Bodies
      /\ \A n \in mid+1..hi : its[n].body \in Bodies
  BY SMT
<1>1. /\ a \in Seq(Bodies) /\ Len(a) = mid - lo
      /\ \A i \in 1..(mid - lo) : a[i] = its[lo + i].body
  BY <1>0, SliceSeq, Zenon
<1>2. /\ b \in Seq(Bodies) /\ Len(b) = hi - mid
      /\ \A i \in 1..(hi - mid) : b[i] = its[mid + i].body
  BY <1>0, SliceSeq, ZenonT(60)
<1>le. lo <= hi
  BY SMT
<1>3. /\ c \in Seq(Bodies) /\ Len(c) = hi - lo
      /\ \A i \in 1..(hi - lo) : c[i] = its[lo + i].body
  BY <1>le, SliceSeq, ZenonT(40)
<1> HIDE DEF a, b, c
<1>4. /\ a \o b \in Seq(Bodies) /\ Len(a \o b) = hi - lo
      /\ \A i \in 1..(hi - lo) : (a \o b)[i] = IF i <= mid - lo THEN a[i]
                                               ELSE b[i - (mid - lo)]
  <2>1. Len(a) + Len(b) = hi - lo
    BY <1>1, <1>2, SMT
  <2>2. /\ a \o b \in Seq(Bodies) /\ Len(a \o b) = Len(a) + Len(b)
        /\ \A i \in 1..Len(a) + Len(b) : (a \o b)[i] = IF i <= Len(a) THEN a[i]
                                                     ELSE b[i - Len(a)]
    BY <1>1, <1>2, ConcatProperties, Zenon
  <2> QED BY <1>1, <2>1, <2>2
<1>5. ASSUME NEW i \in 1..(hi - lo) PROVE c[i] = (a \o b)[i]
  <2>1. CASE i <= mid - lo
    BY <1>1, <1>3, <1>4, <2>1, SMT
  <2>2. CASE ~(i <= mid - lo)
    <3>1. i - (mid - lo) \in 1..(hi - mid) /\ mid + (i - (mid - lo)) = lo + i
      BY <2>2, SMT
    <3> QED BY <1>2, <1>3, <1>4, <2>2, <3>1
  <2> QED BY <2>1, <2>2, Zenon
<1> QED BY <1>3, <1>4, <1>5, SeqEqual, Zenon DEF a, b, c

\* The first message of a range is its head ...
LEMMA SliceTail ==
  ASSUME NEW its, NEW lo \in Nat, NEW hi \in Nat, lo < hi,
         \A n \in lo+1..hi : its[n].body \in Bodies
  PROVE  /\ Slice(its, lo, hi) # <<>>
         /\ Tail(Slice(its, lo, hi)) = Slice(its, lo + 1, hi)
<1> DEFINE a == Slice(its, lo, hi)
           b == Slice(its, lo + 1, hi)
<1>0. lo + 1 \in Nat /\ lo + 1 <= hi
      /\ \A n \in (lo+1)+1..hi : its[n].body \in Bodies
  BY SMT
<1>le. lo <= hi
  BY SMT
<1>1. /\ a \in Seq(Bodies) /\ Len(a) = hi - lo
      /\ \A i \in 1..(hi - lo) : a[i] = its[lo + i].body
  BY <1>le, SliceSeq, Zenon
<1>2. /\ b \in Seq(Bodies) /\ Len(b) = hi - (lo + 1)
      /\ \A i \in 1..(hi - (lo + 1)) : b[i] = its[(lo + 1) + i].body
  BY <1>0, SliceSeq, ZenonT(60)
<1> HIDE DEF a, b
<1>3. a # <<>>
  BY <1>1, SMT
<1>4. /\ Tail(a) \in Seq(Bodies) /\ Len(Tail(a)) = (hi - lo) - 1
      /\ \A i \in 1..((hi - lo) - 1) : Tail(a)[i] = a[i + 1]
  BY <1>1, <1>3, HeadTailProperties, SMT
<1>5. ASSUME NEW i \in 1..((hi - lo) - 1) PROVE Tail(a)[i] = b[i]
  <2>1. i + 1 \in 1..(hi - lo) /\ i \in 1..(hi - (lo + 1))
        /\ lo + (i + 1) = (lo + 1) + i
    BY SMT
  <2> QED BY <1>1, <1>2, <1>4, <2>1
<1>6. Len(Tail(a)) = Len(b)
  BY <1>2, <1>4, SMT
<1> QED BY <1>2, <1>3, <1>4, <1>5, <1>6, SeqEqual, Zenon DEF a, b

\* ... and a range that grows by one message is an Append.
LEMMA SliceAppend ==
  ASSUME NEW its, NEW lo \in Nat, NEW hi \in Nat, lo <= hi,
         \A n \in lo+1..hi+1 : its[n].body \in Bodies
  PROVE  Slice(its, lo, hi + 1) = Append(Slice(its, lo, hi), its[hi + 1].body)
<1> DEFINE a == Slice(its, lo, hi)
           b == Slice(its, lo, hi + 1)
           x == its[hi + 1].body
<1>0. /\ \A n \in lo+1..hi : its[n].body \in Bodies
      /\ hi + 1 \in Nat /\ lo <= hi + 1
  BY SMT
<1>1. /\ a \in Seq(Bodies) /\ Len(a) = hi - lo
      /\ \A i \in 1..(hi - lo) : a[i] = its[lo + i].body
  BY <1>0, SliceSeq, Zenon
<1>2. /\ b \in Seq(Bodies) /\ Len(b) = (hi + 1) - lo
      /\ \A i \in 1..((hi + 1) - lo) : b[i] = its[lo + i].body
  BY <1>0, SliceSeq, ZenonT(60)
<1>3. x \in Bodies /\ lo + ((hi - lo) + 1) = hi + 1
  BY SMT
<1> HIDE DEF a, b, x
<1>4. /\ Append(a, x) \in Seq(Bodies) /\ Len(Append(a, x)) = (hi - lo) + 1
      /\ \A i \in 1..(hi - lo) : Append(a, x)[i] = a[i]
      /\ Append(a, x)[(hi - lo) + 1] = x
  BY <1>1, <1>3, AppendProperties, SMT
<1>5. ASSUME NEW i \in 1..((hi + 1) - lo) PROVE b[i] = Append(a, x)[i]
  <2>1. CASE i \in 1..(hi - lo)
    BY <1>1, <1>2, <1>4, <2>1
  <2>2. CASE i = (hi - lo) + 1
    BY <1>2, <1>3, <1>4, <2>2 DEF x
  <2>3. i \in 1..(hi - lo) \/ i = (hi - lo) + 1
    BY SMT
  <2> QED BY <2>1, <2>2, <2>3, Zenon
<1>6. Len(b) = Len(Append(a, x)) /\ \A i \in 1..Len(b) : b[i] = Append(a, x)[i]
  BY <1>2, <1>4, <1>5, SMT
<1>7. b = Append(a, x)
  BY <1>2, <1>4, <1>6, SeqEqual
<1> QED BY <1>7 DEF a, b, x

-----------------------------------------------------------------------------

Pending == Slice(items, st.DeliveredSeq, st.ReadySeq)
Staged  == Slice(items, st.ReadySeq, st.NextSeq)

\* The facts about the cursors that the mapping rests on.
LEMMA Cursors ==
  ASSUME IndInv
  PROVE  /\ st \in State
         /\ st.DeliveredSeq \in Nat /\ st.ReadySeq \in Nat /\ st.NextSeq \in Nat
         /\ st.DeliveredSeq <= st.ReadySeq /\ st.ReadySeq <= st.NextSeq
         /\ (st.Phase # "stream" => st.ReadySeq = 0)
         /\ Earliest \in Nat /\ Earliest <= st.DeliveredSeq + 1
         /\ DOMAIN items = Earliest..st.NextSeq
         /\ \A n \in st.DeliveredSeq + 1 .. st.NextSeq :
               n \in DOMAIN items /\ items[n].body \in Bodies
<1>1. /\ st \in State
      /\ st.DeliveredSeq \in Nat /\ st.ReadySeq \in Nat /\ st.NextSeq \in Nat
      /\ st.DeliveredSeq <= st.ReadySeq /\ st.ReadySeq <= st.NextSeq
      /\ (st.Phase # "stream" => st.ReadySeq = 0)
      /\ Earliest \in Nat /\ Earliest <= st.DeliveredSeq + 1
      /\ DOMAIN items = Earliest..st.NextSeq
  BY SMT DEF IndInv, TypeOK, State, CursorOrder, NoGap, Earliest
<1>2. \A n \in DOMAIN items : items[n].body \in Bodies
  BY DEF IndInv, TypeOK, Message
<1> QED BY <1>1, <1>2, SMT

\* The mapped variables are sequences of bodies.
LEMMA MapsToOutboxTypes ==
  ASSUME IndInv
  PROVE  Promise!Init
<1>1. \A n \in st.DeliveredSeq + 1 .. st.ReadySeq : items[n].body \in Bodies
  BY Cursors, SMT
<1>2. \A n \in st.ReadySeq + 1 .. st.NextSeq : items[n].body \in Bodies
  BY Cursors, SMT
<1>3. Pending \in Seq(Bodies)
  BY <1>1, Cursors, SliceSeq, Zenon DEF Pending
<1>4. Staged \in Seq(Bodies)
  BY <1>2, Cursors, SliceSeq, Zenon DEF Staged
<1> QED BY <1>3, <1>4 DEF Promise!Init, Promise!TypeOK, Pending, Staged

\* A step that empties the queue when nothing is visible discards the staged
\* messages.
LEMMA MapsToDiscard ==
  ASSUME IndInv, st.DeliveredSeq = st.ReadySeq,
         st'.DeliveredSeq = 0, st'.ReadySeq = 0, st'.NextSeq = 0
  PROVE  Promise!Discard
<1>1. Pending = <<>> /\ Pending' = <<>> /\ Staged' = <<>>
  BY Cursors, SliceEmpty DEF Pending, Staged
<1> QED BY <1>1 DEF Promise!Discard, Pending, Staged

\* A step that only moves ReadySeq to NextSeq commits.
LEMMA MapsToCommit ==
  ASSUME IndInv, items' = items, st'.DeliveredSeq = st.DeliveredSeq,
         st'.NextSeq = st.NextSeq, st'.ReadySeq = st.NextSeq
  PROVE  Promise!Commit
<1>0. \A n \in st.DeliveredSeq + 1 .. st.NextSeq : items[n].body \in Bodies
  BY Cursors
<1>1. Pending' = Pending \o Staged
  <2>1. Slice(items, st.DeliveredSeq, st.NextSeq)
          = Slice(items, st.DeliveredSeq, st.ReadySeq)
            \o Slice(items, st.ReadySeq, st.NextSeq)
    BY <1>0, Cursors, SliceConcat, ZenonT(60)
  <2> QED BY <2>1 DEF Pending, Staged
<1>2. Staged' = <<>>
  BY Cursors, SliceEmpty DEF Staged
<1> QED BY <1>1, <1>2 DEF Promise!Commit, Pending, Staged

\* A step that moves none of the three cursors and keeps every body is invisible.
LEMMA MapsToStutter ==
  ASSUME IndInv, st'.DeliveredSeq = st.DeliveredSeq,
         st'.NextSeq = st.NextSeq, st'.ReadySeq = st.ReadySeq,
         \A n \in st.DeliveredSeq + 1 .. st.NextSeq : items'[n].body = items[n].body
  PROVE  UNCHANGED <<Pending, Staged>>
<1>1. /\ \A n \in st.DeliveredSeq + 1 .. st.ReadySeq : items'[n].body = items[n].body
      /\ \A n \in st.ReadySeq + 1 .. st.NextSeq : items'[n].body = items[n].body
  BY Cursors, SMT
<1>2. Slice(items', st.DeliveredSeq, st.ReadySeq) = Pending
  BY <1>1, Cursors, SliceKept DEF Pending
<1>3. Slice(items', st.ReadySeq, st.NextSeq) = Staged
  BY <1>1, Cursors, SliceKept DEF Staged
<1> QED BY <1>2, <1>3 DEF Pending, Staged

\* Every transaction of the queue is a step of the outbox, or invisible in it.
LEMMA MapsStep ==
  ASSUME IndInv, Next
  PROVE  Promise!Next \/ UNCHANGED <<Pending, Staged>>
<1>0. st \in State
  BY Cursors
<1>1. ASSUME NEW hash \in Hashes, Initialize(hash) PROVE Promise!Discard
  <2>1. st.ReadySeq = 0 /\ st.DeliveredSeq = 0
    BY <1>1, Cursors, SMT DEF Initialize
  <2>2. st'.DeliveredSeq = 0 /\ st'.ReadySeq = 0 /\ st'.NextSeq = 0
    BY <1>1 DEF Initialize, Blank
  <2> QED BY <2>1, <2>2, MapsToDiscard
<1>2. ASSUME NEW lsn \in LSNs, SnapshotPoint(lsn) PROVE UNCHANGED <<Pending, Staged>>
  <2>1. /\ st'.DeliveredSeq = st.DeliveredSeq /\ st'.NextSeq = st.NextSeq
        /\ st'.ReadySeq = st.ReadySeq /\ items' = items
    BY <1>0, <1>2 DEF SnapshotPoint, State
  <2> QED BY <2>1, MapsToStutter
<1>3. ASSUME NEW lsn \in LSNs, FinalizeSnapshotLSN(lsn)
      PROVE  UNCHANGED <<Pending, Staged>>
  <2>1. /\ st'.DeliveredSeq = st.DeliveredSeq /\ st'.NextSeq = st.NextSeq
        /\ st'.ReadySeq = st.ReadySeq /\ items' = Finalized(lsn)
    BY <1>0, <1>3 DEF FinalizeSnapshotLSN, State
  <2>2. \A n \in DOMAIN items : Finalized(lsn)[n].body = items[n].body
    <3> TAKE n \in DOMAIN items
    <3>1. items[n] \in Message
      BY DEF IndInv, TypeOK
    <3>2. \/ Finalized(lsn)[n] = items[n]
          \/ Finalized(lsn)[n] = [items[n] EXCEPT !.LSN = lsn,
               !.size = items[n].size - LsnLen(items[n].LSN) + LsnLen(lsn)]
      BY DEF Finalized
    <3> QED BY <3>1, <3>2, Zenon DEF Message
  <2>3. \A n \in st.DeliveredSeq + 1 .. st.NextSeq : items'[n].body = items[n].body
    BY <2>1, <2>2, Cursors
  <2> QED BY <2>1, <2>3, MapsToStutter
<1>4. CASE Stage
  <2>1. PICK m \in Messages : AppendMessage(m)
    BY <1>4 DEF Stage
  <2>2. /\ items' = [n \in DOMAIN items \cup {st.NextSeq + 1} |->
                       IF n = st.NextSeq + 1 THEN Stamped(m) ELSE items[n]]
        /\ st' = [st EXCEPT !.NextSeq = st.NextSeq + 1,
                            !.Bytes = st.Bytes + Stamped(m).size]
    BY <2>1 DEF AppendMessage
  <2>3. st'.DeliveredSeq = st.DeliveredSeq /\ st'.ReadySeq = st.ReadySeq
        /\ st'.NextSeq = st.NextSeq + 1
    BY <1>0, <2>2 DEF State
  <2>4. /\ \A n \in st.DeliveredSeq + 1 .. st.NextSeq : items'[n] = items[n]
        /\ items'[st.NextSeq + 1] = Stamped(m)
    BY <2>2, Cursors, SMT
  <2>5. Stamped(m).body = m.body /\ m.body \in Bodies
    BY DEF Stamped, Messages
  <2>6. Pending' = Pending
    <3>1. \A n \in st.DeliveredSeq + 1 .. st.ReadySeq : items'[n].body = items[n].body
      BY <2>4, Cursors, SMT
    <3>2. Slice(items', st.DeliveredSeq, st.ReadySeq) = Pending
      BY <3>1, Cursors, SliceKept DEF Pending
    <3> QED BY <2>3, <3>2 DEF Pending
  <2>7. Staged' = Append(Staged, m.body)
    <3>1. Slice(items', st.ReadySeq, st.NextSeq) = Staged
      <4>1. \A n \in st.ReadySeq + 1 .. st.NextSeq : items'[n].body = items[n].body
        BY <2>4, Cursors, SMT
      <4> QED BY <4>1, Cursors, SliceKept DEF Staged
    <3>2. \A n \in st.ReadySeq + 1 .. st.NextSeq + 1 : items'[n].body \in Bodies
      <4> TAKE n \in st.ReadySeq + 1 .. st.NextSeq + 1
      <4>1. CASE n = st.NextSeq + 1
        BY <2>4, <2>5, <4>1
      <4>2. CASE n # st.NextSeq + 1
        <5>1. n \in st.DeliveredSeq + 1 .. st.NextSeq
          BY <4>2, Cursors, SMT
        <5> QED BY <2>4, <5>1, Cursors
      <4> QED BY <4>1, <4>2
    <3>3. Slice(items', st.ReadySeq, st.NextSeq + 1)
            = Append(Slice(items', st.ReadySeq, st.NextSeq), items'[st.NextSeq + 1].body)
      BY <3>2, Cursors, SliceAppend, Zenon
    <3> QED BY <2>3, <2>4, <2>5, <3>1, <3>3 DEF Staged
  <2>8. Promise!Stage(m.body)
    BY <2>6, <2>7 DEF Promise!Stage, Pending, Staged
  <2> QED BY <2>5, <2>8 DEF Promise!Next
<1>5. CASE SealSnapshot \/ PublishTransaction
  <2>1. PICK lsn \in LSNs, seal \in BOOLEAN, cleanup \in Tokens \cup {None} :
          PublishSource(lsn, seal, cleanup)
    BY <1>5, Zenon DEF SealSnapshot, PublishTransaction, Publish
  <2>2. items' = items /\ st'.DeliveredSeq = st.DeliveredSeq
        /\ st'.NextSeq = st.NextSeq /\ st'.ReadySeq = st.NextSeq
    BY <1>0, <2>1 DEF PublishSource, State
  <2> QED BY <2>2, MapsToCommit DEF Promise!Next
<1>6. ASSUME NEW lsn \in LSNs, NEW hash \in Hashes, PublishSchema(lsn, hash)
      PROVE  Promise!Commit
  <2>1. items' = items /\ st'.DeliveredSeq = st.DeliveredSeq
        /\ st'.NextSeq = st.NextSeq /\ st'.ReadySeq = st.NextSeq
    BY <1>0, <1>6 DEF PublishSchema, State
  <2> QED BY <2>1, MapsToCommit
<1>7. ASSUME NEW token \in Tokens, ClearSourceCleanup(token)
      PROVE  UNCHANGED <<Pending, Staged>>
  <2>1. /\ st'.DeliveredSeq = st.DeliveredSeq /\ st'.NextSeq = st.NextSeq
        /\ st'.ReadySeq = st.ReadySeq /\ items' = items
    BY <1>0, <1>7 DEF ClearSourceCleanup, State
  <2> QED BY <2>1, MapsToStutter
<1>8. CASE Recover
  <2>1. /\ items' = [n \in DOMAIN items \ Unpublished |-> items[n]]
        /\ st' = [st EXCEPT !.Bytes = st.Bytes - Total(items, st.ReadySeq + 1, st.NextSeq),
                            !.NextSeq = st.ReadySeq]
    BY <1>8 DEF Recover
  <2>2. st'.DeliveredSeq = st.DeliveredSeq /\ st'.ReadySeq = st.ReadySeq
        /\ st'.NextSeq = st.ReadySeq
    BY <1>0, <2>1 DEF State
  <2>3. \A n \in st.DeliveredSeq + 1 .. st.ReadySeq : items'[n].body = items[n].body
    BY <2>1, Cursors, SMT DEF Unpublished
  <2>4. Pending' = Pending
    <3>1. Slice(items', st.DeliveredSeq, st.ReadySeq) = Pending
      BY <2>3, Cursors, SliceKept DEF Pending
    <3> QED BY <2>2, <3>1 DEF Pending
  <2>5. Staged' = <<>>
    BY <2>2, Cursors, SliceEmpty DEF Staged
  <2>6. Promise!Discard
    BY <2>4, <2>5 DEF Promise!Discard, Pending, Staged
  <2> QED BY <2>6 DEF Promise!Next
<1>9. CASE ResetForSnapshot
  <2>1. st.DeliveredSeq = st.ReadySeq
    BY <1>9 DEF ResetForSnapshot
  <2>2. st'.DeliveredSeq = 0 /\ st'.ReadySeq = 0 /\ st'.NextSeq = 0
    BY <1>9 DEF ResetForSnapshot, Blank
  <2> QED BY <2>1, <2>2, MapsToDiscard DEF Promise!Next
<1>10. CASE Deliver
  <2>1. PICK expired \in SUBSET DOMAIN items, seq \in DOMAIN items :
           Ack(seq, MessageID(seq), expired)
    BY <1>10 DEF Deliver
  <2> DEFINE first == IF st.EarliestSeq = 0 THEN 1 ELSE st.EarliestSeq
             archive == st.ArchiveBytes + SizeAt(items, seq)
  <2>2. seq = st.DeliveredSeq + 1 /\ seq <= st.ReadySeq
    BY <2>1 DEF Ack
  <2>3. PICK e \in first..(seq + 1) :
          /\ items' = [n \in DOMAIN items \ (first..(e - 1)) |-> items[n]]
          /\ st' = [st EXCEPT !.Bytes = st.Bytes - SizeAt(items, seq),
                              !.ArchiveBytes = archive - Total(items, first, e - 1),
                              !.DeliveredSeq = seq, !.EarliestSeq = e]
    BY <2>1, Zenon DEF Ack
  <2> HIDE DEF archive
  <2>4. st'.DeliveredSeq = seq /\ st'.ReadySeq = st.ReadySeq /\ st'.NextSeq = st.NextSeq
    BY <1>0, <2>3 DEF State
  <2>5. first \in Nat /\ e \in Nat /\ e - 1 <= seq
    BY <1>0, <2>2, <2>3, Cursors, SMTT(30) DEF State
  <2>6. \A n \in seq + 1 .. st.NextSeq : items'[n].body = items[n].body
    <3> TAKE n \in seq + 1 .. st.NextSeq
    <3>1. n \notin first..(e - 1) /\ n \in DOMAIN items
      BY <2>2, <2>5, Cursors, SMTT(30)
    <3> QED BY <2>3, <3>1
  <2>7. Staged' = Staged
    <3>1. \A n \in st.ReadySeq + 1 .. st.NextSeq : items'[n].body = items[n].body
      BY <2>2, <2>6, Cursors, SMTT(30)
    <3>2. Slice(items', st.ReadySeq, st.NextSeq) = Staged
      BY <3>1, Cursors, SliceKept, Zenon DEF Staged
    <3> QED BY <2>4, <3>2 DEF Staged
  <2>8. Slice(items', seq, st.ReadySeq) = Slice(items, seq, st.ReadySeq)
    <3>1. \A n \in seq + 1 .. st.ReadySeq : items'[n].body = items[n].body
      BY <2>2, <2>6, Cursors, SMTT(30)
    <3>2. seq \in Nat /\ st.ReadySeq \in Nat
      BY <2>2, Cursors, SMT
    <3> QED BY <3>1, <3>2, SliceKept
  <2>9. Pending # <<>> /\ Tail(Pending) = Slice(items, seq, st.ReadySeq)
    <3>1. st.DeliveredSeq < st.ReadySeq
      BY <2>2, Cursors, SMT
    <3>2. \A n \in st.DeliveredSeq + 1 .. st.ReadySeq : items[n].body \in Bodies
      BY Cursors, SMT
    <3> QED BY <2>2, <3>1, <3>2, Cursors, SliceTail, ZenonT(60) DEF Pending
  <2>10. Pending' = Tail(Pending)
    BY <2>4, <2>8, <2>9 DEF Pending
  <2>11. Promise!Consume
    BY <2>7, <2>9, <2>10 DEF Promise!Consume, Pending, Staged
  <2> QED BY <2>11 DEF Promise!Next
<1> QED BY <1>1, <1>2, <1>3, <1>4, <1>5, <1>6, <1>7, <1>8, <1>9, <1>10
        DEF Next, Promise!Next

\* The durable queue of queue.go is a transactional FIFO: what is published is
\* published all at once, keeps its order, leaves only by being acknowledged
\* in that order, and recovery discards only what was never published.
THEOREM QueueImplementsOutbox == Spec => ImplementsOutbox
<1>1. Init => Promise!Init
  BY InitInv, MapsToOutboxTypes
<1>2. IndInv /\ [Next]_queueVars => [Promise!Next]_(Promise!vars)
  <2> SUFFICES ASSUME IndInv, [Next]_queueVars
               PROVE  Promise!Next \/ UNCHANGED Promise!vars
    OBVIOUS
  <2>1. CASE Next
    BY <2>1, MapsStep DEF Promise!vars, Pending, Staged
  <2>2. CASE UNCHANGED queueVars
    BY <2>2 DEF queueVars, Promise!vars, Slice
  <2> QED BY <2>1, <2>2
<1> QED BY <1>1, <1>2, Invariance, PTL DEF Spec, ImplementsOutbox, Promise!Spec
=============================================================================

------------------------------- MODULE Digest -------------------------------
(***************************************************************************)
(* internal/reconcile: the digest that collectors compute over a source    *)
(* table and the server over its copy.  Rows are spread over buckets by    *)
(* their identity; each bucket keeps a count, an exclusive or and a sum of *)
(* row hashes, so the order of the rows does not matter and no row is      *)
(* kept.                                                                   *)
(*                                                                         *)
(* A row value stands for a row in the form that normalize gives it on     *)
(* both sides.  SHA-256 over the columns of a row is RowHash, over its     *)
(* identity KeyHash; the one over the three accumulators is the triple of  *)
(* them.                                                                   *)
(***************************************************************************)
EXTENDS Naturals, Bitwise, FiniteSets, SequencesExt

CONSTANTS RowHash,      \* row value -> hash of the row
          KeyHash,      \* row value -> hash of its identity
          Buckets,      \* reconcile.buckets
          Width         \* bits of a hash

ASSUME DigestAssumption == /\ Buckets \in Nat \ {0} /\ Width \in Nat \ {0}
                           /\ \A v \in DOMAIN RowHash : RowHash[v] \in 0 .. 2^Width - 1

Empty == [rows |-> 0, xor |-> 0, sum |-> 0]

\* Variant of Add: the sum is left out.
AddWithoutSum(a, hash) ==
  [rows |-> a.rows + 1, xor |-> a.xor ^^ hash, sum |-> 0]

\* accumulator.add: the sum carries from byte to byte and wraps at the width of the hash.
Add(a, hash) ==
  [rows |-> a.rows + 1, xor |-> a.xor ^^ hash, sum |-> (a.sum + hash) % 2^Width]

Bucket(v) == KeyHash[v] % Buckets

\* Builder: one accumulator per bucket, fed row by row in scan order.
Digests(rows) ==
  LET Feed(acc, v) == [acc EXCEPT ![Bucket(v)] = Add(@, RowHash[v])]
  IN  FoldLeft(Feed, [b \in 0 .. Buckets - 1 |-> Empty], rows)

\* sameDigests: the number of buckets that differ.
Mismatches(source, target) == Cardinality({b \in DOMAIN source : source[b] # target[b]})

\* What the digest is to decide: both hold the same rows, each as often.
SameRows(s, t) == ToBag(s) = ToBag(t)
=============================================================================

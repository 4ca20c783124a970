-------------------------- MODULE MCReconciliation --------------------------
(* Two small tables, and a target that holds the same rows in another     *)
(* order or others.  The others agree with the source in two of the three  *)
(* accumulators: <<b, b, d>> in count and sum, and <<a, b, b>>, once c is   *)
(* inserted, in count and exclusive or.                                     *)
EXTENDS Reconciliation

CONSTANTS a, b, c, d

MCRowHash == (a :> 1) @@ (b :> 2) @@ (c :> 3) @@ (d :> 5)
MCKeyHash == (a :> 1) @@ (b :> 1) @@ (c :> 1) @@ (d :> 2)

MCBase == << <<a, c>>, <<a, c, d>> >>
MCCopies == {<< <<c, a>>, <<d, c, a>> >>, << <<a, b, b>>, <<b, b, d>> >>}
MCWrites == {[table |-> 1, value |-> c]}
MCBodies == ({"row"} \X (1..MaxWrites)) \cup ({"snapshot"} \X (0..MaxWrites))
=============================================================================

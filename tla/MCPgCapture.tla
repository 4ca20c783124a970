---------------------------- MODULE MCPgCapture -----------------------------
(* PostgreSQL capture of a few short transactions.  The table has no        *)
(* primary key at first, is then given one, and then loses a column.        *)
EXTENDS PgCapture

MCSchemas ==
  [v \in Versions |->
     CASE v = 1 -> [columns |-> {"id", "a", "b"}, key |-> {}, full |-> TRUE]
       [] v = 2 -> [columns |-> {"id", "a", "b"}, key |-> {"id"}, full |-> FALSE]
       [] v = 3 -> [columns |-> {"id", "a"}, key |-> {"id"}, full |-> FALSE]]

Insert == [op |-> "insert", toast |-> {}]
Delete == [op |-> "delete", toast |-> {}]
Update == [op |-> "update", toast |-> {"a"}]

MCRowChanges == {<<Delete, Update, Insert, Insert>>, <<Insert>>}
=============================================================================

------------------------------ MODULE MCTarget ------------------------------
(* Message contents for instances of Target: one keyless table replicated   *)
(* under two schema versions, or files of one and of two chunks.            *)
EXTENDS Target

CONSTANTS t1, v1, v2, a, c1, c2, x1, x2, f1, d1, d2

MCSchemaCols == [v \in {v1, v2} |-> IF v = v1 THEN {c1} ELSE {c1, c2}]

Body(kind, version, tx) ==
  [kind |-> kind, version |-> version, tx |-> tx, scope |-> {t1}, table |-> t1,
   rows |-> <<>>, file |-> None, chunk |-> 0, data |-> None]

Row(op, version) == [table |-> t1, op |-> op, old |-> a, new |-> a,
                     cols |-> MCSchemaCols[version]]

WithRows(body, op) == [body EXCEPT !.rows = <<Row(op, body.version)>>]

SnapshotBodies(v) == {Body(k, v, None) : k \in {"snapshot_begin", "schema", "snapshot_end"}}
                     \cup {WithRows(Body("snapshot_rows", v, None), "read")}

TransactionBodies(v, x, ops) ==
  {Body("transaction_end", v, x)}
  \cup {WithRows(Body("transaction_rows", v, x), op) : op \in ops}

\* Snapshot under v1, transactions under either version, refresh to either.
RowBodies == SnapshotBodies(v1)
             \cup TransactionBodies(v1, x1, {"insert", "delete"})
             \cup TransactionBodies(v1, x2, {"insert"})
             \cup TransactionBodies(v2, x1, {"insert"})
             \cup {Body(k, v, None) : k \in {"schema", "schema_end"}, v \in {v1, v2}}

File(op, content) == [path |-> f1, op |-> op, content |-> content]

FileBodies ==
  {[Body(k, None, None) EXCEPT !.scope = {}] : k \in {"snapshot_begin", "snapshot_end"}}
  \cup {[Body(k, None, x) EXCEPT !.file = File("create", <<d1, d2>>)] :
          k \in {"file_begin", "file_end"}, x \in {x1}}
  \cup {[Body("file_chunk", None, x1) EXCEPT
           !.file = File("create", <<d1, d2>>), !.chunk = i, !.data = d] :
          <<i, d>> \in {<<0, d1>>, <<1, d2>>}}
  \cup {[Body(k, None, x2) EXCEPT !.file = File("update", <<d2>>)] :
          k \in {"file_begin", "file_end"}}
  \cup {[Body("file_chunk", None, x2) EXCEPT !.file = File("update", <<d2>>), !.data = d2]}
  \cup {[Body("file_delete", None, None) EXCEPT !.file = File("delete", <<>>)]}

\* A generation is one of rows or one of files: version None marks the latter.
AllBodies == RowBodies \cup FileBodies
=============================================================================

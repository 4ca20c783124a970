----------------------------- MODULE CdcChanges -----------------------------
(***************************************************************************)
(* How internal/sqlserver turns the change rows of one transaction into    *)
(* row events: changesQuery orders them, readChanges pairs the images of   *)
(* updates and convertChange builds the events.                            *)
(*                                                                         *)
(* A table row is a function from columns to values.  SQL Server leaves    *)
(* out of an update's images what did not change of a MAX column (before)  *)
(* or of a legacy LOB column (after), and may encode the update of a key   *)
(* as a deletion and an insertion at the same place.                       *)
(***************************************************************************)
EXTENDS Integers, Sequences, FiniteSets, FiniteSetsExt, SequencesExt

CONSTANTS Null,         \* NULL, and absence
          Layout,       \* table number -> column -> "key", "plain", "max" or "lob"
          Domain,       \* table number -> the rows it may hold
          Stored,       \* table number -> the rows it holds before the transaction
          Commanded     \* tables whose change table has __$command_id

SourceTables == DOMAIN Layout
Of(t, type) == {c \in DOMAIN Layout[t] : Layout[t][c] = type}

\* Table.RowIdentity: the primary key, or every column.
Identity(t) == IF Of(t, "key") # {} THEN Of(t, "key") ELSE DOMAIN Layout[t]

-----------------------------------------------------------------------------
(* What the application does, and what the server records of it.           *)

\* An operation turns a row into another one; Null is no row.
Operations(tables) ==
  UNION {{o \in [table : {t}, old : tables[t] \cup {Null}, new : Domain[t] \cup {Null},
                 split : BOOLEAN] :
            /\ o.old # o.new
            /\ o.new # Null =>
                 \A r \in tables[t] \ {o.old} : \E c \in Identity(t) : r[c] # o.new[c]
            /\ o.split => /\ o.old # Null /\ o.new # Null
                          /\ \E c \in Of(t, "key") : o.old[c] # o.new[c]} :
         t \in SourceTables}

Do(tables, o) == [tables EXCEPT ![o.table] = (@ \ {o.old}) \cup ({o.new} \ {Null})]

Transactions == UNION {{<<p, q>> : q \in Operations(Do(Stored, p))} : p \in Operations(Stored)}

Masked(row, columns) == [c \in DOMAIN row |-> IF c \in columns THEN Null ELSE row[c]]

\* The change rows of the n-th operation.
Images(n, o) ==
  LET Row(op, values, mask) == [table |-> o.table, seq |-> n, operation |-> op, mask |-> mask,
                                values |-> values,
                                command |-> IF o.table \in Commanded THEN n ELSE 0]
  IN  IF o.old = Null THEN {Row(2, o.new, {})}
      ELSE IF o.new = Null THEN {Row(1, o.old, {})}
      ELSE IF o.split THEN {Row(1, o.old, {}), Row(2, o.new, {})}
      ELSE LET kept == {c \in DOMAIN o.new : o.old[c] = o.new[c]}
               mask == DOMAIN o.new \ kept
           IN  {Row(3, Masked(o.old, Of(o.table, "max") \cap kept), mask),
                Row(4, Masked(o.new, Of(o.table, "lob") \cap kept), mask)}

Recorded(w) == UNION {Images(n, w[n]) : n \in DOMAIN w}

-----------------------------------------------------------------------------
(* changesQuery, readChanges and convertChange.                            *)

\* ORDER BY command_id, seqval, table_number, operation.
Precedes(a, b) ==
  LET p == <<a.command, a.seq, a.table, a.operation>>
      q == <<b.command, b.seq, b.table, b.operation>>
  IN  \E i \in 1..4 : p[i] < q[i] /\ \A j \in 1 .. i - 1 : p[j] = q[j]

SamePosition(a, b) == a.table = b.table /\ a.seq = b.seq /\ a.command = b.command

RowKey(t, values) == [c \in Identity(t) |-> values[c]]

\* Variant of OldValues: what the before image leaves out is taken for NULL.
OldValuesAsRead(r, before) == before.values

\* The before image; an unchanged MAX value is taken from the after image.
OldValues(r, before) ==
  [c \in DOMAIN r.values |-> IF c \in Of(r.table, "max") \ r.mask THEN r.values[c]
                             ELSE before.values[c]]

NullKey(t, values) == \E c \in Of(t, "key") : values[c] = Null

\* An event, or Null for an error: a key that is NULL or a missing image.
ConvertChange(r, before) ==
  LET event == [table |-> r.table, key |-> RowKey(r.table, r.values)]
      sent == DOMAIN r.values \ (Of(r.table, "lob") \ r.mask)
  IN  CASE NullKey(r.table, r.values) -> Null
        [] r.operation = 1 -> event @@ [op |-> "delete"]
        [] r.operation = 2 -> event @@ [op |-> "insert", columns |-> r.values]
        [] r.operation = 4 /\ before # Null /\ ~NullKey(r.table, OldValues(r, before)) ->
             event @@ [op |-> "update", columns |-> Restrict(r.values, sent),
                       oldKey |-> RowKey(r.table, OldValues(r, before))]
        [] OTHER -> Null

\* One change row after another; an error ends the transaction.
Assemble(changes) ==
  LET Failed(acc, r) ==
        \/ acc.error
        \/ acc.previous # Null /\ SamePosition(acc.previous, r)
             /\ acc.previous.operation = r.operation
        \/ acc.before # Null /\ (r.operation # 4 \/ ~SamePosition(acc.before, r))
        \/ r.operation # 3 /\ ConvertChange(r, acc.before) = Null
      Step(acc, r) ==
        IF Failed(acc, r) THEN [acc EXCEPT !.error = TRUE]
        ELSE IF r.operation = 3 THEN [acc EXCEPT !.previous = r, !.before = r]
        ELSE [acc EXCEPT !.previous = r, !.before = Null,
                         !.events = Append(@, ConvertChange(r, acc.before))]
      end == FoldLeft(Step, [error |-> FALSE, previous |-> Null, before |-> Null, events |-> <<>>],
                      SetToSortSeq(changes, Precedes))
  IN  IF end.error \/ end.before # Null THEN Null ELSE end.events

-----------------------------------------------------------------------------
(* What the events are to achieve.                                         *)

\* applyRow of the server on its copy of the tables; Null once a row failed, which
\* rolls the whole transaction back: nothing to write, no row with the identity,
\* or a primary key that is taken.
Apply(tables, e) ==
  LET Named(key) == {r \in tables[e.table] : RowKey(e.table, r) = key}
      old == CASE e.op = "insert" -> {}
               [] e.op = "update" -> Named(e.oldKey)
               [] e.op = "delete" -> Named(e.key)
      new == CASE e.op = "insert" -> {e.columns}
               [] e.op = "update" -> {e.columns @@ r : r \in old}
               [] e.op = "delete" -> {}
      kept == tables[e.table] \ old
      taken == \E r \in kept, s \in new : RowKey(e.table, r) = RowKey(e.table, s)
  IN  IF \/ tables = Null
         \/ e.op # "delete" /\ DOMAIN e.columns = {}
         \/ e.op # "insert" /\ old = {}
         \/ Of(e.table, "key") # {} /\ taken
      THEN Null
      ELSE [tables EXCEPT ![e.table] = kept \cup new]

\* The change rows of every transaction are accepted, here and by the server, and
\* their events turn the server's copy of the tables into what the transaction
\* made of the tables.
Faithful == \A w \in Transactions :
              LET events == Assemble(Recorded(w))
              IN  events # Null /\ FoldLeft(Apply, Stored, events) = FoldLeft(Do, Stored, w)
=============================================================================

----------------------------- MODULE MCMyBinlog -----------------------------
(* A binlog of a few events.  In Distinct every schema version has another *)
(* number of columns; in Renamed the last two have the same number.        *)
EXTENDS MyBinlog

Distinct == [v \in Versions |-> v]
Renamed == [v \in Versions |-> IF v = 1 THEN 1 ELSE 2]

AllShapes == {<<>>, <<"row">>, <<"row", "row", "row">>, <<"savepoint", "row">>,
              <<"row", "savepoint">>}
RowShapes == {<<>>, <<"row">>, <<"row", "row", "row">>}
=============================================================================

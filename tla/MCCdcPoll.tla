----------------------------- MODULE MCCdcPoll ------------------------------
(* A short log with a fence in it, and transactions of two operations on a *)
(* keyed and a keyless table.  Faithful says that CdcChanges accepts the   *)
(* change rows of each of them, hence RowsRejected = FALSE in the config.  *)
EXTENDS CdcPoll, CdcChanges

CONSTANTS x, y

MCLayout == << [id |-> "key", doc |-> "max", img |-> "lob"], [n |-> "plain", doc |-> "max"] >>
MCDomain == << [id : {x, y}, doc : {x, Null}, img : {x, y}], [n : {x, y}, doc : {x, Null}] >>
MCStored == << {[id |-> x, doc |-> x, img |-> x]}, {[n |-> x, doc |-> x]} >>

\* The row events staged for a transaction, applied to a copy of the tables, make
\* of it what the transaction made of the tables: values the server leaves out of
\* an update's images, key updates recorded as deletion and insertion, and change
\* tables with and without command numbers included (readChanges, convertChange).
EventsFaithful == pc \in {"transaction_rows", "transaction_end"} => Faithful
=============================================================================

--------------------------- MODULE MCLegacyOutbox ---------------------------
(* The legacy outbox with three events and two failures.                   *)
EXTENDS LegacyOutbox
=============================================================================

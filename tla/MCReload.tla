------------------------------ MODULE MCReload ------------------------------
(* Few reloads, streams and targets.                                       *)
EXTENDS Reload
=============================================================================

----------------------------- MODULE MCSession ------------------------------
(* Instances of Session; every bound is a constant of that module.          *)
EXTENDS Session
=============================================================================

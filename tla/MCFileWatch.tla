---------------------------- MODULE MCFileWatch -----------------------------
(* Two small files, a few changes and a crash.                             *)
EXTENDS FileWatch
=============================================================================

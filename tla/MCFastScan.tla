----------------------------- MODULE MCFastScan -----------------------------
(* Instances of FastScan for TLC. *)
EXTENDS FastScan

CONSTANTS f1, f2, da, db
=============================================================================

------------------------- MODULE MCServiceLifecycle -------------------------
(* Instances of ServiceLifecycle for TLC. *)
EXTENDS ServiceLifecycle, TLC

CONSTANTS t1, t2

Symmetric == Permutations(Task) \union Permutations(Cookie)
=============================================================================

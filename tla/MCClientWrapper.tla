-------------------------- MODULE MCClientWrapper --------------------------
(* Instances of ClientWrapper for TLC. *)
EXTENDS ClientWrapper, TLC

CONSTANTS c1, l1, l2, k1, k2, k3

Symmetric == Permutations(Login) \union Permutations(Cookie)
=============================================================================

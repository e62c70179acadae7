---------------------------- MODULE MCProxyMedia ----------------------------
(* Instances of ProxyMedia for TLC. *)
EXTENDS ProxyMedia, TLC

CONSTANTS q1, q2, i1, s1, s2, u1, u2, d1, d2

Symmetric == Permutations(Request) \union Permutations(Source) \union Permutations(Device)
=============================================================================

----------------------------- MODULE MCRedirect -----------------------------
(* Instances of RedirectService for TLC. *)
EXTENDS RedirectService, TLC

CONSTANTS q1, q2, p1, p2, a, b

AllFaults == {"copy", "refuse", "list", "fetch", "delete"}

\* Requests are interchangeable, and so are films and agents.
Symmetric == Permutations(Request) \union Permutations(Pickcode)
                                   \union Permutations(Agent)
=============================================================================

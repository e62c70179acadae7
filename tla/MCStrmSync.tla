----------------------------- MODULE MCStrmSync -----------------------------
(* Instances of StrmSync for TLC. *)
EXTENDS StrmSync, TLC

CONSTANTS f1, f2, r1, r2, pa, pb, pc1, sa, sb, sc, sd, h1, h2

\* A root inside another one: every path is inside r1, pc1 inside r2 as well.
Nested == r1 :> {pa, pb, pc1} @@ r2 :> {pc1}

\* Two mappings never share a .strm name: r2 has a directory of its own.
TwoDirectories ==
    r1 :> (pa :> sa @@ pb :> sb @@ pc1 :> sc) @@
    r2 :> (pa :> sd @@ pb :> sd @@ pc1 :> sd)

CleaningOptions == {[never |-> TRUE, cleanup |-> TRUE]}

\* pa and pb are alike, with the names that r1 gives them.
Exchanged == {pa :> pb @@ pb :> pa @@ sa :> sb @@ sb :> sa}

Symmetric == Permutations(File) \union Permutations(Sha) \union Exchanged
=============================================================================

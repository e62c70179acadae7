---------------------------- MODULE MCConfigStore ----------------------------
(* Instances of ConfigStore for TLC. *)
EXTENDS ConfigStore

CONSTANTS u1, u2, plain, other, s1, s2, k1, k2

\* The archive of another installation, with its own key.
ForeignArchive ==
    {[config |-> [set |-> other, sec |-> [val |-> s2, key |-> k2]], key |-> k2]}

=============================================================================

------------------------------ MODULE MCCheckin ------------------------------
(***************************************************************************)
(* Two days of two slots.  The only range that can be set ends before it   *)
(* begins, so that the default counts: the whole day.  One thread signs in *)
(* by hand: a second one that finds the lock taken changes nothing.        *)
(***************************************************************************)
EXTENDS CheckinScheduler, TLC

MCDefault == [from |-> 0, till |-> 1]
MCRanges == {[from |-> 1, till |-> 0]}
Perms == Permutations(Loop)
=============================================================================

------------------------------ MODULE KeyMutex ------------------------------
(***************************************************************************)
(* What AsyncKeyLock promises (utils.py): `async with acquire(key)` runs   *)
(* one body per key at a time; bodies of different keys run side by side.  *)
(***************************************************************************)
CONSTANTS Task, Key, None

VARIABLE owner      \* owner[k]: the task inside its body for k, or None

Init == owner = [k \in Key |-> None]

Acquire(t, k) ==
    /\ owner[k] = None
    /\ owner' = [owner EXCEPT ![k] = t]

Release(t, k) ==
    /\ owner[k] = t
    /\ owner' = [owner EXCEPT ![k] = None]

Next == \E t \in Task, k \in Key : Acquire(t, k) \/ Release(t, k)

Spec == Init /\ [][Next]_owner

=============================================================================

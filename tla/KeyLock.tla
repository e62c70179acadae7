------------------------------ MODULE KeyLock ------------------------------
(***************************************************************************)
(* AsyncKeyLock (utils.py): a table of asyncio locks, one per key in use,  *)
(* each with the number of tasks that use it; the entry goes when the last *)
(* one is done, and the next task for the key makes a new lock.            *)
(*                                                                         *)
(* asyncio runs one task at a time, from one await that suspends to the    *)
(* next.  The guard of the table is never held across such an await, so    *)
(* what it protects is one step.  A task may be cancelled at any await;    *)
(* asyncio tells it later, when it gets its turn.  The shielded _cleanup   *)
(* runs in a turn of its own, whatever happens to the task it belongs to.  *)
(*                                                                         *)
(* asyncio.Lock itself is library code: Awake, Resume and Abort follow its *)
(* release and acquire.  Its deque of waiters is kept as ahead[t], the     *)
(* tasks that come before t in it.                                         *)
(***************************************************************************)
EXTENDS FiniteSets, Naturals

CONSTANTS Task, Key, Lock, None

ASSUME NoneIsNothing ==
    None \notin Task \union Key \union Lock \union [lock: Lock, users: Nat]

VARIABLES
    table,      \* table[k]: [lock, users], or None
    held,       \* held[l]: Lock._locked
    pc,         \* where the task is
    key,        \* the key it asked for
    mine,       \* the lock object it found in, or put into, the table
    ahead       \* who is before it in the waiters of that lock

vars == <<table, held, pc, key, mine, ahead>>

\* "waiting": its future is pending; "woken": it has a result; "withdrawn":
\* cancelled while waiting; "interrupted": cancelled after it was woken.
Queued == {"waiting", "woken", "withdrawn", "interrupted"}
PC == {"idle", "body", "leave"} \union Queued

TypeOK ==
    /\ table \in [Key -> [lock: Lock, users: Nat \ {0}] \union {None}]
    /\ held \in [Lock -> BOOLEAN]
    /\ pc \in [Task -> PC]
    /\ key \in [Task -> Key \union {None}]
    /\ mine \in [Task -> Lock \union {None}]
    /\ ahead \in [Task -> SUBSET Task]
    /\ \A t \in Task : pc[t] # "idle" => key[t] \in Key /\ mine[t] \in Lock

Waiters(l) == {t \in Task : pc[t] \in Queued /\ mine[t] = l}

\* The tasks that have registered for k and have not been cleaned up yet.
Users(k) == {t \in Task : pc[t] # "idle" /\ key[t] = k}

-----------------------------------------------------------------------------
(* acquire: registering in the table, then Lock.acquire *)

\* No entry and no task refers to l: a new Lock() may be given its identity.
Fresh(l) ==
    /\ \A k \in Key : table[k] # None => table[k].lock # l
    /\ \A t \in Task : mine[t] # l

Register(t, k, l, users) ==
    /\ pc[t] = "idle"
    /\ table' = [table EXCEPT ![k] = [lock |-> l, users |-> users]]
    /\ key' = [key EXCEPT ![t] = k]
    /\ mine' = [mine EXCEPT ![t] = l]

\* The first user of a key makes the lock and has it at once.
EnterNew(t, k) ==
    /\ table[k] = None
    /\ \E l \in Lock :
          /\ Fresh(l)
          /\ Register(t, k, l, 1)
          /\ held' = [held EXCEPT ![l] = TRUE]
    /\ pc' = [pc EXCEPT ![t] = "body"]
    /\ UNCHANGED ahead

\* A free lock is taken past waiters that have all been cancelled.
EnterFree(t, k) ==
    /\ table[k] # None
    /\ ~held[table[k].lock]
    /\ \A u \in Waiters(table[k].lock) : pc[u] = "withdrawn"
    /\ Register(t, k, table[k].lock, table[k].users + 1)
    /\ held' = [held EXCEPT ![table[k].lock] = TRUE]
    /\ pc' = [pc EXCEPT ![t] = "body"]
    /\ UNCHANGED ahead

EnterBusy(t, k) ==
    /\ table[k] # None
    /\ \/ held[table[k].lock]
       \/ \E u \in Waiters(table[k].lock) : pc[u] # "withdrawn"
    /\ Register(t, k, table[k].lock, table[k].users + 1)
    /\ pc' = [pc EXCEPT ![t] = "waiting"]
    /\ ahead' = [ahead EXCEPT ![t] = Waiters(table[k].lock)]
    /\ UNCHANGED held

-----------------------------------------------------------------------------
(* asyncio.Lock *)

\* _wake_up_first: the first waiter's future gets a result unless it is done.
Awake(at, before, l) ==
    [t \in Task |-> IF at[t] = "waiting" /\ mine[t] = l /\ before[t] = {}
                    THEN "woken" ELSE at[t]]

\* t is no longer among the waiters.
Without(t) == [u \in Task |-> IF u = t THEN {} ELSE ahead[u] \ {t}]

\* A woken waiter gets its turn and has the lock.
Resume(t) ==
    /\ pc[t] = "woken"
    /\ held' = [held EXCEPT ![mine[t]] = TRUE]
    /\ pc' = [pc EXCEPT ![t] = "body"]
    /\ ahead' = Without(t)
    /\ UNCHANGED <<table, key, mine>>

\* The client is gone or the server stops: the task is cancelled as it waits.
Cancel(t) ==
    /\ pc[t] \in {"waiting", "woken"}
    /\ pc' = [pc EXCEPT ![t] = IF @ = "waiting" THEN "withdrawn"
                                               ELSE "interrupted"]
    /\ UNCHANGED <<table, held, key, mine, ahead>>

\* Mutant of Abort: a lock it was woken for is not handed on.
AbortQuietly(t) ==
    /\ pc[t] \in {"withdrawn", "interrupted"}
    /\ ahead' = Without(t)
    /\ pc' = [pc EXCEPT ![t] = "leave"]
    /\ UNCHANGED <<table, held, key, mine>>

\* CancelledError is raised in Lock.acquire: the waiter goes, and hands on a
\* free lock it may have been woken for.
Abort(t) ==
    /\ pc[t] \in {"withdrawn", "interrupted"}
    /\ ahead' = Without(t)
    /\ pc' = LET at == [pc EXCEPT ![t] = "leave"]
             IN  IF held[mine[t]] THEN at ELSE Awake(at, ahead', mine[t])
    /\ UNCHANGED <<table, held, key, mine>>

-----------------------------------------------------------------------------
(* The end of `async with`, by return, error or cancellation *)

\* Mutant of Leave: nobody is woken.
LeaveAsleep(t) ==
    /\ pc[t] = "body"
    /\ held' = [held EXCEPT ![mine[t]] = FALSE]
    /\ pc' = [pc EXCEPT ![t] = "leave"]
    /\ UNCHANGED <<table, key, mine, ahead>>

Leave(t) ==
    /\ pc[t] = "body"
    /\ held' = [held EXCEPT ![mine[t]] = FALSE]
    /\ pc' = Awake([pc EXCEPT ![t] = "leave"], ahead, mine[t])
    /\ UNCHANGED <<table, key, mine, ahead>>

\* Mutant of Cleanup: the entry goes with the first task that is done.
CleanupAlways(t) ==
    /\ pc[t] = "leave"
    /\ table' = [table EXCEPT ![key[t]] = None]
    /\ pc' = [pc EXCEPT ![t] = "idle"]
    /\ key' = [key EXCEPT ![t] = None]
    /\ mine' = [mine EXCEPT ![t] = None]
    /\ UNCHANGED <<held, ahead>>

\* Mutant of Cleanup: the entry stays when nobody uses it.
CleanupNever(t) ==
    /\ pc[t] = "leave"
    /\ table' = [table EXCEPT ![key[t]].users = @ - 1]
    /\ pc' = [pc EXCEPT ![t] = "idle"]
    /\ key' = [key EXCEPT ![t] = None]
    /\ mine' = [mine EXCEPT ![t] = None]
    /\ UNCHANGED <<held, ahead>>

\* _cleanup: one user less, and no entry without users.
Cleanup(t) ==
    /\ pc[t] = "leave"
    /\ LET entry == table[key[t]]
       IN  table' = [table EXCEPT ![key[t]] =
                       IF entry.users = 1 THEN None
                       ELSE [lock |-> entry.lock, users |-> entry.users - 1]]
    /\ pc' = [pc EXCEPT ![t] = "idle"]
    /\ key' = [key EXCEPT ![t] = None]
    /\ mine' = [mine EXCEPT ![t] = None]
    /\ UNCHANGED <<held, ahead>>

-----------------------------------------------------------------------------

Init ==
    /\ table = [k \in Key |-> None]
    /\ held = [l \in Lock |-> FALSE]
    /\ pc = [t \in Task |-> "idle"]
    /\ key = [t \in Task |-> None]
    /\ mine = [t \in Task |-> None]
    /\ ahead = [t \in Task |-> {}]

Enter(t, k) == EnterNew(t, k) \/ EnterFree(t, k) \/ EnterBusy(t, k)

Turn(t) == Resume(t) \/ Abort(t) \/ Leave(t) \/ Cleanup(t)

Next == \E t \in Task : Turn(t) \/ Cancel(t) \/ \E k \in Key : Enter(t, k)

Spec == Init /\ [][Next]_vars

\* The event loop gives every ready task its turn, and every body ends: the
\* one in _do_redirect waits for requests that time out.
FairSpec == Spec /\ \A t \in Task : WF_vars(Turn(t))

-----------------------------------------------------------------------------
(* Properties *)

\* One body per key, although locks come and go while tasks use them.
MutualExclusion ==
    \A t, u \in Task :
       pc[t] = "body" /\ pc[u] = "body" /\ key[t] = key[u] => t = u

\* The table has exactly the keys in use and their number of users, and all
\* users of a key share one lock: _cleanup finds its entry, no entry leaks.
TableExact ==
    \A k \in Key :
       IF Users(k) = {} THEN table[k] = None
       ELSE /\ table[k] # None
            /\ table[k].users = Cardinality(Users(k))
            /\ \A t \in Users(k) : mine[t] = table[k].lock

\* A free lock that somebody waits for is on its way to the first waiter.
NoLostWakeup ==
    \A t \in Task :
       pc[t] = "waiting" /\ ~held[mine[t]] =>
         \E u \in Waiters(mine[t]) : ahead[u] = {} /\ pc[u] # "waiting"

\* Nobody waits for ever, whoever else is cancelled.
EveryWaiterServed ==
    \A t \in Task : pc[t] = "waiting" ~> pc[t] # "waiting"

\* Who is in the body for a key.
Owner ==
    [k \in Key |-> IF \E t \in Task : pc[t] = "body" /\ key[t] = k
                   THEN CHOOSE t \in Task : pc[t] = "body" /\ key[t] = k
                   ELSE None]

Mutex == INSTANCE KeyMutex WITH owner <- Owner

\* The lock table implements the abstract mutex.
ImplementsMutex == Mutex!Spec

=============================================================================

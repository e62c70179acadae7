---------------------------- MODULE KeyLockProofs ----------------------------
(***************************************************************************)
(* KeyLock is a mutex per key for any number of tasks, keys and locks.     *)
(*                                                                         *)
(* The argument has two halves.  Bookkeeping: while anyone uses a key, the *)
(* table keeps one lock for it, because the count of users is exact; so    *)
(* equal keys mean equal locks.  Turns: of the tasks of one lock, at most  *)
(* one is in the body or has been told that it is next.                    *)
(***************************************************************************)
EXTENDS KeyLock, FiniteSetTheorems, WellFoundedInduction, TLAPS

USE NoneIsNothing

\* TableExact for one key, with what the proof needs of its set of users.
KeyExact(k) ==
    /\ IsFiniteSet(Users(k))
    /\ IF Users(k) = {} THEN table[k] = None
       ELSE /\ table[k] # None
            /\ table[k].users = Cardinality(Users(k))
            /\ \A t \in Users(k) : mine[t] = table[k].lock

Distinct ==
    \A j, k \in Key :
       table[j] # None /\ table[k] # None /\ table[j].lock = table[k].lock => j = k

Books == TypeOK /\ (\A k \in Key : KeyExact(k)) /\ Distinct

\* Equal locks mean equal keys, and the other way round.
LEMMA LockIsKey ==
    ASSUME Books, NEW t \in Task, NEW u \in Task,
           pc[t] # "idle", pc[u] # "idle"
    PROVE  mine[t] = mine[u] <=> key[t] = key[u]
<1>1. key[t] \in Key /\ key[u] \in Key
  BY DEF Books, TypeOK
<1>2. t \in Users(key[t]) /\ u \in Users(key[u])
  BY DEF Users
<1>3. /\ table[key[t]] # None /\ mine[t] = table[key[t]].lock
      /\ table[key[u]] # None /\ mine[u] = table[key[u]].lock
  BY <1>1, <1>2 DEF Books, KeyExact
<1> QED
  BY <1>1, <1>3 DEF Books, Distinct

\* Typing of the wake-up.
LEMMA AwakeType ==
    ASSUME NEW at \in [Task -> PC], NEW before, NEW l
    PROVE  /\ Awake(at, before, l) \in [Task -> PC]
           /\ \A t \in Task : Awake(at, before, l)[t] = "idle" <=> at[t] = "idle"
BY DEF Awake, PC, Queued

LEMMA TypeStep ==
    ASSUME Books, [Next]_vars
    PROVE  TypeOK'
<1> USE DEF Books, TypeOK, PC, Queued
<1>1. ASSUME NEW t \in Task, NEW k \in Key, EnterNew(t, k) PROVE TypeOK'
  BY <1>1 DEF EnterNew, Register
<1>2. ASSUME NEW t \in Task, NEW k \in Key, EnterFree(t, k) PROVE TypeOK'
  BY <1>2 DEF EnterFree, Register
<1>3. ASSUME NEW t \in Task, NEW k \in Key, EnterBusy(t, k) PROVE TypeOK'
  BY <1>3 DEF EnterBusy, Register, Waiters
<1>4. ASSUME NEW t \in Task, Resume(t) PROVE TypeOK'
  BY <1>4 DEF Resume, Without
<1>5. ASSUME NEW t \in Task, Cancel(t) PROVE TypeOK'
  BY <1>5 DEF Cancel
<1>6. ASSUME NEW t \in Task, Abort(t) PROVE TypeOK'
  BY <1>6 DEF Abort, Without, Awake
<1>7. ASSUME NEW t \in Task, Leave(t) PROVE TypeOK'
  BY <1>7 DEF Leave, Awake
<1>8. ASSUME NEW t \in Task, Cleanup(t) PROVE TypeOK'
  <2>1. key[t] \in Key /\ t \in Users(key[t])
    BY <1>8 DEF Cleanup, Users
  <2>2. table[key[t]] \in [lock: Lock, users: Nat \ {0}]
    BY <2>1 DEF KeyExact
  <2> QED
    BY <1>8, <2>1, <2>2 DEF Cleanup
<1>9. CASE UNCHANGED vars
  BY <1>9 DEF vars
<1> QED
  BY <1>1, <1>2, <1>3, <1>4, <1>5, <1>6, <1>7, <1>8, <1>9 DEF Next, Turn, Enter

\* Registering one more user.
LEMMA BooksEnter ==
    ASSUME Books, TypeOK', NEW t \in Task, NEW k \in Key, NEW l \in Lock,
           pc[t] = "idle", pc'[t] # "idle",
           \A u \in Task \ {t} : pc'[u] = pc[u],
           Register(t, k, l, IF table[k] = None THEN 1 ELSE table[k].users + 1),
           IF table[k] = None THEN Fresh(l) ELSE l = table[k].lock
    PROVE  Books'
<1>1. Users(k)' = Users(k) \union {t} /\ t \notin Users(k)
  BY DEF Users, Register, Books, TypeOK
<1>2. \A j \in Key \ {k} : Users(j)' = Users(j)
  BY DEF Users, Register, Books, TypeOK
<1>3. \A j \in Key \ {k} : KeyExact(j)'
  <2> SUFFICES ASSUME NEW j \in Key \ {k} PROVE KeyExact(j)'
    OBVIOUS
  <2>1. \A u \in Users(j) : u # t /\ mine'[u] = mine[u]
    BY DEF Users, Register, Books, TypeOK
  <2>2. table'[j] = table[j]
    BY DEF Register, Books, TypeOK
  <2> QED
    BY <1>2, <2>1, <2>2 DEF Books, KeyExact
<1>4. KeyExact(k)'
  <2>1. IsFiniteSet(Users(k))
    BY DEF Books, KeyExact
  <2>2. IsFiniteSet(Users(k)') /\ Cardinality(Users(k)') = Cardinality(Users(k)) + 1
    BY <1>1, <2>1, FS_AddElement
  <2>3. table[k] = None => Cardinality(Users(k)) = 0
    BY <2>1, FS_EmptySet DEF Books, KeyExact
  <2>4. table[k] # None => table[k].users = Cardinality(Users(k))
    BY DEF Books, KeyExact
  <2>5. /\ table'[k] = [lock |-> l, users |-> Cardinality(Users(k)')]
    BY <2>2, <2>3, <2>4 DEF Register, Books, TypeOK
  <2>6. table'[k] # None
    BY <2>5 DEF TypeOK, Register, Books
  <2>7. \A u \in Users(k)' : mine'[u] = l
    BY <1>1 DEF Users, Register, Books, KeyExact, TypeOK
  <2> QED
    BY <1>1, <2>2, <2>5, <2>6, <2>7 DEF KeyExact
<1>5. Distinct'
  BY DEF Distinct, Books, Register, Fresh, TypeOK
<1> QED
  BY <1>3, <1>4, <1>5 DEF Books

\* Steps that neither register nor clean up.
LEMMA BooksKept ==
    ASSUME Books, TypeOK', UNCHANGED <<table, key, mine>>,
           \A t \in Task : pc'[t] = "idle" <=> pc[t] = "idle"
    PROVE  Books'
<1>1. \A k \in Key : Users(k)' = Users(k)
  BY DEF Users
<1> QED
  BY <1>1 DEF Books, KeyExact, Distinct

LEMMA BooksCleanup ==
    ASSUME Books, TypeOK', NEW t \in Task, Cleanup(t), NEW k, k = key[t]
    PROVE  Books'
<1>1. k \in Key /\ t \in Users(k)
  BY DEF Cleanup, Books, TypeOK, Users
<1>2. Users(k)' = Users(k) \ {t}
  BY DEF Users, Cleanup, Books, TypeOK
<1>3. \A j \in Key \ {k} : Users(j)' = Users(j)
  BY DEF Users, Cleanup, Books, TypeOK
<1>4. \A j \in Key \ {k} : KeyExact(j)'
  <2> SUFFICES ASSUME NEW j \in Key \ {k} PROVE KeyExact(j)'
    OBVIOUS
  <2>1. \A u \in Users(j) : u # t /\ mine'[u] = mine[u]
    BY DEF Users, Cleanup, Books, TypeOK
  <2>2. table'[j] = table[j]
    BY <1>1 DEF Cleanup, Books, TypeOK
  <2> QED
    BY <1>3, <2>1, <2>2 DEF Books, KeyExact
<1>5. KeyExact(k)'
  <2>1. /\ IsFiniteSet(Users(k)) /\ table[k] # None
        /\ table[k].users = Cardinality(Users(k))
        /\ \A u \in Users(k) : mine[u] = table[k].lock
    BY <1>1 DEF Books, KeyExact
  <2>2. /\ IsFiniteSet(Users(k)')
        /\ Cardinality(Users(k)') = Cardinality(Users(k)) - 1
        /\ Users(k)' = {} <=> table[k].users = 1
    <3>1. /\ IsFiniteSet(Users(k) \ {t})
          /\ Cardinality(Users(k) \ {t}) = Cardinality(Users(k)) - 1
      BY <1>1, <2>1, FS_RemoveElement
    <3>2. Cardinality(Users(k) \ {t}) = 0 <=> Users(k) \ {t} = {}
      BY <3>1, FS_EmptySet
    <3>3. Cardinality(Users(k)) \in Nat
      BY <2>1, FS_CardinalityType
    <3> QED
      BY <1>2, <2>1, <3>1, <3>2, <3>3
  <2>3. CASE table[k].users = 1
    BY <1>1, <2>2, <2>3 DEF Cleanup, KeyExact, Books, TypeOK
  <2>4. CASE table[k].users # 1
    <3>1. table'[k] = [lock |-> table[k].lock, users |-> table[k].users - 1]
      BY <1>1, <2>4 DEF Cleanup, Books, TypeOK
    <3>2. table[k] \in [lock: Lock, users: Nat \ {0}]
      BY <1>1, <2>1 DEF Books, TypeOK
    <3>3. /\ table'[k] \in [lock: Lock, users: Nat]
          /\ table'[k].users = table[k].users - 1
          /\ table'[k].lock = table[k].lock
      BY <2>4, <3>1, <3>2
    <3>4. \A u \in Users(k)' : mine'[u] = table[k].lock
      BY <1>2, <2>1 DEF Cleanup, Users, Books, TypeOK
    <3>5. table'[k] # None
      BY <3>3
    <3> QED
      BY <2>1, <2>2, <2>4, <3>3, <3>4, <3>5 DEF KeyExact
  <2> QED
    BY <2>3, <2>4
<1>6. Distinct'
  <2>1. \A j \in Key : table'[j] # None =>
                        table[j] # None /\ table'[j].lock = table[j].lock
    <3>1. table[k] # None
      BY <1>1 DEF Books, KeyExact
    <3>2. \A j \in Key \ {k} : table'[j] = table[j]
      BY <1>1 DEF Cleanup, Books, TypeOK
    <3>3. \/ table'[k] = None
          \/ table'[k] = [lock |-> table[k].lock, users |-> table[k].users - 1]
      BY <1>1 DEF Cleanup, Books, TypeOK
    <3> QED
      BY <3>1, <3>2, <3>3
  <2> QED
    BY <2>1 DEF Distinct, Books
<1> QED
  BY <1>4, <1>5, <1>6 DEF Books

LEMMA BooksStep ==
    ASSUME Books, [Next]_vars
    PROVE  Books'
<1>0. TypeOK'
  BY TypeStep DEF Books
<1>1. ASSUME NEW t \in Task, NEW k \in Key, EnterNew(t, k) PROVE Books'
  <2>1. PICK l \in Lock : Fresh(l) /\ Register(t, k, l, 1)
    BY <1>1 DEF EnterNew
  <2> QED
    BY <1>0, <1>1, <2>1, BooksEnter DEF EnterNew, Books, TypeOK, Register
<1>2. ASSUME NEW t \in Task, NEW k \in Key, EnterFree(t, k) \/ EnterBusy(t, k)
      PROVE  Books'
  <2>1. table[k] # None /\ table[k].lock \in Lock
    BY <1>2 DEF EnterFree, EnterBusy, Books, TypeOK
  <2>2. /\ Register(t, k, table[k].lock, table[k].users + 1)
        /\ pc'[t] # "idle" /\ \A u \in Task \ {t} : pc'[u] = pc[u]
    BY <1>2 DEF EnterFree, EnterBusy, Books, TypeOK
  <2> QED
    BY <1>0, <2>1, <2>2, BooksEnter DEF Register
<1>3. ASSUME NEW t \in Task, Resume(t) \/ Cancel(t) PROVE Books'
  BY <1>0, <1>3, BooksKept DEF Resume, Cancel, Books, TypeOK
<1>4. ASSUME NEW t \in Task, Leave(t) \/ Abort(t) PROVE Books'
  <2> DEFINE at == [pc EXCEPT ![t] = "leave"]
  <2>1. at \in [Task -> PC] /\ \A u \in Task : at[u] = "idle" <=> pc[u] = "idle"
    BY <1>4 DEF Leave, Abort, Books, TypeOK, PC
  <2>2. \A before, l : \A u \in Task :
          Awake(at, before, l)[u] = "idle" <=> at[u] = "idle"
    BY <2>1, AwakeType
  <2>3. \A u \in Task : pc'[u] = "idle" <=> pc[u] = "idle"
    <3>1. \/ pc' = at
          \/ pc' = Awake(at, ahead, mine[t])
          \/ pc' = Awake(at, ahead', mine[t])
      BY <1>4, Zenon DEF Leave, Abort
    <3>2. /\ \A u \in Task : Awake(at, ahead, mine[t])[u] = "idle" <=> at[u] = "idle"
          /\ \A u \in Task : Awake(at, ahead', mine[t])[u] = "idle" <=> at[u] = "idle"
      BY <2>2, Zenon
    <3> HIDE DEF at
    <3> QED
      BY <2>1, <3>1, <3>2
  <2> QED
    BY <1>0, <1>4, <2>3, BooksKept DEF Leave, Abort
<1>5. ASSUME NEW t \in Task, Cleanup(t) PROVE Books'
  BY <1>0, <1>5, BooksCleanup
<1>6. CASE UNCHANGED vars
  BY <1>0, <1>6, BooksKept DEF vars
<1> QED
  BY <1>1, <1>2, <1>3, <1>4, <1>5, <1>6 DEF Next, Turn, Enter

LEMMA BooksHold == Spec => []Books
<1>1. Init => Books
  <2> SUFFICES ASSUME Init PROVE Books
    OBVIOUS
  <2>1. \A k \in Key : Users(k) = {}
    BY DEF Init, Users
  <2> QED
    BY <2>1, FS_EmptySet DEF Init, Books, KeyExact, Distinct, TypeOK, PC
<1>2. Books /\ [Next]_vars => Books'
  BY BooksStep
<1> QED
  BY <1>1, <1>2, PTL DEF Spec

\* Every variable keeps its type.
THEOREM KeyLockTypes == Spec => []TypeOK
<1>1. Books => TypeOK
  BY DEF Books
<1> QED
  BY <1>1, BooksHold, PTL

\* The table never loses a lock in use and never keeps one that is not.
THEOREM TableIsExact == Spec => []TableExact
<1>1. Books => TableExact
  BY DEF Books, KeyExact, TableExact
<1> QED
  BY <1>1, BooksHold, PTL

-----------------------------------------------------------------------------
(***************************************************************************)
(* Turns                                                                   *)
(***************************************************************************)

Next1 == {"woken", "interrupted"}
Active == Next1 \union {"body"}

\* The waiters of a lock are in one line.
InLine ==
    \A t, u \in Task :
       pc[t] \in Queued /\ pc[u] \in Queued /\ mine[t] = mine[u] /\ t # u =>
         t \in ahead[u] \/ u \in ahead[t]

\* Only one task of a lock is in the body or was told that it is next.
OneActive ==
    \A t, u \in Task :
       pc[t] \in Active /\ pc[u] \in Active /\ mine[t] = mine[u] => t = u

\* A body has the lock; who was told is at the head of the line of a free one.
HeldByBody ==
    \A t \in Task :
      /\ pc[t] = "body" => held[mine[t]] = TRUE
      /\ pc[t] \in Next1 => held[mine[t]] = FALSE /\ ahead[t] = {}

Turns == InLine /\ OneActive /\ HeldByBody

LEMMA TurnsEnter ==
    ASSUME TypeOK, Turns, NEW t \in Task, NEW k \in Key, Enter(t, k)
    PROVE  Turns'
<1> USE DEF TypeOK, Turns, InLine, OneActive, HeldByBody, Active, Next1, Queued
<1>1. CASE EnterNew(t, k)
  <2>1. PICK l \in Lock : Fresh(l) /\ Register(t, k, l, 1)
                          /\ held' = [held EXCEPT ![l] = TRUE]
    BY <1>1 DEF EnterNew
  <2>2. /\ pc' = [pc EXCEPT ![t] = "body"] /\ ahead' = ahead
        /\ mine' = [mine EXCEPT ![t] = l]
        /\ \A u \in Task : mine[u] # l
    BY <1>1, <2>1 DEF EnterNew, Register, Fresh
  <2> QED
    BY <2>1, <2>2
<1>2. CASE EnterFree(t, k)
  <2> DEFINE l == table[k].lock
  <2>1. /\ l \in Lock /\ held[l] = FALSE
        /\ \A u \in Task : pc[u] \in Queued /\ mine[u] = l => pc[u] = "withdrawn"
    BY <1>2 DEF EnterFree, Waiters
  <2>2. /\ pc' = [pc EXCEPT ![t] = "body"] /\ ahead' = ahead
        /\ mine' = [mine EXCEPT ![t] = l] /\ held' = [held EXCEPT ![l] = TRUE]
    BY <1>2 DEF EnterFree, Register
  <2> HIDE DEF l
  <2> QED
    BY <2>1, <2>2
<1>3. CASE EnterBusy(t, k)
  <2> DEFINE l == table[k].lock
  <2>1. /\ pc[t] = "idle" /\ pc' = [pc EXCEPT ![t] = "waiting"]
        /\ mine' = [mine EXCEPT ![t] = l] /\ held' = held
        /\ ahead' = [ahead EXCEPT ![t] = Waiters(l)]
    BY <1>3 DEF EnterBusy, Register
  <2> HIDE DEF l
  <2> QED
    BY <2>1 DEF Waiters
<1> QED
  BY <1>1, <1>2, <1>3 DEF Enter

\* Turns, said of the places, lines and locks that a step is about to leave.
TurnsOf(at, before, free) ==
    /\ \A t, u \in Task :
         at[t] \in Queued /\ at[u] \in Queued /\ mine[t] = mine[u] /\ t # u =>
           t \in before[u] \/ u \in before[t]
    /\ \A t, u \in Task :
         at[t] \in Active /\ at[u] \in Active /\ mine[t] = mine[u] => t = u
    /\ \A t \in Task :
         /\ at[t] = "body" => free[mine[t]] = TRUE
         /\ at[t] \in Next1 => free[mine[t]] = FALSE /\ before[t] = {}

\* Waking the head of the line of a lock that has no body.
LEMMA TurnsAwake ==
    ASSUME TypeOK, NEW at \in [Task -> PC], NEW before \in [Task -> SUBSET Task],
           NEW l \in Lock, NEW free \in [Lock -> BOOLEAN],
           free[l] = FALSE, TurnsOf(at, before, free),
           mine' = mine, ahead' = before, held' = free,
           pc' = Awake(at, before, l)
    PROVE  Turns'
<1> USE DEF Active, Next1, Queued, PC, TurnsOf
<1>1. \A t \in Task :
        pc'[t] = IF at[t] = "waiting" /\ mine[t] = l /\ before[t] = {}
                 THEN "woken" ELSE at[t]
  BY DEF Awake
<1>2. InLine'
  BY <1>1 DEF InLine
<1>3. OneActive'
  BY <1>1 DEF OneActive
<1>4. HeldByBody'
  BY <1>1 DEF HeldByBody
<1> QED
  BY <1>2, <1>3, <1>4 DEF Turns

LEMMA TurnsStep ==
    ASSUME TypeOK, Turns, [Next]_vars
    PROVE  Turns'
<1> USE DEF Active, Next1, Queued, PC
<1>1. ASSUME NEW t \in Task, NEW k \in Key, Enter(t, k) PROVE Turns'
  BY <1>1, TurnsEnter
<1>2. ASSUME NEW t \in Task, Resume(t) PROVE Turns'
  BY <1>2 DEF Resume, Without, TypeOK, Turns, InLine, OneActive, HeldByBody
<1>3. ASSUME NEW t \in Task, Cancel(t) PROVE Turns'
  BY <1>3 DEF Cancel, TypeOK, Turns, InLine, OneActive, HeldByBody
<1>4. ASSUME NEW t \in Task, Abort(t) PROVE Turns'
  <2> DEFINE at == [pc EXCEPT ![t] = "leave"]
  <2>1. /\ ahead' = Without(t) /\ UNCHANGED <<held, mine>>
        /\ pc' = IF held[mine[t]] THEN at ELSE Awake(at, Without(t), mine[t])
    BY <1>4 DEF Abort
  <2>2. CASE held[mine[t]] = TRUE
    BY <2>1, <2>2 DEF Without, TypeOK, Turns, InLine, OneActive, HeldByBody
  <2>3. CASE held[mine[t]] = FALSE
    <3>1. /\ at \in [Task -> PC] /\ Without(t) \in [Task -> SUBSET Task]
          /\ mine[t] \in Lock /\ held \in [Lock -> BOOLEAN]
      BY <1>4 DEF Abort, Without, TypeOK
    <3>2. TurnsOf(at, Without(t), held)
      BY DEF TurnsOf, Without, TypeOK, Turns, InLine, OneActive, HeldByBody
    <3> HIDE DEF at
    <3> QED
      BY <2>1, <2>3, <3>1, <3>2, TurnsAwake
  <2> QED
    BY <1>4, <2>2, <2>3 DEF Abort, TypeOK
<1>5. ASSUME NEW t \in Task, Leave(t) PROVE Turns'
  <2> DEFINE at == [pc EXCEPT ![t] = "leave"]
             free == [held EXCEPT ![mine[t]] = FALSE]
  <2>1. /\ pc[t] = "body" /\ mine[t] \in Lock
        /\ held' = free /\ UNCHANGED <<ahead, mine>>
        /\ pc' = Awake(at, ahead, mine[t])
    BY <1>5 DEF Leave, TypeOK
  <2>2. /\ at \in [Task -> PC] /\ ahead \in [Task -> SUBSET Task]
        /\ free \in [Lock -> BOOLEAN] /\ free[mine[t]] = FALSE
    BY <2>1 DEF TypeOK
  <2>3. TurnsOf(at, ahead, free)
    BY <2>1 DEF TurnsOf, TypeOK, Turns, InLine, OneActive, HeldByBody
  <2> HIDE DEF at, free
  <2> QED
    BY <2>1, <2>2, <2>3, TurnsAwake
<1>6. ASSUME NEW t \in Task, Cleanup(t) PROVE Turns'
  BY <1>6 DEF Cleanup, TypeOK, Turns, InLine, OneActive, HeldByBody
<1>7. CASE UNCHANGED vars
  BY <1>7 DEF vars, Turns, InLine, OneActive, HeldByBody
<1> QED
  BY <1>1, <1>2, <1>3, <1>4, <1>5, <1>6, <1>7 DEF Next, Turn

LEMMA TurnsHold == Spec => []Turns
<1>1. Init => Turns
  BY DEF Init, Turns, InLine, OneActive, HeldByBody, Active, Next1, Queued
<1>2. TypeOK /\ Turns /\ [Next]_vars => Turns'
  BY TurnsStep
<1> QED
  BY <1>1, <1>2, KeyLockTypes, PTL DEF Spec

\* Two tasks are never inside the body of one key.
LEMMA Exclusive ==
    ASSUME Books, Turns
    PROVE  MutualExclusion
<1> SUFFICES ASSUME NEW t \in Task, NEW u \in Task, pc[t] = "body",
                    pc[u] = "body", key[t] = key[u]
             PROVE  t = u
  BY DEF MutualExclusion
<1>1. mine[t] = mine[u]
  BY LockIsKey
<1> QED
  BY <1>1 DEF Turns, OneActive, Active

THEOREM KeyLockExcludes == Spec => []MutualExclusion
BY Exclusive, BooksHold, TurnsHold, PTL

-----------------------------------------------------------------------------
(***************************************************************************)
(* Refinement.  MutualExclusion makes Owner a function of who is in which  *)
(* body; entering and leaving a body are the steps of the abstract mutex   *)
(* and every other step leaves the bodies alone.                           *)
(***************************************************************************)

InBody(t, k) == pc[t] = "body" /\ key[t] = k

LEMMA OwnerOf ==
    ASSUME MutualExclusion, NEW k \in Key
    PROVE  /\ \A t \in Task : InBody(t, k) => Owner[k] = t
           /\ (\A t \in Task : ~InBody(t, k)) => Owner[k] = None
<1>1. Owner[k] = IF \E t \in Task : InBody(t, k)
                 THEN CHOOSE t \in Task : InBody(t, k) ELSE None
  BY DEF Owner, InBody
<1>2. \A t, u \in Task : InBody(t, k) /\ InBody(u, k) => t = u
  BY DEF MutualExclusion, InBody
<1> QED
  BY <1>1, <1>2

LEMMA NextOwnerOf ==
    ASSUME MutualExclusion', NEW k \in Key
    PROVE  /\ \A t \in Task : InBody(t, k)' => Owner'[k] = t
           /\ (\A t \in Task : ~InBody(t, k)') => Owner'[k] = None
<1>1. Owner'[k] = IF \E t \in Task : InBody(t, k)'
                  THEN CHOOSE t \in Task : InBody(t, k)' ELSE None
  BY DEF Owner, InBody
<1>2. \A t, u \in Task : InBody(t, k)' /\ InBody(u, k)' => t = u
  BY DEF MutualExclusion, InBody
<1> QED
  BY <1>1, <1>2

\* A key whose body sees nobody come or go keeps its owner.
LEMMA OwnerKept ==
    ASSUME MutualExclusion, MutualExclusion', NEW k \in Key,
           \A t \in Task : InBody(t, k)' <=> InBody(t, k)
    PROVE  Owner'[k] = Owner[k]
BY OwnerOf, NextOwnerOf

LEMMA OwnersKept ==
    ASSUME MutualExclusion, MutualExclusion',
           \A t \in Task, k \in Key : InBody(t, k)' <=> InBody(t, k)
    PROVE  Owner' = Owner
<1>1. \A k \in Key : Owner'[k] = Owner[k]
  BY OwnerKept
<1> QED
  BY <1>1 DEF Owner

LEMMA MutexEnter ==
    ASSUME MutualExclusion, MutualExclusion', NEW t \in Task, NEW k \in Key,
           ~InBody(t, k), InBody(t, k)',
           \A u \in Task \ {t}, j \in Key : InBody(u, j)' <=> InBody(u, j),
           \A j \in Key \ {k} : ~InBody(t, j) /\ ~InBody(t, j)'
    PROVE  Mutex!Acquire(t, k)
<1>1. \A u \in Task : ~InBody(u, k)
  BY DEF MutualExclusion, InBody
<1>2. Owner[k] = None
  BY <1>1, OwnerOf
<1>3. Owner'[k] = t
  BY NextOwnerOf
<1>4. \A j \in Key \ {k} : Owner'[j] = Owner[j]
  BY OwnerKept
<1>5. Owner' = [Owner EXCEPT ![k] = t]
  BY <1>3, <1>4 DEF Owner
<1> QED
  BY <1>2, <1>5 DEF Mutex!Acquire

LEMMA MutexLeave ==
    ASSUME MutualExclusion, MutualExclusion', NEW t \in Task, NEW k \in Key,
           InBody(t, k), ~InBody(t, k)',
           \A u \in Task \ {t}, j \in Key : InBody(u, j)' <=> InBody(u, j),
           \A j \in Key \ {k} : ~InBody(t, j) /\ ~InBody(t, j)'
    PROVE  Mutex!Release(t, k)
<1>1. Owner[k] = t
  BY OwnerOf
<1>2. \A u \in Task : ~InBody(u, k)'
  BY DEF MutualExclusion, InBody
<1>3. Owner'[k] = None
  BY <1>2, NextOwnerOf
<1>4. \A j \in Key \ {k} : Owner'[j] = Owner[j]
  BY OwnerKept
<1>5. Owner' = [Owner EXCEPT ![k] = None]
  BY <1>3, <1>4 DEF Owner
<1> QED
  BY <1>1, <1>5 DEF Mutex!Release

\* The lock table implements a mutex per key.
THEOREM KeyLockRefines == Spec => ImplementsMutex
<1>1. Init => Mutex!Init
  BY DEF Init, Mutex!Init, Owner
<1>2. TypeOK /\ MutualExclusion /\ MutualExclusion' /\ [Next]_vars
        => [Mutex!Next]_Owner
  <2> SUFFICES ASSUME TypeOK, MutualExclusion, MutualExclusion', [Next]_vars
               PROVE  Mutex!Next \/ Owner' = Owner
    OBVIOUS
  <2> USE DEF TypeOK, PC, Queued
  <2>1. ASSUME NEW t \in Task, NEW k \in Key, EnterNew(t, k) \/ EnterFree(t, k)
        PROVE  Mutex!Acquire(t, k)
    <3>1. /\ pc[t] = "idle" /\ pc' = [pc EXCEPT ![t] = "body"]
          /\ key' = [key EXCEPT ![t] = k]
      BY <2>1 DEF EnterNew, EnterFree, Register
    <3> QED
      BY <3>1, MutexEnter DEF InBody
  <2>2. ASSUME NEW t \in Task, Resume(t) PROVE Mutex!Acquire(t, key[t])
    <3>1. /\ pc[t] = "woken" /\ pc' = [pc EXCEPT ![t] = "body"]
          /\ key' = key /\ key[t] \in Key
      BY <2>2 DEF Resume
    <3> QED
      BY <3>1, MutexEnter DEF InBody
  <2>3. ASSUME NEW t \in Task, Leave(t) PROVE Mutex!Release(t, key[t])
    <3>1. /\ pc[t] = "body" /\ pc'[t] = "leave" /\ key' = key /\ key[t] \in Key
          /\ \A u \in Task \ {t} : pc'[u] = "body" <=> pc[u] = "body"
      BY <2>3 DEF Leave, Awake
    <3> QED
      BY <3>1, MutexLeave DEF InBody
  <2>4. ASSUME NEW t \in Task, NEW k \in Key, EnterBusy(t, k) PROVE Owner' = Owner
    BY <2>4, OwnersKept DEF EnterBusy, Register, InBody
  <2>5. ASSUME NEW t \in Task, Cancel(t) PROVE Owner' = Owner
    BY <2>5, OwnersKept DEF Cancel, InBody
  <2>6. ASSUME NEW t \in Task, Abort(t) PROVE Owner' = Owner
    BY <2>6, OwnersKept DEF Abort, Awake, InBody
  <2>7. ASSUME NEW t \in Task, Cleanup(t) PROVE Owner' = Owner
    BY <2>7, OwnersKept DEF Cleanup, InBody
  <2>8. CASE UNCHANGED vars
    BY <2>8, OwnersKept DEF vars, InBody
  <2>9. \A t \in Task : pc[t] # "idle" => key[t] \in Key
    OBVIOUS
  <2> QED
    BY <2>1, <2>2, <2>3, <2>4, <2>5, <2>6, <2>7, <2>8, <2>9
       DEF Next, Turn, Enter, Resume, Leave, Mutex!Next
<1> QED
  BY <1>1, <1>2, KeyLockTypes, KeyLockExcludes, PTL
     DEF Spec, ImplementsMutex, Mutex!Spec

-----------------------------------------------------------------------------
(***************************************************************************)
(* Wake-ups.  The line of a lock is finite and ordered, so while anyone is *)
(* in it, somebody is first; the lock is freed, and its line left, only by *)
(* steps that wake the first.                                              *)
(***************************************************************************)

\* A line at the places `at`, in the order `before`: everyone before t waits
\* for the same lock, and comes after all those before him.
LineOf(at, before) ==
    \A t \in Task : at[t] \in Queued =>
        /\ IsFiniteSet(before[t]) /\ t \notin before[t]
        /\ \A u \in before[t] :
             u \in Task /\ at[u] \in Queued /\ mine[u] = mine[t] /\ before[u] \subseteq before[t]

Lines == LineOf(pc, ahead)

\* Somebody is first in a line that is not empty.
LEMMA FirstInLine ==
    ASSUME NEW at, NEW before, LineOf(at, before), NEW t \in Task, at[t] \in Queued
    PROVE  \E u \in Task : at[u] \in Queued /\ mine[u] = mine[t] /\ before[u] = {}
<1> DEFINE W == {u \in Task : at[u] \in Queued /\ mine[u] = mine[t]}
           T == {before[u] : u \in W}
           Less == StrictSubsetOrdering(Task)
<1>1. \A u \in W : IsFiniteSet(before[u]) /\ before[u] \subseteq W /\ u \notin before[u]
  BY DEF LineOf
<1>2. T \subseteq FiniteSubsetsOf(Task) /\ T # {}
  BY <1>1 DEF FiniteSubsetsOf
<1>3. IsWellFoundedOn(Less, FiniteSubsetsOf(Task))
  BY FS_StrictSubsetOrderingWellFounded
<1>4. PICK x \in T : \A y \in T : <<y, x>> \notin Less
  BY <1>2, <1>3, WFMin
<1>5. PICK u \in W : x = before[u]
  BY <1>4
<1>6. ASSUME NEW v \in before[u] PROVE FALSE
  <2>1. v \in W /\ before[v] \subseteq before[u] /\ v \notin before[v]
    BY <1>1, <1>6 DEF LineOf
  <2>2. before[v] \in T /\ before[v] # before[u]
    BY <1>6, <2>1
  <2>3. <<before[v], before[u]>> \in Less
    BY <1>1, <2>1, <2>2 DEF StrictSubsetOrdering
  <2> QED BY <1>4, <1>5, <2>2, <2>3
<1> QED BY <1>6

\* Only finitely many wait for the lock of a key.
LEMMA FewWaiters ==
    ASSUME Books, NEW k \in Key, table[k] # None
    PROVE  IsFiniteSet(Waiters(table[k].lock))
<1>1. ASSUME NEW t \in Waiters(table[k].lock) PROVE t \in Users(k)
  <2>1. t \in Users(key[t]) /\ key[t] \in Key
    BY <1>1 DEF Waiters, Users, Queued, Books, TypeOK
  <2>2. table[key[t]] # None /\ mine[t] = table[key[t]].lock
    BY <2>1 DEF Books, KeyExact
  <2>3. key[t] = k
    BY <1>1, <2>1, <2>2 DEF Waiters, Books, Distinct
  <2> QED BY <2>1, <2>3
<1> QED BY <1>1, FS_Subset DEF Books, KeyExact

LEMMA LinesStep == Books /\ Lines /\ [Next]_vars => Lines'
<1> SUFFICES ASSUME Books, Lines, [Next]_vars PROVE Lines'
  OBVIOUS
<1> USE DEF Lines, LineOf, Queued
<1>1. ASSUME NEW t \in Task, NEW k \in Key, EnterNew(t, k) \/ EnterFree(t, k) PROVE Lines'
  <2>1. /\ pc[t] = "idle" /\ pc' = [pc EXCEPT ![t] = "body"] /\ ahead' = ahead
        /\ \A u \in Task : u # t => mine'[u] = mine[u]
    BY <1>1 DEF EnterNew, EnterFree, Register, Books, TypeOK
  <2> QED BY <2>1 DEF Books, TypeOK
<1>2. ASSUME NEW t \in Task, NEW k \in Key, EnterBusy(t, k) PROVE Lines'
  <2> DEFINE l == table[k].lock
             W == Waiters(l)
  <2>1. /\ pc[t] = "idle" /\ pc' = [pc EXCEPT ![t] = "waiting"]
        /\ ahead' = [ahead EXCEPT ![t] = W] /\ mine' = [mine EXCEPT ![t] = l]
    BY <1>2 DEF EnterBusy, Register
  <2>2. IsFiniteSet(W)
    BY <1>2, FewWaiters DEF EnterBusy
  <2>3. W = {u \in Task : pc[u] \in Queued /\ mine[u] = l}
    BY DEF Waiters
  <2> HIDE DEF l, W
  <2> QED BY <2>1, <2>2, <2>3 DEF Books, TypeOK
<1>3. ASSUME NEW t \in Task, Cancel(t) PROVE Lines'
  BY <1>3 DEF Cancel, Books, TypeOK
<1>4. ASSUME NEW t \in Task, Cleanup(t) PROVE Lines'
  BY <1>4 DEF Cleanup, Books, TypeOK
<1>5. ASSUME NEW t \in Task, Leave(t) PROVE Lines'
  BY <1>5 DEF Leave, Awake, Books, TypeOK
<1>6. ASSUME NEW t \in Task, Resume(t) \/ Abort(t) PROVE Lines'
  <2>1. /\ ahead' = Without(t) /\ mine' = mine /\ pc'[t] \notin Queued
        /\ \A u \in Task : u # t => (pc'[u] \in Queued <=> pc[u] \in Queued)
    BY <1>6 DEF Resume, Abort, Awake, Books, TypeOK
  <2>2. \A u \in Task : IsFiniteSet(ahead[u]) => IsFiniteSet(ahead[u] \ {t})
    BY FS_RemoveElement
  <2> QED BY <2>1, <2>2 DEF Without, Books, TypeOK
<1>7. CASE UNCHANGED vars
  BY <1>7 DEF vars
<1> QED BY <1>1, <1>2, <1>3, <1>4, <1>5, <1>6, <1>7 DEF Next, Turn, Enter

LEMMA LinesHold == Spec => []Lines
<1>1. Init => Lines
  BY DEF Init, Lines, LineOf, Queued
<1> QED BY <1>1, LinesStep, BooksHold, PTL DEF Spec

\* After a wake-up the first of the line is told.
LEMMA FirstIsTold ==
    ASSUME NEW at \in [Task -> PC], NEW before, NEW l, LineOf(at, before),
           mine' = mine, ahead' = before, pc' = Awake(at, before, l),
           NEW t \in Task, pc'[t] = "waiting", mine[t] = l
    PROVE  \E u \in Waiters(l)' : ahead'[u] = {} /\ pc'[u] # "waiting"
<1>1. at[t] = "waiting"
  BY DEF Awake
<1>2. PICK u \in Task : at[u] \in Queued /\ mine[u] = l /\ before[u] = {}
  BY <1>1, FirstInLine DEF Queued
<1>3. pc'[u] # "waiting" /\ pc'[u] \in Queued
  BY <1>2 DEF Awake, Queued
<1> QED BY <1>2, <1>3 DEF Waiters

\* The first of the line, told or gone, that NoLostWakeup speaks of.
Told(t) == \E u \in Waiters(mine[t]) : ahead[u] = {} /\ pc[u] # "waiting"

LEMMA WakeupStep ==
    Books /\ Turns /\ Lines /\ NoLostWakeup /\ [Next]_vars => NoLostWakeup'
<1> SUFFICES ASSUME Books, Turns, Lines, NoLostWakeup, [Next]_vars,
                    NEW t \in Task, pc'[t] = "waiting", ~held'[mine'[t]]
             PROVE  Told(t)'
  BY DEF NoLostWakeup, Told
<1> USE DEF Queued
<1>0. pc[t] = "waiting" /\ ~held[mine[t]] => Told(t)
  BY DEF NoLostWakeup, Told
<1>1. ASSUME NEW r \in Task, NEW k \in Key, EnterNew(r, k) \/ EnterFree(r, k)
      PROVE  Told(t)'
  <2>1. PICK l \in Lock :
          /\ pc[r] = "idle" /\ pc' = [pc EXCEPT ![r] = "body"] /\ ahead' = ahead
          /\ mine' = [mine EXCEPT ![r] = l] /\ held' = [held EXCEPT ![l] = TRUE]
    BY <1>1 DEF EnterNew, EnterFree, Register, Books, TypeOK
  <2>2. t # r /\ pc[t] = "waiting" /\ ~held[mine[t]] /\ mine'[t] = mine[t]
    BY <2>1 DEF Books, TypeOK
  <2> QED BY <1>0, <2>1, <2>2 DEF Told, Waiters, Books, TypeOK
<1>2. ASSUME NEW r \in Task, NEW k \in Key, EnterBusy(r, k) PROVE Told(t)'
  <2> DEFINE l == table[k].lock
  <2>1. /\ pc[r] = "idle" /\ pc' = [pc EXCEPT ![r] = "waiting"]
        /\ ahead' = [ahead EXCEPT ![r] = Waiters(l)]
        /\ mine' = [mine EXCEPT ![r] = l] /\ held' = held
        /\ held[l] \/ \E u \in Waiters(l) : pc[u] # "withdrawn"
    BY <1>2 DEF EnterBusy, Register
  <2> HIDE DEF l
  <2>2. CASE t # r
    <3>1. pc[t] = "waiting" /\ ~held[mine[t]] /\ mine'[t] = mine[t]
      BY <2>1, <2>2 DEF Books, TypeOK
    <3> QED BY <1>0, <2>1, <2>2, <3>1 DEF Told, Waiters, Books, TypeOK
  <2>3. CASE t = r
    <3>1. mine'[t] = l /\ ~held[l]
      BY <2>1, <2>3 DEF Books, TypeOK
    <3>2. PICK u \in Waiters(l) : pc[u] # "withdrawn"
      BY <2>1, <3>1
    <3>3. u \in Task /\ mine[u] = l /\ u # r
      BY <2>1, <3>2 DEF Waiters
    <3>4. \E v \in Waiters(l) : ahead[v] = {} /\ pc[v] # "waiting"
      <4>1. CASE pc[u] = "waiting"
        BY <3>1, <3>3, <4>1 DEF NoLostWakeup
      <4>2. CASE pc[u] \in Next1
        <5>1. u \in Waiters(l) /\ ahead[u] = {} /\ pc[u] # "waiting"
          BY <3>2, <3>3, <4>2 DEF Turns, HeldByBody, Next1
        <5> QED BY <5>1
      <4> QED BY <3>2, <4>1, <4>2 DEF Waiters, Next1
    <3>5. PICK v \in Waiters(l) : ahead[v] = {} /\ pc[v] # "waiting"
      BY <3>4
    <3>6. v # r /\ v \in Task /\ mine[v] = l
      BY <2>1, <3>5 DEF Waiters
    <3> QED BY <2>1, <2>3, <3>1, <3>5, <3>6 DEF Told, Waiters, Books, TypeOK
  <2> QED BY <2>2, <2>3
<1>3. ASSUME NEW r \in Task, Resume(r) PROVE Told(t)'
  <2>1. /\ pc' = [pc EXCEPT ![r] = "body"] /\ held' = [held EXCEPT ![mine[r]] = TRUE]
        /\ ahead' = Without(r) /\ mine' = mine /\ mine[r] \in Lock
    BY <1>3 DEF Resume, Books, TypeOK
  <2>2. t # r /\ pc[t] = "waiting" /\ mine[t] # mine[r] /\ ~held[mine[t]]
    BY <2>1 DEF Books, TypeOK
  <2> QED BY <1>0, <2>1, <2>2 DEF Told, Waiters, Without, Books, TypeOK
<1>4. ASSUME NEW r \in Task, Cancel(r) PROVE Told(t)'
  <2>1. /\ pc[r] \in {"waiting", "woken"} /\ pc'[r] \in {"withdrawn", "interrupted"}
        /\ \A u \in Task : u # r => pc'[u] = pc[u]
        /\ UNCHANGED <<held, mine, ahead>>
    BY <1>4 DEF Cancel, Books, TypeOK
  <2>2. pc[t] = "waiting" /\ ~held[mine[t]] /\ mine'[t] = mine[t]
    BY <2>1
  <2> QED BY <1>0, <2>1, <2>2 DEF Told, Waiters
<1>5. ASSUME NEW r \in Task, Cleanup(r) PROVE Told(t)'
  <2>1. /\ pc[r] = "leave" /\ pc' = [pc EXCEPT ![r] = "idle"]
        /\ mine' = [mine EXCEPT ![r] = None] /\ UNCHANGED <<held, ahead>>
    BY <1>5 DEF Cleanup
  <2>2. t # r /\ pc[t] = "waiting" /\ ~held[mine[t]] /\ mine'[t] = mine[t]
    BY <2>1 DEF Books, TypeOK
  <2> QED BY <1>0, <2>1, <2>2 DEF Told, Waiters, Books, TypeOK
<1>6. ASSUME NEW r \in Task, Leave(r) PROVE Told(t)'
  <2> DEFINE at == [pc EXCEPT ![r] = "leave"]
  <2>1. /\ pc[r] = "body" /\ held' = [held EXCEPT ![mine[r]] = FALSE]
        /\ ahead' = ahead /\ mine' = mine /\ pc' = Awake(at, ahead, mine[r])
        /\ at \in [Task -> PC]
    BY <1>6 DEF Leave, Books, TypeOK, PC
  <2>2. LineOf(at, ahead)
    BY <2>1 DEF Lines, LineOf, Books, TypeOK
  <2>3. CASE mine[t] = mine[r]
    <3> HIDE DEF at
    <3> QED BY <2>1, <2>2, <2>3, FirstIsTold DEF Told
  <2>4. CASE mine[t] # mine[r]
    BY <1>0, <2>1, <2>4 DEF Told, Waiters, Awake, Books, TypeOK
  <2> QED BY <2>3, <2>4
<1>7. ASSUME NEW r \in Task, Abort(r) PROVE Told(t)'
  <2> DEFINE at == [pc EXCEPT ![r] = "leave"]
  <2>1. /\ pc[r] \in {"withdrawn", "interrupted"} /\ at \in [Task -> PC]
        /\ ahead' = Without(r) /\ mine' = mine /\ held' = held
        /\ pc' = IF held[mine[r]] THEN at ELSE Awake(at, Without(r), mine[r])
    BY <1>7 DEF Abort, Books, TypeOK, PC
  <2>2. CASE mine[t] = mine[r]
    <3>1. pc' = Awake(at, Without(r), mine[r])
      BY <2>1, <2>2
    <3>2. LineOf(at, Without(r))
      <4>1. \A u \in Task : IsFiniteSet(ahead[u]) => IsFiniteSet(ahead[u] \ {r})
        BY FS_RemoveElement
      <4> QED BY <2>1, <4>1 DEF Lines, LineOf, Without, Books, TypeOK
    <3> HIDE DEF at
    <3> QED BY <2>1, <2>2, <3>1, <3>2, FirstIsTold DEF Told
  <2>3. CASE mine[t] # mine[r]
    <3>1. /\ pc[t] = "waiting" /\ \A u \in Task : mine[u] = mine[t] => pc'[u] = pc[u]
      BY <2>1, <2>3 DEF Awake, Books, TypeOK
    <3> QED BY <1>0, <2>1, <2>3, <3>1 DEF Told, Waiters, Without
  <2> QED BY <2>2, <2>3
<1>8. CASE UNCHANGED vars
  BY <1>0, <1>8 DEF vars, Told, Waiters
<1> QED
  BY <1>1, <1>2, <1>3, <1>4, <1>5, <1>6, <1>7, <1>8 DEF Next, Turn, Enter

\* Whoever waits for a free lock waits behind one that has been told, or gone:
\* no cancellation loses a wake-up, for any number of tasks, keys and locks
\* (AsyncKeyLock over asyncio.Lock).
THEOREM NobodyForgotten == Spec => []NoLostWakeup
<1>1. Init => NoLostWakeup
  BY DEF Init, NoLostWakeup
<1> QED BY <1>1, WakeupStep, BooksHold, TurnsHold, LinesHold, PTL DEF Spec

-----------------------------------------------------------------------------
(***************************************************************************)
(* First come, first served.  With NoLostWakeup this is why every waiter   *)
(* is served: the line before it only gets shorter.                        *)
(***************************************************************************)

\* u gets the lock of t's key in this step.
Overtaking(u, t) ==
    /\ pc[t] \in {"waiting", "woken"} /\ u # t
    /\ pc[u] # "body" /\ pc'[u] = "body" /\ key'[u] = key[t]

LEMMA BodyFrom ==
    ASSUME TypeOK, [Next]_vars, NEW u \in Task, pc[u] # "body", pc'[u] = "body"
    PROVE  Resume(u) \/ \E k \in Key : EnterNew(u, k) \/ EnterFree(u, k)
<1>1. ASSUME NEW t \in Task, NEW k \in Key, Enter(t, k)
      PROVE  t = u /\ (EnterNew(u, k) \/ EnterFree(u, k))
  BY <1>1 DEF Enter, EnterNew, EnterFree, EnterBusy, TypeOK
<1>2. ASSUME NEW t \in Task, Resume(t) PROVE t = u
  BY <1>2 DEF Resume, TypeOK
<1>3. ASSUME NEW t \in Task, Cancel(t) \/ Abort(t) \/ Leave(t) \/ Cleanup(t)
      PROVE  FALSE
  BY <1>3 DEF Cancel, Abort, Leave, Cleanup, Awake, TypeOK
<1>4. CASE UNCHANGED vars
  BY <1>4 DEF vars
<1> QED
  BY <1>1, <1>2, <1>3, <1>4 DEF Next, Turn

\* Whoever gets a lock was in the line before everybody who still waits.
LEMMA NoOvertaking ==
    ASSUME Books, Turns, [Next]_vars, NEW t \in Task, NEW u \in Task, Overtaking(u, t)
    PROVE  u \in ahead[t]
<1>1. /\ TypeOK /\ t \in Users(key[t]) /\ key[t] \in Key /\ KeyExact(key[t])
      /\ pc[t] \in {"waiting", "woken"} /\ u # t
  BY DEF Overtaking, Books, TypeOK, Users
<1>2. table[key[t]] # None /\ mine[t] = table[key[t]].lock
  BY <1>1 DEF KeyExact
<1>3. ASSUME NEW k \in Key, EnterNew(u, k) \/ EnterFree(u, k) PROVE FALSE
  <2>1. k = key[t]
    BY <1>3, <1>1 DEF EnterNew, EnterFree, Register, Overtaking, TypeOK
  <2>2. EnterFree(u, k)
    BY <1>2, <1>3, <2>1 DEF EnterNew
  <2>3. t \in Waiters(table[k].lock)
    BY <1>1, <1>2, <2>1 DEF Waiters, Queued
  <2> QED
    BY <1>1, <2>2, <2>3 DEF EnterFree
<1>4. CASE Resume(u)
  <2>1. pc[u] = "woken" /\ key[u] = key[t] /\ pc[t] # "idle" /\ pc[u] # "idle"
    BY <1>1, <1>4 DEF Resume, Overtaking
  <2>2. mine[u] = mine[t]
    BY <2>1, LockIsKey
  <2>3. ahead[u] = {}
    BY <2>1 DEF Turns, HeldByBody, Next1
  <2> QED
    BY <1>1, <2>1, <2>2, <2>3 DEF Turns, InLine, Queued
<1> QED
  BY <1>1, <1>3, <1>4, BodyFrom DEF Overtaking

LEMMA LineShrinks ==
    ASSUME TypeOK, [Next]_vars, NEW t \in Task, pc[t] \in Queued, pc'[t] \in Queued
    PROVE  ahead'[t] \subseteq ahead[t]
<1>1. ASSUME NEW u \in Task, NEW k \in Key, Enter(u, k) PROVE ahead'[t] = ahead[t]
  <2>1. u # t
    BY <1>1 DEF Enter, EnterNew, EnterFree, EnterBusy, Register, Queued
  <2> QED
    BY <1>1, <2>1 DEF Enter, EnterNew, EnterFree, EnterBusy, TypeOK
<1>2. ASSUME NEW u \in Task, Resume(u) \/ Abort(u) PROVE ahead'[t] \subseteq ahead[t]
  BY <1>2 DEF Resume, Abort, Without, TypeOK
<1>3. ASSUME NEW u \in Task, Cancel(u) \/ Leave(u) \/ Cleanup(u) PROVE ahead' = ahead
  BY <1>3 DEF Cancel, Leave, Cleanup
<1>4. CASE UNCHANGED vars
  BY <1>4 DEF vars
<1> QED
  BY <1>1, <1>2, <1>3, <1>4 DEF Next, Turn

\* The lock of a key goes round in the order of asking, whoever is cancelled: a
\* task that gets it was in the line before every task that still waits for it,
\* and a line only gets shorter (acquire of asyncio.Lock, which takes a free
\* lock past waiters only when all of them are cancelled).
THEOREM FirstComeFirstServed ==
    Spec => [][/\ \A t, u \in Task : Overtaking(u, t) => u \in ahead[t]
               /\ \A t \in Task : pc[t] \in Queued /\ pc'[t] \in Queued =>
                                    ahead'[t] \subseteq ahead[t]]_vars
<1>1. Books /\ Turns /\ [Next]_vars =>
        [/\ \A t, u \in Task : Overtaking(u, t) => u \in ahead[t]
         /\ \A t \in Task : pc[t] \in Queued /\ pc'[t] \in Queued =>
                              ahead'[t] \subseteq ahead[t]]_vars
  BY NoOvertaking, LineShrinks DEF Books
<1> QED
  BY <1>1, BooksHold, TurnsHold, PTL DEF Spec

=============================================================================

--------------------------- MODULE CheckinProofs ---------------------------
(***************************************************************************)
(* Proofs about the daily sign-in, for any number of threads, days and     *)
(* mishaps.  The order is: the types, who holds the lock, and then what    *)
(* the server, the clock and the booked days have to do with each other.   *)
(***************************************************************************)
EXTENDS CheckinScheduler, TLAPS

-----------------------------------------------------------------------------
(* Types *)

\* Any moment drawn for a day up to the day after the last is one that can be
\* planned.
LEMMA DrawnIsPlan ==
    ASSUME NEW d \in 0 .. LastDay + 1, NEW range \in Range
    PROVE  Drawn(d, range) \subseteq Plan
<1>1. Window(range) \in Range
  BY WindowsAreRanges DEF Window
<1>2. Window(range).from .. Window(range).till \subseteq Slot
  BY <1>1, BoundsAreNumbers DEF Range, Slot
<1> QED
  BY <1>2 DEF Drawn, Plan

\* _pick_next returns a moment that can be planned.
LEMMA PickIsPlan ==
    ASSUME NEW m \in Moment, NEW range \in Range
    PROVE  PickNext(m, range) \subseteq Plan
<1>1. m.day \in 0 .. LastDay + 1 /\ m.day + 1 \in 0 .. LastDay + 1
  BY BoundsAreNumbers DEF Moment, Day
<1>2. Drawn(m.day, range) \subseteq Plan /\ Drawn(m.day + 1, range) \subseteq Plan
  BY <1>1, DrawnIsPlan
<1> QED
  BY <1>2 DEF PickNext

\* The parts of TypeOK, by what they are about.
Clockwork ==
    /\ now \in Moment
    /\ signed \in SUBSET Day
    /\ config \in [enabled: BOOLEAN, range: Range]
    /\ mem \in State /\ file \in State
    /\ lock \in Agent \union {None}
    /\ alive \subseteq Loop /\ starting \subseteq Loop
    /\ mishaps \in 0 .. MaxMishaps

Threads ==
    /\ pc \in [Agent -> PC]
    /\ at \in [Agent -> Moment]
    /\ seen \in [Agent -> [state: State, range: Range]]
    /\ tries \in [Agent -> 0 .. Retries]

Flags ==
    /\ client \in BOOLEAN
    /\ checked \in [Agent -> BOOLEAN]
    /\ ok \in [Agent -> BOOLEAN]
    /\ calm \in BOOLEAN /\ slipped \in BOOLEAN

LEMMA TypeParts == TypeOK <=> Clockwork /\ Threads /\ Flags
  BY DEF TypeOK, Clockwork, Threads, Flags

LEMMA Beginnings == Start \in Moment /\ Nothing \in [state: State, range: Range]
  BY BoundsAreNumbers, WindowsAreRanges
  DEF Start, Moment, Day, Slot, Nothing, NoState, State

\* What _save_state_fields leaves behind is a state of the schedule.
LEMMA SaveTyped ==
    ASSUME Clockwork, NEW s \in State, Save(s)
    PROVE  mem' \in State /\ file' \in State /\ mishaps' \in 0 .. MaxMishaps
  BY BoundsAreNumbers DEF Save, Mishap, Clockwork

LEMMA ForgetTyped ==
    ASSUME Threads, NEW a \in Agent, Forget(a)
    PROVE  Threads'
  BY Beginnings, BoundsAreNumbers DEF Forget, Threads, PC

\* A thread that ends its sign-in keeps the types of what Finish sets.
LEMMA FinishTyped ==
    ASSUME TypeOK, NEW a \in Agent, NEW r \in BOOLEAN, Finish(a, r)
    PROVE  /\ pc' \in [Agent -> PC]
           /\ ok' \in [Agent -> BOOLEAN]
           /\ lock' \in Agent \union {None}
<1>1. pc' \in [Agent -> PC]
  BY DEF Finish, TypeOK, PC
<1>2. ok' \in [Agent -> BOOLEAN]
  BY Zenon DEF Finish, TypeOK
<1>3. lock' \in Agent \union {None}
  BY DEF Finish, TypeOK
<1> QED
  BY <1>1, <1>2, <1>3

\* A flag of one thread is set or dropped.
LEMMA FlagTyped ==
    ASSUME NEW f \in [Agent -> BOOLEAN], NEW a \in Agent, NEW b \in BOOLEAN
    PROVE  [f EXCEPT ![a] = b] \in [Agent -> BOOLEAN]
  BY Zenon

LEMMA QueryTyped ==
    ASSUME TypeOK, NEW a \in Agent, Query(a)
    PROVE  TypeOK'
<1>1. pc' \in [Agent -> PC] /\ lock' \in Agent \union {None}
  <2>1. CASE Finish(a, TRUE)
    BY <2>1, FinishTyped
  <2>2. CASE pc' = [pc EXCEPT ![a] = "post"] /\ UNCHANGED <<lock, ok>>
    BY <2>2 DEF TypeOK, PC
  <2> QED
    BY <2>1, <2>2 DEF Query
<1>2. ok' \in [Agent -> BOOLEAN]
  <2>1. CASE Finish(a, TRUE)
    BY <2>1, FinishTyped
  <2>2. CASE UNCHANGED ok
    BY <2>2 DEF TypeOK
  <2> QED
    BY <2>1, <2>2, Zenon DEF Query
<1>3. checked' \in [Agent -> BOOLEAN]
  <2>1. ASSUME NEW c \in {FALSE, now.day \notin signed},
               checked' = [checked EXCEPT ![a] = c]
        PROVE  checked' \in [Agent -> BOOLEAN]
    <3>1. c \in BOOLEAN
      BY <2>1, Zenon
    <3> QED
      BY <2>1, <3>1, FlagTyped, Zenon DEF TypeOK
  <2>2. CASE UNCHANGED checked
    BY <2>2 DEF TypeOK
  <2> QED
    BY <2>1, <2>2, Zenon DEF Query
<1>4. UNCHANGED <<now, signed, config, client, mem, file, alive, starting, at,
                  seen, tries, calm, slipped, mishaps>>
  BY DEF Query
<1> QED
  BY <1>1, <1>2, <1>3, <1>4 DEF TypeOK

LEMMA SignTyped == TypeOK /\ Sign => signed' \in SUBSET Day
  BY DEF TypeOK, Sign, Moment

LEMMA PostSucceedsTyped ==
    ASSUME TypeOK, NEW a \in Agent, PostSucceeds(a)
    PROVE  TypeOK'
<1>1. signed' \in SUBSET Day
  BY SignTyped DEF PostSucceeds
<1>2. /\ pc' \in [Agent -> PC] /\ ok' \in [Agent -> BOOLEAN]
      /\ lock' \in Agent \union {None}
  BY FinishTyped DEF PostSucceeds
<1>3. UNCHANGED <<now, config, client, mem, file, alive, starting, at, seen,
                  tries, checked, calm, slipped, mishaps>>
  BY DEF PostSucceeds
<1> QED
  BY <1>1, <1>2, <1>3 DEF TypeOK

LEMMA PostFailsTyped ==
    ASSUME TypeOK, NEW a \in Agent, PostFails(a)
    PROVE  TypeOK'
<1>1. signed' \in SUBSET Day
  BY SignTyped DEF PostFails, TypeOK
<1>2. pc' \in [Agent -> PC] /\ lock' \in Agent \union {None}
  <2>1. CASE Finish(a, FALSE)
    BY <2>1, FinishTyped
  <2>2. CASE UNCHANGED <<pc, ok, lock>>
    BY <2>2 DEF TypeOK
  <2> QED
    BY <2>1, <2>2 DEF PostFails
<1>3. ok' \in [Agent -> BOOLEAN]
  <2>1. CASE Finish(a, FALSE)
    BY <2>1, FinishTyped
  <2>2. CASE UNCHANGED <<pc, ok, lock>>
    BY <2>2 DEF TypeOK
  <2> QED
    BY <2>1, <2>2, Zenon DEF PostFails
<1>4. checked' \in [Agent -> BOOLEAN]
  <2>1. checked[a] \in BOOLEAN
    BY Zenon DEF TypeOK
  <2>2. (IF signed' = signed THEN checked[a] ELSE FALSE) \in BOOLEAN
    BY <2>1, Zenon
  <2> QED
    BY <2>2, FlagTyped, Zenon DEF PostFails, TypeOK
<1>5. tries' \in [Agent -> 0 .. Retries]
  <2>1. tries \in [Agent -> 0 .. Retries]
    BY DEF TypeOK
  <2>2. tries[a] + 1 < Retries \/ tries[a] + 1 = Retries
    BY Zenon DEF PostFails
  <2>3. tries[a] + 1 \in 0 .. Retries
    BY <2>1, <2>2, BoundsAreNumbers
  <2>4. tries' = [tries EXCEPT ![a] = tries[a] + 1]
    BY Zenon DEF PostFails
  <2> QED
    BY <2>1, <2>3, <2>4
<1>6. UNCHANGED <<now, config, client, mem, file, alive, starting, at, seen,
                  calm, slipped, mishaps>>
  BY DEF PostFails
<1> QED
  BY <1>1, <1>2, <1>3, <1>4, <1>5, <1>6 DEF TypeOK

\* Every thread forgets what it did: the flags stay flags.
LEMMA ForgetFlags ==
    ASSUME Flags, NEW a \in Agent, Forget(a)
    PROVE  checked' \in [Agent -> BOOLEAN] /\ ok' \in [Agent -> BOOLEAN]
<1>1. checked' \in [Agent -> BOOLEAN]
  BY FlagTyped, Zenon DEF Flags, Forget
<1>2. ok' \in [Agent -> BOOLEAN]
  BY FlagTyped, Zenon DEF Flags, Forget
<1> QED
  BY <1>1, <1>2

\* A turn that saves a state and forgets the rest keeps the types.
LEMMA SaveForgetTyped ==
    ASSUME TypeOK, NEW a \in Agent, NEW s \in State, Save(s), Forget(a),
           lock' \in Agent \union {None},
           calm' \in BOOLEAN, slipped' \in BOOLEAN,
           UNCHANGED <<now, signed, config, client, alive, starting>>
    PROVE  TypeOK'
<1>1. Clockwork /\ Threads /\ Flags
  BY TypeParts
<1>2. mem' \in State /\ file' \in State /\ mishaps' \in 0 .. MaxMishaps
  BY <1>1, SaveTyped
<1>3. Clockwork'
  BY <1>1, <1>2 DEF Clockwork
<1>4. Threads'
  BY <1>1, ForgetTyped
<1>5. client' \in BOOLEAN
  BY <1>1, Zenon DEF Flags
<1>6. Flags'
  BY <1>1, <1>5, ForgetFlags, Zenon DEF Flags
<1> QED
  BY <1>3, <1>4, <1>6 DEF TypeOK, Clockwork, Threads, Flags

\* What the schedule becomes when a moment is drawn or a day is done.
LEMMA NextState ==
    ASSUME TypeOK, NEW m \in Plan, NEW d \in Day
    PROVE  /\ [mem EXCEPT !.next = m] \in State
           /\ [mem EXCEPT !.next = None] \in State
           /\ [done |-> d, next |-> m] \in State
  BY DEF TypeOK, State

LEMMA TomorrowIsPlan ==
    ASSUME TypeOK, NEW a \in Agent, NEW range \in Range
    PROVE  /\ Drawn(at[a].day + 1, range) \subseteq Plan
           /\ Drawn(now.day + 1, range) \subseteq Plan
<1>1. at[a].day + 1 \in 0 .. LastDay + 1 /\ now.day + 1 \in 0 .. LastDay + 1
  BY BoundsAreNumbers DEF TypeOK, Moment, Day
<1> QED
  BY <1>1, DrawnIsPlan

LEMMA ReadStateTyped ==
    ASSUME TypeOK, NEW l \in Loop, ReadState(l)
    PROVE  TypeOK'
<1>0. l \in Agent
  BY DEF Agent
<1>1. pc' \in [Agent -> PC] /\ at' \in [Agent -> Moment]
  BY <1>0 DEF ReadState, TypeOK, PC
<1>2. [state |-> mem, range |-> config.range] \in [state: State, range: Range]
  BY DEF TypeOK
<1>3. seen' \in [Agent -> [state: State, range: Range]]
  BY <1>0, <1>2, Zenon DEF ReadState, TypeOK
<1>4. UNCHANGED <<now, signed, config, client, mem, file, lock, alive, starting,
                  tries, checked, ok, calm, slipped, mishaps>>
  BY DEF ReadState
<1> QED
  BY <1>1, <1>3, <1>4 DEF TypeOK

LEMMA PlanTomorrowTyped ==
    ASSUME TypeOK, NEW l \in Loop, PlanTomorrow(l)
    PROVE  TypeOK'
<1>0. l \in Agent
  BY DEF Agent
<1>1. PICK m \in Drawn(at[l].day + 1, seen[l].range) : Save([mem EXCEPT !.next = m])
  BY DEF PlanTomorrow
<1>2. seen[l].range \in Range
  BY <1>0 DEF TypeOK
<1>3. m \in Plan
  BY <1>0, <1>1, <1>2, TomorrowIsPlan
<1>4. [mem EXCEPT !.next = m] \in State
  BY <1>3 DEF TypeOK, State
<1>5. Forget(l) /\ UNCHANGED <<now, signed, config, client, lock, alive, starting,
                               calm, slipped>>
  BY DEF PlanTomorrow
<1>6. lock' \in Agent \union {None} /\ calm' \in BOOLEAN /\ slipped' \in BOOLEAN
  BY <1>5, Zenon DEF TypeOK
<1> QED
  BY <1>0, <1>1, <1>4, <1>5, <1>6, SaveForgetTyped

LEMMA PlanNextTyped ==
    ASSUME TypeOK, NEW l \in Loop, PlanNext(l)
    PROVE  TypeOK'
<1>0. l \in Agent
  BY DEF Agent
<1>1. PICK m \in PickNext(at[l], seen[l].range) :
          /\ Save([mem EXCEPT !.next = m])
          /\ seen' = [seen EXCEPT ![l].state.next = m]
  BY DEF PlanNext
<1>2. seen[l].range \in Range /\ at[l] \in Moment
  BY <1>0 DEF TypeOK
<1>3. m \in Plan
  BY <1>1, <1>2, PickIsPlan
<1>4. [mem EXCEPT !.next = m] \in State
  BY <1>3 DEF TypeOK, State
<1>5. mem' \in State /\ file' \in State /\ mishaps' \in 0 .. MaxMishaps
  BY <1>1, <1>4, SaveTyped, TypeParts
<1>6. seen' \in [Agent -> [state: State, range: Range]]
  BY <1>0, <1>1, <1>3 DEF TypeOK, State
<1>7. UNCHANGED <<now, signed, config, client, lock, alive, starting, pc, at,
                  tries, checked, ok, calm, slipped>>
  BY DEF PlanNext
<1> QED
  BY <1>5, <1>6, <1>7 DEF TypeOK

LEMMA WaitTyped ==
    ASSUME TypeOK, NEW l \in Loop, Wait(l)
    PROVE  TypeOK'
<1>0. l \in Agent
  BY DEF Agent
<1>1. Forget(l) /\ UNCHANGED <<now, signed, config, client, mem, file, lock,
                               alive, starting, calm, slipped, mishaps>>
  BY DEF Wait
<1>2. Clockwork /\ Threads /\ Flags
  BY TypeParts
<1>3. Clockwork'
  BY <1>1, <1>2 DEF Clockwork
<1>4. Threads'
  BY <1>0, <1>1, <1>2, ForgetTyped
<1>5. checked' \in [Agent -> BOOLEAN] /\ ok' \in [Agent -> BOOLEAN]
  BY <1>0, <1>1, <1>2, ForgetFlags
<1>6. Flags'
  BY <1>1, <1>2, <1>5, Zenon DEF Flags
<1> QED
  BY <1>3, <1>4, <1>6 DEF TypeOK, Clockwork, Threads, Flags

LEMMA SignInTyped ==
    ASSUME TypeOK, NEW l \in Loop, SignIn(l)
    PROVE  TypeOK'
<1>0. l \in Agent
  BY DEF Agent
<1>1. pc' \in [Agent -> PC] /\ lock' \in Agent \union {None}
  BY <1>0 DEF SignIn, TakeLock, TypeOK, PC
<1>2. NoState \in State
  BY DEF NoState, State
<1>3. seen' \in [Agent -> [state: State, range: Range]]
  BY <1>0, <1>2 DEF SignIn, TypeOK
<1>4. UNCHANGED <<now, signed, config, client, mem, file, alive, starting, at,
                  tries, checked, ok, calm, slipped, mishaps>>
  BY DEF SignIn
<1> QED
  BY <1>1, <1>3, <1>4 DEF TypeOK

LEMMA BookAutoTyped ==
    ASSUME TypeOK, NEW l \in Loop, BookAuto(l)
    PROVE  TypeOK'
<1>0. l \in Agent
  BY DEF Agent
<1>1. PICK s \in State : Save(s)
  <2>1. CASE ok[l]
    <3>1. PICK m \in Drawn(at[l].day + 1, seen[l].range) :
              Save([done |-> at[l].day, next |-> m])
      BY <2>1 DEF BookAuto
    <3>2. seen[l].range \in Range /\ at[l].day \in Day
      BY <1>0 DEF TypeOK, Moment
    <3>3. m \in Plan
      BY <1>0, <3>1, <3>2, TomorrowIsPlan
    <3>4. [done |-> at[l].day, next |-> m] \in State
      BY <3>2, <3>3 DEF State
    <3> QED
      BY <3>1, <3>4
  <2>2. CASE ~ok[l]
    <3>1. [mem EXCEPT !.next = None] \in State
      BY DEF TypeOK, State
    <3> QED
      BY <2>2, <3>1 DEF BookAuto
  <2> QED
    BY <2>1, <2>2
<1>2. Forget(l) /\ UNCHANGED <<now, signed, config, client, lock, alive, starting,
                               slipped>>
  BY DEF BookAuto
<1>3. calm' \in BOOLEAN
  BY Zenon DEF BookAuto, TypeOK
<1>4. lock' \in Agent \union {None} /\ slipped' \in BOOLEAN
  BY <1>2, Zenon DEF TypeOK
<1> QED
  BY <1>0, <1>1, <1>2, <1>3, <1>4, SaveForgetTyped

LEMMA BeginManualTyped ==
    ASSUME TypeOK, NEW c \in Clerk, BeginManual(c)
    PROVE  TypeOK'
<1>0. c \in Agent
  BY DEF Agent
<1>1. /\ pc' \in [Agent -> PC] /\ at' \in [Agent -> Moment]
      /\ lock' \in Agent \union {None}
  BY <1>0 DEF BeginManual, TakeLock, TypeOK, PC
<1>2. UNCHANGED <<now, signed, config, client, mem, file, alive, starting, seen,
                  tries, checked, ok, calm, slipped, mishaps>>
  BY DEF BeginManual
<1> QED
  BY <1>1, <1>2 DEF TypeOK

LEMMA BookManualTyped ==
    ASSUME TypeOK, NEW c \in Clerk, BookManual(c)
    PROVE  TypeOK'
<1>0. c \in Agent
  BY DEF Agent
<1>1. PICK s \in State : Save(s)
  <2>1. CASE ok[c]
    <3>1. PICK m \in Drawn(now.day + 1, config.range) :
              Save([done |-> now.day, next |-> m])
      BY <2>1 DEF BookManual
    <3>2. config.range \in Range /\ now.day \in Day
      BY DEF TypeOK, Moment
    <3>3. m \in Plan
      BY <1>0, <3>1, <3>2, TomorrowIsPlan
    <3>4. [done |-> now.day, next |-> m] \in State
      BY <3>2, <3>3 DEF State
    <3> QED
      BY <3>1, <3>4
  <2>2. CASE ~ok[c]
    BY <2>2 DEF BookManual, TypeOK
  <2> QED
    BY <2>1, <2>2
<1>2. Forget(c) /\ UNCHANGED <<now, signed, config, client, alive, starting, calm>>
  BY DEF BookManual
<1>3. slipped' \in BOOLEAN
  BY Zenon DEF BookManual, TypeOK
<1>4. lock' \in Agent \union {None}
  BY DEF BookManual
<1>5. calm' \in BOOLEAN
  BY <1>2, Zenon DEF TypeOK
<1> QED
  BY <1>0, <1>1, <1>2, <1>3, <1>4, <1>5, SaveForgetTyped

LEMMA AroundTyped ==
    ASSUME TypeOK,
           \/ BeginStart \/ (\E l \in Loop : Spawn(l))
           \/ (\E e \in BOOLEAN, r \in Ranges : SetConfig(e, r))
           \/ Die \/ UserSigns \/ Tick
    PROVE  TypeOK'
<1>1. CASE BeginStart
  <2>1. starting' \subseteq Loop
    BY <1>1 DEF BeginStart, TypeOK
  <2>2. mishaps' \in 0 .. MaxMishaps
    BY <1>1, BoundsAreNumbers DEF BeginStart, Mishap, TypeOK
  <2>3. client' \in BOOLEAN
    BY <1>1, Zenon DEF BeginStart
  <2>4. UNCHANGED <<now, signed, config, mem, file, lock, alive, local, calm,
                    slipped>>
    BY <1>1 DEF BeginStart
  <2> QED
    BY <2>1, <2>2, <2>3, <2>4 DEF TypeOK, local
<1>2. ASSUME NEW l \in Loop, Spawn(l)
      PROVE  TypeOK'
  BY <1>2 DEF Spawn, TypeOK, local
<1>3. ASSUME NEW e \in BOOLEAN, NEW r \in Ranges, SetConfig(e, r)
      PROVE  TypeOK'
  <2>1. mishaps' \in 0 .. MaxMishaps
    BY <1>3, BoundsAreNumbers DEF SetConfig, Mishap, TypeOK
  <2>2. config' \in [enabled: BOOLEAN, range: Range]
    <3>1. r \in Range
      BY <1>3, WindowsAreRanges
    <3> QED
      BY <1>3, <3>1 DEF SetConfig
  <2>3. calm' \in BOOLEAN
    BY <1>3, Zenon DEF SetConfig, TypeOK
  <2>4. UNCHANGED <<now, signed, client, mem, file, lock, alive, starting, local,
                    slipped>>
    BY <1>3 DEF SetConfig
  <2> QED
    BY <2>1, <2>2, <2>3, <2>4 DEF TypeOK, local
<1>4. CASE Die
  <2>1. mishaps' \in 0 .. MaxMishaps
    BY <1>4, BoundsAreNumbers DEF Die, Mishap, TypeOK
  <2>2. /\ pc' \in [Agent -> PC] /\ at' \in [Agent -> Moment]
        /\ seen' \in [Agent -> [state: State, range: Range]]
        /\ tries' \in [Agent -> 0 .. Retries]
    BY <1>4, Beginnings, BoundsAreNumbers DEF Die, PC
  <2>3. checked' \in [Agent -> BOOLEAN] /\ ok' \in [Agent -> BOOLEAN]
    BY <1>4, Zenon DEF Die
  <2>4. client' \in BOOLEAN /\ calm' \in BOOLEAN
    BY <1>4, Zenon DEF Die
  <2>5. /\ mem' \in State /\ alive' \subseteq Loop /\ starting' \subseteq Loop
        /\ lock' \in Agent \union {None}
    BY <1>4 DEF Die, TypeOK
  <2>6. UNCHANGED <<now, signed, config, file, slipped>>
    BY <1>4 DEF Die
  <2> QED
    BY <2>1, <2>2, <2>3, <2>4, <2>5, <2>6 DEF TypeOK
<1>5. CASE UserSigns
  <2>1. mishaps' \in 0 .. MaxMishaps
    BY <1>5, BoundsAreNumbers DEF UserSigns, Mishap, TypeOK
  <2>2. signed' \in SUBSET Day
    BY <1>5, SignTyped DEF UserSigns
  <2>3. checked' \in [Agent -> BOOLEAN]
    BY <1>5, Zenon DEF UserSigns
  <2>4. UNCHANGED <<now, config, client, mem, file, lock, alive, starting, pc, at,
                    seen, tries, ok, calm, slipped>>
    BY <1>5 DEF UserSigns
  <2> QED
    BY <2>1, <2>2, <2>3, <2>4 DEF TypeOK
<1>6. CASE Tick
  <2>1. now' \in Moment
    BY <1>6, BoundsAreNumbers DEF Tick, TypeOK, Moment, Day, Slot
  <2>2. calm' \in BOOLEAN
    BY <1>6, Zenon DEF Tick, TypeOK
  <2>3. UNCHANGED <<signed, config, client, mem, file, lock, alive, starting,
                    local, slipped, mishaps>>
    BY <1>6 DEF Tick
  <2> QED
    BY <2>1, <2>2, <2>3 DEF TypeOK, local
<1> QED
  BY <1>1, <1>2, <1>3, <1>4, <1>5, <1>6

LEMMA InitTyped == Init => TypeOK
<1> SUFFICES ASSUME Init PROVE TypeOK
  OBVIOUS
<1>1. Threads
  BY Beginnings, BoundsAreNumbers DEF Init, Threads, PC
<1>2. checked \in [Agent -> BOOLEAN] /\ ok \in [Agent -> BOOLEAN]
  BY Zenon DEF Init
<1>3. client \in BOOLEAN /\ calm \in BOOLEAN /\ slipped \in BOOLEAN
  BY Zenon DEF Init
<1>4. Clockwork
  <2>1. config \in [enabled: BOOLEAN, range: Range]
    BY WindowsAreRanges DEF Init
  <2> QED
    BY <2>1, Beginnings, BoundsAreNumbers
    DEF Init, Clockwork, NoState, State
<1> QED
  BY <1>1, <1>2, <1>3, <1>4, TypeParts DEF Flags

\* Every step of the sign-in keeps the types.
LEMMA NextTyped == TypeOK /\ [Next]_vars => TypeOK'
<1> SUFFICES ASSUME TypeOK, [Next]_vars PROVE TypeOK'
  OBVIOUS
<1>1. ASSUME NEW l \in Loop, Turn(l)
      PROVE  TypeOK'
  BY <1>1, ReadStateTyped, PlanTomorrowTyped, PlanNextTyped, WaitTyped,
     SignInTyped, BookAutoTyped DEF Turn
<1>2. ASSUME NEW a \in Agent, Request(a)
      PROVE  TypeOK'
  BY <1>2, QueryTyped, PostSucceedsTyped, PostFailsTyped DEF Request
<1>3. ASSUME NEW c \in Clerk, BeginManual(c) \/ BookManual(c)
      PROVE  TypeOK'
  BY <1>3, BeginManualTyped, BookManualTyped
<1>4. CASE UNCHANGED vars
  BY <1>4 DEF TypeOK, vars, local
<1> QED
  BY <1>1, <1>2, <1>3, <1>4, AroundTyped DEF Next

\* The daily sign-in keeps its types, for any number of threads, days and slots;
\* in particular nothing is ever planned beyond the day after the current one
\* that exists.
THEOREM CheckinTypes == Spec => []TypeOK
<1>1. Init => TypeOK
  BY InitTyped
<1>2. TypeOK /\ [Next]_vars => TypeOK'
  BY NextTyped
<1> QED
  BY <1>1, <1>2, PTL DEF Spec

-----------------------------------------------------------------------------
(* The lock *)

Holds(a) == pc[a] \in Busy \/ (a \in Clerk /\ pc[a] = "book")

LockInv == \A a \in Agent : Holds(a) <=> lock = a

\* A thread that has to do neither with the lock nor with a sign-in, before and
\* after a step of l, leaves the lock as it is.
LEMMA LockKept ==
    ASSUME TypeOK, LockInv, NEW l \in Agent, lock' = lock,
           pc' \in [Agent -> PC],
           \A b \in Agent \ {l} : pc'[b] = pc[b],
           ~Holds(l), ~Holds(l)'
    PROVE  LockInv'
  BY Zenon DEF LockInv, Holds

\* Taking the lock.
LEMMA LockTaken ==
    ASSUME TypeOK, LockInv, NEW a \in Agent, TakeLock(a),
           pc' = [pc EXCEPT ![a] = "query"]
    PROVE  LockInv'
<1>1. pc \in [Agent -> PC] /\ lock = None /\ lock' = a
  BY DEF TypeOK, TakeLock
<1>2. \A b \in Agent : lock # b
  BY <1>1, NamesDiffer
<1> QED
  BY <1>1, <1>2 DEF LockInv, Holds, Busy

\* Ending a sign-in: a tick gives the lock back, a request keeps it.
LEMMA LockFinished ==
    ASSUME TypeOK, LockInv, NEW a \in Agent, pc[a] \in Busy, NEW r, Finish(a, r)
    PROVE  LockInv'
<1>1. pc \in [Agent -> PC] /\ lock = a
  BY DEF TypeOK, LockInv, Holds
<1>2. CASE a \in Loop
  <2>1. a \notin Clerk /\ lock' = None /\ \A b \in Agent : lock' # b
    BY <1>2, NamesDiffer DEF Finish
  <2> QED
    BY <1>1, <2>1 DEF Finish, LockInv, Holds, Busy
<1>3. CASE a \in Clerk
  <2>1. a \notin Loop /\ lock' = a
    BY <1>1, <1>3, NamesDiffer DEF Finish
  <2> QED
    BY <1>1, <1>3, <2>1 DEF Finish, LockInv, Holds, Busy
<1> QED
  BY <1>2, <1>3 DEF Agent

LEMMA RequestKeepsLock ==
    ASSUME TypeOK, LockInv, NEW a \in Agent, Request(a)
    PROVE  LockInv'
<1>1. pc[a] \in Busy
  BY DEF Request, Query, PostSucceeds, PostFails, Busy
<1>2. CASE \E r \in BOOLEAN : Finish(a, r)
  BY <1>1, <1>2, LockFinished
<1>3. CASE pc' = [pc EXCEPT ![a] = "post"] /\ lock' = lock
  BY <1>1, <1>3 DEF TypeOK, LockInv, Holds, Busy
<1>4. CASE UNCHANGED <<pc, lock>>
  BY <1>4 DEF LockInv, Holds
<1> QED
  BY <1>2, <1>3, <1>4 DEF Request, Query, PostSucceeds, PostFails

LEMMA TurnKeepsLock ==
    ASSUME TypeOK, TypeOK', LockInv, NEW l \in Loop, Turn(l)
    PROVE  LockInv'
<1>0. l \in Agent /\ l \notin Clerk /\ pc \in [Agent -> PC]
  BY NamesDiffer DEF Agent, TypeOK
<1>1. CASE SignIn(l)
  BY <1>0, <1>1, LockTaken DEF SignIn
<1>2. CASE ReadState(l) \/ PlanNext(l)
  <2>1. pc' = [pc EXCEPT ![l] = "decide"] /\ pc[l] \in {"idle", "decide"}
           /\ lock' = lock
    BY <1>0, <1>2 DEF ReadState, PlanNext
  <2>2. ~Holds(l) /\ ~Holds(l)'
    BY <1>0, <2>1 DEF Holds, Busy
  <2> QED
    BY <1>0, <2>1, <2>2, LockKept DEF TypeOK
<1>3. CASE PlanTomorrow(l) \/ Wait(l) \/ BookAuto(l)
  <2>1. pc' = [pc EXCEPT ![l] = "idle"] /\ pc[l] \in {"decide", "book"}
           /\ lock' = lock
    BY <1>3 DEF PlanTomorrow, Wait, BookAuto, Forget
  <2>2. ~Holds(l) /\ ~Holds(l)'
    BY <1>0, <2>1 DEF Holds, Busy
  <2> QED
    BY <1>0, <2>1, <2>2, LockKept DEF TypeOK
<1> QED
  BY <1>1, <1>2, <1>3 DEF Turn

LEMMA ManualKeepsLock ==
    ASSUME TypeOK, LockInv, NEW c \in Clerk, BeginManual(c) \/ BookManual(c)
    PROVE  LockInv'
<1>0. c \in Agent /\ pc \in [Agent -> PC]
  BY DEF Agent, TypeOK
<1>1. CASE BeginManual(c)
  BY <1>0, <1>1, LockTaken DEF BeginManual
<1>2. CASE BookManual(c)
  <2>1. pc' = [pc EXCEPT ![c] = "idle"] /\ lock' = None /\ pc[c] = "book"
    BY <1>2 DEF BookManual, Forget
  <2>2. lock = c /\ \A b \in Agent : lock' # b
    BY <1>0, <2>1, NamesDiffer DEF LockInv, Holds
  <2> QED
    BY <1>0, <2>1, <2>2 DEF LockInv, Holds, Busy
<1> QED
  BY <1>1, <1>2

LEMMA NextKeepsLock == TypeOK /\ TypeOK' /\ LockInv /\ [Next]_vars => LockInv'
<1> SUFFICES ASSUME TypeOK, TypeOK', LockInv, [Next]_vars PROVE LockInv'
  OBVIOUS
<1>1. ASSUME NEW l \in Loop, Turn(l)
      PROVE  LockInv'
  BY <1>1, TurnKeepsLock
<1>2. ASSUME NEW a \in Agent, Request(a)
      PROVE  LockInv'
  BY <1>2, RequestKeepsLock
<1>3. ASSUME NEW c \in Clerk, BeginManual(c) \/ BookManual(c)
      PROVE  LockInv'
  BY <1>3, ManualKeepsLock
<1>4. CASE Die
  BY <1>4, NamesDiffer DEF Die, LockInv, Holds, Busy
<1>5. CASE UNCHANGED <<pc, lock>>
  BY <1>5 DEF LockInv, Holds
<1>6. ASSUME \/ BeginStart \/ UserSigns \/ Tick \/ UNCHANGED vars
             \/ (\E l \in Loop : Spawn(l))
             \/ (\E e \in BOOLEAN, r \in Ranges : SetConfig(e, r))
      PROVE  UNCHANGED <<pc, lock>>
  BY <1>6 DEF BeginStart, UserSigns, Tick, Spawn, SetConfig, vars, local
<1> QED
  BY <1>1, <1>2, <1>3, <1>4, <1>5, <1>6 DEF Next

THEOREM LockInvHolds == Spec => []LockInv
<1>1. Init => LockInv
  BY NamesDiffer DEF Init, LockInv, Holds, Busy
<1>2. TypeOK /\ TypeOK' /\ LockInv /\ [Next]_vars => LockInv'
  BY NextKeepsLock
<1> QED
  BY <1>1, <1>2, CheckinTypes, PTL DEF Spec

\* However many threads tick and however many requests come, no two sign-ins are
\* under way at once.
THEOREM SignInsExclude == Spec => []OneAtATime
<1>1. LockInv => OneAtATime
  BY DEF LockInv, Holds, OneAtATime
<1> QED
  BY <1>1, LockInvHolds, PTL

\* Whatever fails, the lock is never left behind.
THEOREM LockIsReturned == Spec => []NoLockLeftBehind
<1>1. TypeOK /\ LockInv => NoLockLeftBehind
  BY DEF TypeOK, LockInv, Holds, NoLockLeftBehind
<1> QED
  BY <1>1, LockInvHolds, CheckinTypes, PTL

-----------------------------------------------------------------------------
(* What the server, the clock and the booked days have to do with each other *)

NotLater(state) == state.done # None => state.done <= now.day

\* Nothing is from the future.
PastInv ==
    /\ \A d \in signed : d <= now.day
    /\ \A a \in Agent : at[a].day <= now.day
    /\ NotLater(mem) /\ NotLater(file)

\* A sign-in that succeeded, and is booked on the day it began, has signed it.
BookInv ==
    \A a \in Agent :
        pc[a] = "book" /\ ok[a] /\ at[a].day = now.day => now.day \in signed

Honest(state) == state.done = now.day => now.day \in signed \/ slipped

HonestInv == Honest(mem) /\ Honest(file)

LEMMA DaysAreNumbers ==
    ASSUME TypeOK
    PROVE  /\ now.day \in Nat
           /\ \A a \in Agent : at[a].day \in Nat
           /\ signed \subseteq Nat
           /\ mem.done \in Nat \union {None} /\ file.done \in Nat \union {None}
           /\ None \notin Day /\ now.day \in Day
  BY BoundsAreNumbers, NamesDiffer DEF TypeOK, Moment, State, Day

LEMMA SavePast ==
    ASSUME PastInv, NEW s, Save(s), NotLater(s), now' = now
    PROVE  NotLater(mem)' /\ NotLater(file)'
  BY DEF PastInv, Save, NotLater

LEMMA ForgetPast ==
    ASSUME TypeOK, PastInv, NEW a \in Agent, Forget(a), now' = now
    PROVE  \A b \in Agent : at'[b].day <= now'.day
<1>1. 0 <= now.day /\ Start.day = 0
  BY DaysAreNumbers DEF Start
<1> QED
  BY <1>1 DEF Forget, PastInv, TypeOK

LEMMA TurnPast ==
    ASSUME TypeOK, PastInv, NEW l \in Loop, Turn(l)
    PROVE  PastInv'
<1>0. l \in Agent
  BY DEF Agent
<1>1. now' = now /\ signed' = signed
  BY DEF Turn, ReadState, PlanTomorrow, PlanNext, Wait, SignIn, BookAuto
<1>2. CASE ReadState(l)
  <2>1. at' = [at EXCEPT ![l] = now] /\ mem' = mem /\ file' = file
    BY <1>2 DEF ReadState
  <2> QED
    BY <1>1, <2>1, DaysAreNumbers DEF PastInv, NotLater, TypeOK
<1>3. CASE SignIn(l)
  BY <1>1, <1>3 DEF SignIn, PastInv, NotLater
<1>4. CASE Wait(l)
  <2>1. Forget(l) /\ mem' = mem /\ file' = file
    BY <1>4 DEF Wait
  <2> QED
    BY <1>0, <1>1, <2>1, ForgetPast DEF PastInv, NotLater
<1>5. ASSUME NEW m, Save([mem EXCEPT !.next = m])
      PROVE  NotLater(mem)' /\ NotLater(file)'
  <2>1. [mem EXCEPT !.next = m].done = mem.done
    BY DEF TypeOK, State
  <2>2. NotLater([mem EXCEPT !.next = m])
    BY <2>1 DEF PastInv, NotLater
  <2> QED
    BY <1>1, <1>5, <2>2, SavePast
<1>6. CASE PlanTomorrow(l)
  <2>1. Forget(l) /\ \E m : Save([mem EXCEPT !.next = m])
    BY <1>6 DEF PlanTomorrow
  <2> QED
    BY <1>0, <1>1, <1>5, <2>1, ForgetPast DEF PastInv
<1>7. CASE PlanNext(l)
  <2>1. at' = at /\ \E m : Save([mem EXCEPT !.next = m])
    BY <1>7 DEF PlanNext
  <2> QED
    BY <1>1, <1>5, <2>1 DEF PastInv
<1>8. CASE BookAuto(l)
  <2>1. Forget(l)
    BY <1>8 DEF BookAuto
  <2>2. CASE ok[l]
    <3>1. PICK m : Save([done |-> at[l].day, next |-> m])
      BY <1>8, <2>2 DEF BookAuto
    <3>2. NotLater([done |-> at[l].day, next |-> m])
      BY <1>0 DEF PastInv, NotLater
    <3>3. NotLater(mem)' /\ NotLater(file)'
      BY <1>1, <3>1, <3>2, SavePast
    <3> QED
      BY <1>0, <1>1, <2>1, <3>3, ForgetPast DEF PastInv
  <2>3. CASE ~ok[l]
    <3>1. Save([mem EXCEPT !.next = None])
      BY <1>8, <2>3 DEF BookAuto
    <3> QED
      BY <1>0, <1>1, <1>5, <2>1, <3>1, ForgetPast DEF PastInv
  <2> QED
    BY <2>2, <2>3
<1> QED
  BY <1>2, <1>3, <1>4, <1>6, <1>7, <1>8 DEF Turn

LEMMA ManualPast ==
    ASSUME TypeOK, PastInv, NEW c \in Clerk, BeginManual(c) \/ BookManual(c)
    PROVE  PastInv'
<1>0. c \in Agent
  BY DEF Agent
<1>1. now' = now /\ signed' = signed
  BY DEF BeginManual, BookManual
<1>2. CASE BeginManual(c)
  <2>1. at' = [at EXCEPT ![c] = now] /\ mem' = mem /\ file' = file
    BY <1>2 DEF BeginManual
  <2> QED
    BY <1>1, <2>1, DaysAreNumbers DEF PastInv, NotLater, TypeOK
<1>3. CASE BookManual(c)
  <2>1. Forget(c)
    BY <1>3 DEF BookManual
  <2>2. PICK s : Save(s) /\ (s = mem \/ s.done = now.day)
    <3>1. CASE ok[c]
      <4>1. PICK m : Save([done |-> now.day, next |-> m])
        BY <1>3, <3>1 DEF BookManual
      <4>2. [done |-> now.day, next |-> m].done = now.day
        OBVIOUS
      <4> QED
        BY <4>1, <4>2
    <3>2. CASE ~ok[c]
      <4>1. Save(mem)
        BY <1>3, <3>2 DEF BookManual
      <4> QED
        BY <4>1
    <3> QED
      BY <3>1, <3>2
  <2>3. NotLater(s)
    BY <2>2, DaysAreNumbers DEF PastInv, NotLater
  <2> QED
    BY <1>0, <1>1, <2>1, <2>2, <2>3, ForgetPast, SavePast DEF PastInv
<1> QED
  BY <1>2, <1>3

\* Time, from one slot to the next or from one day to the next.
LEMMA TickDay ==
    ASSUME TypeOK, Tick
    PROVE  now'.day = now.day \/ now'.day = now.day + 1
  BY DEF Tick, TypeOK, Moment

LEMMA NextPast == TypeOK /\ PastInv /\ [Next]_vars => PastInv'
<1> SUFFICES ASSUME TypeOK, PastInv, [Next]_vars PROVE PastInv'
  OBVIOUS
<1>1. ASSUME NEW l \in Loop, Turn(l)
      PROVE  PastInv'
  BY <1>1, TurnPast
<1>2. ASSUME NEW a \in Agent, Request(a)
      PROVE  PastInv'
  <2>1. now' = now /\ mem' = mem /\ file' = file /\ at' = at
    BY <1>2 DEF Request, Query, PostSucceeds, PostFails
  <2>2. signed' = signed \/ signed' = signed \union {now.day}
    BY <1>2 DEF Request, Query, PostSucceeds, PostFails, Sign
  <2> QED
    BY <2>1, <2>2, DaysAreNumbers DEF PastInv, NotLater
<1>3. ASSUME NEW c \in Clerk, BeginManual(c) \/ BookManual(c)
      PROVE  PastInv'
  BY <1>3, ManualPast
<1>4. CASE Die
  <2>1. /\ now' = now /\ signed' = signed /\ mem' = file /\ file' = file
        /\ at' = [a \in Agent |-> Start]
    BY <1>4 DEF Die
  <2>2. 0 <= now.day /\ Start.day = 0
    BY DaysAreNumbers DEF Start
  <2> QED
    BY <2>1, <2>2 DEF PastInv, NotLater
<1>5. CASE UserSigns
  <2>1. /\ now' = now /\ mem' = mem /\ file' = file /\ at' = at
        /\ signed' = signed \union {now.day}
    BY <1>5 DEF UserSigns, Sign
  <2> QED
    BY <2>1, DaysAreNumbers DEF PastInv, NotLater
<1>6. CASE Tick
  <2>1. signed' = signed /\ mem' = mem /\ file' = file /\ at' = at
    BY <1>6 DEF Tick, local
  <2> QED
    BY <1>6, <2>1, TickDay, DaysAreNumbers DEF PastInv, NotLater
<1>7. CASE UNCHANGED <<now, signed, mem, file, at>>
  BY <1>7 DEF PastInv, NotLater
<1>8. ASSUME \/ BeginStart \/ UNCHANGED vars \/ (\E l \in Loop : Spawn(l))
             \/ (\E e \in BOOLEAN, r \in Ranges : SetConfig(e, r))
      PROVE  UNCHANGED <<now, signed, mem, file, at>>
  BY <1>8 DEF BeginStart, Spawn, SetConfig, vars, local
<1> QED
  BY <1>1, <1>2, <1>3, <1>4, <1>5, <1>6, <1>7, <1>8 DEF Next

THEOREM PastInvHolds == Spec => []PastInv
<1>1. Init => PastInv
  BY DEF Init, PastInv, NotLater, Start, NoState
<1>2. TypeOK /\ PastInv /\ [Next]_vars => PastInv'
  BY NextPast
<1> QED
  BY <1>1, <1>2, CheckinTypes, PTL DEF Spec

-----------------------------------------------------------------------------
(* The answers of the server *)

\* A step that starts no post, forgets or keeps the answers, and lets nobody
\* sign in keeps NoSecondPost.
LEMMA AnswersKept ==
    ASSUME NoSecondPost, now' = now, signed' = signed,
           \A a \in Agent : pc'[a] = "post" => pc[a] = "post",
           \A a \in Agent : checked'[a] => checked[a]
    PROVE  NoSecondPost'
  BY Zenon DEF NoSecondPost

LEMMA ForgetAnswers ==
    ASSUME TypeOK, NEW a \in Agent, Forget(a)
    PROVE  /\ \A b \in Agent : pc'[b] = "post" => pc[b] = "post"
           /\ \A b \in Agent : checked'[b] => checked[b]
<1>1. \A b \in Agent : pc'[b] = "post" => pc[b] = "post"
  BY DEF Forget, TypeOK
<1>2. \A b \in Agent : checked'[b] = IF b = a THEN FALSE ELSE checked[b]
  BY Zenon DEF Forget, TypeOK
<1> QED
  BY <1>1, <1>2, Zenon

LEMMA TurnAnswers ==
    ASSUME TypeOK, NoSecondPost, NEW l \in Loop, Turn(l)
    PROVE  NoSecondPost'
<1>0. l \in Agent
  BY DEF Agent
<1>1. now' = now /\ signed' = signed
  BY DEF Turn, ReadState, PlanTomorrow, PlanNext, Wait, SignIn, BookAuto
<1>2. CASE ReadState(l) \/ PlanNext(l) \/ SignIn(l)
  <2>1. checked' = checked
    BY <1>2 DEF ReadState, PlanNext, SignIn
  <2>2. \A a \in Agent : pc'[a] = "post" => pc[a] = "post"
    BY <1>0, <1>2 DEF ReadState, PlanNext, SignIn, TypeOK
  <2> QED
    BY <1>1, <2>1, <2>2, AnswersKept, Zenon
<1>3. CASE PlanTomorrow(l) \/ Wait(l) \/ BookAuto(l)
  <2>1. Forget(l)
    BY <1>3, Zenon DEF PlanTomorrow, Wait, BookAuto
  <2> QED
    BY <1>0, <1>1, <2>1, ForgetAnswers, AnswersKept, Zenon
<1> QED
  BY <1>2, <1>3, Zenon DEF Turn

LEMMA ManualAnswers ==
    ASSUME TypeOK, NoSecondPost, NEW c \in Clerk, BeginManual(c) \/ BookManual(c)
    PROVE  NoSecondPost'
<1>0. c \in Agent
  BY DEF Agent
<1>1. now' = now /\ signed' = signed
  BY DEF BeginManual, BookManual
<1>2. CASE BeginManual(c)
  <2>1. checked' = checked
    BY <1>2 DEF BeginManual
  <2>2. \A a \in Agent : pc'[a] = "post" => pc[a] = "post"
    BY <1>0, <1>2 DEF BeginManual, TypeOK
  <2> QED
    BY <1>1, <2>1, <2>2, AnswersKept, Zenon
<1>3. CASE BookManual(c)
  <2>1. Forget(c)
    BY <1>3, Zenon DEF BookManual
  <2> QED
    BY <1>0, <1>1, <2>1, ForgetAnswers, AnswersKept, Zenon
<1> QED
  BY <1>2, <1>3

\* While a thread posts, no other thread is at a post: the lock is its own.
LEMMA OnlyPoster ==
    ASSUME LockInv, NEW a \in Agent, pc[a] = "post", NEW b \in Agent, b # a
    PROVE  pc[b] # "post"
  BY DEF LockInv, Holds, Busy

LEMMA RequestAnswers ==
    ASSUME TypeOK, LockInv, NoSecondPost, NEW a \in Agent, Request(a)
    PROVE  NoSecondPost'
<1>1. now' = now
  BY DEF Request, Query, PostSucceeds, PostFails
<1>2. CASE Query(a)
  <2>1. signed' = signed
    BY <1>2 DEF Query
  <2>2. CASE Finish(a, TRUE) /\ UNCHANGED checked
    <3>1. \A b \in Agent : pc'[b] = "post" => pc[b] = "post"
      BY <2>2 DEF Finish, TypeOK
    <3> QED
      BY <1>1, <2>1, <2>2, <3>1, AnswersKept, Zenon
  <2>3. ASSUME pc' = [pc EXCEPT ![a] = "post"],
               NEW c \in {FALSE, now.day \notin signed},
               checked' = [checked EXCEPT ![a] = c]
        PROVE  NoSecondPost'
    <3>1. \A b \in Agent : b # a => pc'[b] = pc[b]
      BY <2>3 DEF TypeOK
    <3>2. \A b \in Agent : checked'[b] = IF b = a THEN c ELSE checked[b]
      BY <2>3, Zenon DEF TypeOK
    <3>3. c => now.day \notin signed
      BY <2>3, Zenon
    <3> QED
      BY <1>1, <2>1, <3>1, <3>2, <3>3, Zenon DEF NoSecondPost
  <2> QED
    BY <1>2, <2>2, <2>3, Zenon DEF Query
<1>3. CASE PostSucceeds(a)
  <2>1. pc[a] = "post" /\ \A b \in Agent : pc'[b] = IF b = a THEN "book" ELSE pc[b]
    BY <1>3 DEF PostSucceeds, Finish, TypeOK
  <2>2. \A b \in Agent : pc'[b] # "post"
    BY <2>1, OnlyPoster
  <2> QED
    BY <2>2, Zenon DEF NoSecondPost
<1>4. CASE PostFails(a)
  <2>1. pc[a] = "post" /\ \A b \in Agent : b # a => pc'[b] = pc[b]
    BY <1>4 DEF PostFails, Finish, TypeOK
  <2>2. \A b \in Agent : b # a => pc'[b] # "post"
    BY <2>1, OnlyPoster
  <2>3. checked'[a] = IF signed' = signed THEN checked[a] ELSE FALSE
    BY <1>4, Zenon DEF PostFails, TypeOK
  <2> QED
    BY <1>1, <2>1, <2>2, <2>3, Zenon DEF NoSecondPost
<1> QED
  BY <1>2, <1>3, <1>4, Zenon DEF Request

LEMMA NextAnswers ==
    TypeOK /\ LockInv /\ PastInv /\ NoSecondPost /\ [Next]_vars => NoSecondPost'
<1> SUFFICES ASSUME TypeOK, LockInv, PastInv, NoSecondPost, [Next]_vars
             PROVE  NoSecondPost'
  OBVIOUS
<1>1. ASSUME NEW l \in Loop, Turn(l)
      PROVE  NoSecondPost'
  BY <1>1, TurnAnswers
<1>2. ASSUME NEW a \in Agent, Request(a)
      PROVE  NoSecondPost'
  BY <1>2, RequestAnswers
<1>3. ASSUME NEW c \in Clerk, BeginManual(c) \/ BookManual(c)
      PROVE  NoSecondPost'
  BY <1>3, ManualAnswers
<1>4. CASE Die
  BY <1>4 DEF Die, NoSecondPost
<1>5. CASE UserSigns
  <2>1. \A a \in Agent : ~checked'[a]
    BY <1>5, Zenon DEF UserSigns
  <2> QED
    BY <2>1, Zenon DEF NoSecondPost
<1>6. CASE Tick
  <2>1. pc' = pc /\ checked' = checked /\ signed' = signed
    BY <1>6 DEF Tick, local
  <2>2. now'.day = now.day \/ now'.day \notin signed
    BY <1>6, TickDay, DaysAreNumbers DEF PastInv
  <2> QED
    BY <2>1, <2>2, Zenon DEF NoSecondPost
<1>7. CASE UNCHANGED <<now, signed, pc, checked>>
  BY <1>7, Zenon DEF NoSecondPost
<1>8. ASSUME \/ BeginStart \/ UNCHANGED vars \/ (\E l \in Loop : Spawn(l))
             \/ (\E e \in BOOLEAN, r \in Ranges : SetConfig(e, r))
      PROVE  UNCHANGED <<now, signed, pc, checked>>
  BY <1>8 DEF BeginStart, Spawn, SetConfig, vars, local
<1> QED
  BY <1>1, <1>2, <1>3, <1>4, <1>5, <1>6, <1>7, <1>8, Zenon DEF Next

\* Asking and posting are one: a post that follows the answer "not signed" is
\* never sent for a day that another thread of the program has signed meanwhile.
THEOREM PostsAreNeeded == Spec => []NoSecondPost
<1>1. Init => NoSecondPost
  BY DEF Init, NoSecondPost
<1>2. TypeOK /\ LockInv /\ PastInv /\ NoSecondPost /\ [Next]_vars => NoSecondPost'
  BY NextAnswers
<1> QED
  BY <1>1, <1>2, CheckinTypes, LockInvHolds, PastInvHolds, PTL DEF Spec

-----------------------------------------------------------------------------
(* What is booked *)

\* A step that ends no sign-in and takes nothing back keeps BookInv.
LEMMA BookKept ==
    ASSUME BookInv, now' = now, signed \subseteq signed',
           \A a \in Agent : pc'[a] = "book" =>
               pc[a] = "book" /\ at'[a] = at[a] /\ (ok'[a] => ok[a])
    PROVE  BookInv'
  BY Zenon DEF BookInv

LEMMA ForgetBook ==
    ASSUME TypeOK, NEW a \in Agent, Forget(a)
    PROVE  \A b \in Agent : pc'[b] = "book" =>
               pc[b] = "book" /\ at'[b] = at[b] /\ (ok'[b] => ok[b])
<1>1. \A b \in Agent : pc'[b] = "book" => b # a /\ pc[b] = "book" /\ at'[b] = at[b]
  BY DEF Forget, TypeOK
<1>2. \A b \in Agent : ok'[b] = IF b = a THEN FALSE ELSE ok[b]
  BY Zenon DEF Forget, TypeOK
<1> QED
  BY <1>1, <1>2, Zenon

LEMMA TurnBook ==
    ASSUME TypeOK, BookInv, NEW l \in Loop, Turn(l)
    PROVE  BookInv'
<1>0. l \in Agent
  BY DEF Agent
<1>1. now' = now /\ signed' = signed
  BY DEF Turn, ReadState, PlanTomorrow, PlanNext, Wait, SignIn, BookAuto
<1>2. CASE ReadState(l) \/ PlanNext(l) \/ SignIn(l)
  <2>1. ok' = ok
    BY <1>2 DEF ReadState, PlanNext, SignIn
  <2>2. \A a \in Agent : pc'[a] = "book" => pc[a] = "book" /\ at'[a] = at[a]
    BY <1>0, <1>2 DEF ReadState, PlanNext, SignIn, TypeOK
  <2> QED
    BY <1>1, <2>1, <2>2, BookKept, Zenon
<1>3. CASE PlanTomorrow(l) \/ Wait(l) \/ BookAuto(l)
  <2>1. Forget(l)
    BY <1>3, Zenon DEF PlanTomorrow, Wait, BookAuto
  <2> QED
    BY <1>0, <1>1, <2>1, ForgetBook, BookKept, Zenon
<1> QED
  BY <1>2, <1>3, Zenon DEF Turn

LEMMA ManualBook ==
    ASSUME TypeOK, BookInv, NEW c \in Clerk, BeginManual(c) \/ BookManual(c)
    PROVE  BookInv'
<1>0. c \in Agent
  BY DEF Agent
<1>1. now' = now /\ signed' = signed
  BY DEF BeginManual, BookManual
<1>2. CASE BeginManual(c)
  <2>1. ok' = ok
    BY <1>2 DEF BeginManual
  <2>2. \A a \in Agent : pc'[a] = "book" => pc[a] = "book" /\ at'[a] = at[a]
    BY <1>0, <1>2 DEF BeginManual, TypeOK
  <2> QED
    BY <1>1, <2>1, <2>2, BookKept, Zenon
<1>3. CASE BookManual(c)
  <2>1. Forget(c)
    BY <1>3, Zenon DEF BookManual
  <2> QED
    BY <1>0, <1>1, <2>1, ForgetBook, BookKept, Zenon
<1> QED
  BY <1>2, <1>3

\* A sign-in that ends well ends on a day that is signed.
LEMMA RequestBook ==
    ASSUME TypeOK, BookInv, NEW a \in Agent, Request(a)
    PROVE  BookInv'
<1>1. now' = now /\ at' = at /\ signed \subseteq signed'
  BY DEF Request, Query, PostSucceeds, PostFails, Sign
<1>2. ASSUME Finish(a, TRUE), now.day \in signed'
      PROVE  BookInv'
  <2>1. \A b \in Agent : b # a => pc'[b] = pc[b]
    BY <1>2 DEF Finish, TypeOK
  <2>2. \A b \in Agent : b # a => ok'[b] = ok[b]
    BY <1>2, Zenon DEF Finish, TypeOK
  <2> QED
    BY <1>1, <1>2, <2>1, <2>2, Zenon DEF BookInv
<1>3. CASE Finish(a, FALSE)
  <2>1. \A b \in Agent : b # a => pc'[b] = pc[b]
    BY <1>3 DEF Finish, TypeOK
  <2>2. \A b \in Agent : ok'[b] = IF b = a THEN FALSE ELSE ok[b]
    BY <1>3, Zenon DEF Finish, TypeOK
  <2> QED
    BY <1>1, <2>1, <2>2, Zenon DEF BookInv
<1>4. CASE pc' = [pc EXCEPT ![a] = "post"] /\ ok' = ok
  <2>1. \A b \in Agent : pc'[b] = "book" => pc[b] = "book"
    BY <1>4 DEF TypeOK
  <2> QED
    BY <1>1, <1>4, <2>1, BookKept, Zenon
<1>5. CASE pc' = pc /\ ok' = ok
  BY <1>1, <1>5, BookKept, Zenon
<1>6. CASE Query(a)
  <2>1. signed' = signed
    BY <1>6 DEF Query
  <2>2. CASE now.day \in signed /\ Finish(a, TRUE)
    BY <1>2, <2>1, <2>2, Zenon
  <2>3. CASE pc' = [pc EXCEPT ![a] = "post"] /\ UNCHANGED <<lock, ok>>
    <3>1. ok' = ok
      BY <2>3
    <3> QED
      BY <1>4, <2>3, <3>1
  <2> QED
    BY <1>6, <2>2, <2>3, Zenon DEF Query
<1>7. CASE PostSucceeds(a)
  <2>1. now.day \in signed'
    BY <1>7 DEF PostSucceeds, Sign
  <2>2. Finish(a, TRUE)
    BY <1>7, Zenon DEF PostSucceeds
  <2> QED
    BY <1>2, <2>1, <2>2
<1>8. CASE PostFails(a)
  <2>1. CASE UNCHANGED <<pc, ok, lock>>
    <3>1. pc' = pc /\ ok' = ok
      BY <2>1
    <3> QED
      BY <1>5, <3>1
  <2> QED
    BY <1>3, <1>8, <2>1, Zenon DEF PostFails
<1> QED
  BY <1>6, <1>7, <1>8, Zenon DEF Request

LEMMA NextBook == TypeOK /\ PastInv /\ BookInv /\ [Next]_vars => BookInv'
<1> SUFFICES ASSUME TypeOK, PastInv, BookInv, [Next]_vars PROVE BookInv'
  OBVIOUS
<1>1. ASSUME NEW l \in Loop, Turn(l)
      PROVE  BookInv'
  BY <1>1, TurnBook
<1>2. ASSUME NEW a \in Agent, Request(a)
      PROVE  BookInv'
  BY <1>2, RequestBook
<1>3. ASSUME NEW c \in Clerk, BeginManual(c) \/ BookManual(c)
      PROVE  BookInv'
  BY <1>3, ManualBook
<1>4. CASE Die
  BY <1>4 DEF Die, BookInv
<1>5. CASE Tick
  <2>1. pc' = pc /\ ok' = ok /\ at' = at /\ signed' = signed
    BY <1>5 DEF Tick, local
  <2>2. CASE now'.day = now.day
    BY <2>1, <2>2, Zenon DEF BookInv
  <2>3. CASE now'.day = now.day + 1
    <3>1. \A a \in Agent : at'[a].day # now'.day
      BY <2>1, <2>3, DaysAreNumbers DEF PastInv
    <3> QED
      BY <3>1, Zenon DEF BookInv
  <2> QED
    BY <1>5, <2>2, <2>3, TickDay
<1>6. CASE UNCHANGED <<now, pc, ok, at>> /\ signed \subseteq signed'
  <2>1. now' = now /\ pc' = pc /\ ok' = ok /\ at' = at
    BY <1>6
  <2> QED
    BY <1>6, <2>1, BookKept, Zenon
<1>7. ASSUME \/ BeginStart \/ UserSigns \/ UNCHANGED vars
             \/ (\E l \in Loop : Spawn(l))
             \/ (\E e \in BOOLEAN, r \in Ranges : SetConfig(e, r))
      PROVE  UNCHANGED <<now, pc, ok, at>> /\ signed \subseteq signed'
  BY <1>7 DEF BeginStart, UserSigns, Sign, Spawn, SetConfig, vars, local
<1> QED
  BY <1>1, <1>2, <1>3, <1>4, <1>5, <1>6, <1>7, Zenon DEF Next

THEOREM BookInvHolds == Spec => []BookInv
<1>1. Init => BookInv
  BY DEF Init, BookInv
<1>2. TypeOK /\ PastInv /\ BookInv /\ [Next]_vars => BookInv'
  BY NextBook
<1> QED
  BY <1>1, <1>2, CheckinTypes, PastInvHolds, PTL DEF Spec

\* A state that is honest after the step is honest wherever it is saved.
LEMMA SaveHonest ==
    ASSUME HonestInv, NEW s, Save(s), now' = now, signed \subseteq signed',
           slipped => slipped',
           s.done = now.day => now.day \in signed' \/ slipped'
    PROVE  HonestInv'
<1>1. mem' = s /\ (file' = s \/ file' = file)
  BY DEF Save
<1>2. Honest(s)'
  BY DEF Honest
<1> QED
  BY <1>1, <1>2 DEF HonestInv, Honest

LEMMA NextHonest ==
    TypeOK /\ PastInv /\ BookInv /\ HonestInv /\ [Next]_vars => HonestInv'
<1> SUFFICES ASSUME TypeOK, PastInv, BookInv, HonestInv, [Next]_vars
             PROVE  HonestInv'
  OBVIOUS
<1>1. ASSUME NEW l \in Loop, Turn(l)
      PROVE  HonestInv'
  <2>0. l \in Agent /\ now' = now /\ signed' = signed /\ slipped' = slipped
    BY <1>1 DEF Turn, ReadState, PlanTomorrow, PlanNext, Wait, SignIn, BookAuto, Agent
  <2>1. ASSUME NEW m, Save([mem EXCEPT !.next = m])
        PROVE  HonestInv'
    <3>1. [mem EXCEPT !.next = m].done = mem.done
      BY DEF TypeOK, State
    <3> QED
      BY <2>0, <2>1, <3>1, SaveHonest DEF HonestInv, Honest
  <2>2. CASE PlanTomorrow(l) \/ PlanNext(l)
    BY <2>1, <2>2 DEF PlanTomorrow, PlanNext
  <2>3. CASE BookAuto(l)
    <3>1. CASE ok[l]
      <4>1. PICK m : Save([done |-> at[l].day, next |-> m])
        BY <2>3, <3>1 DEF BookAuto
      <4>2. at[l].day = now.day => now.day \in signed
        BY <2>0, <2>3, <3>1, Zenon DEF BookAuto, BookInv
      <4> QED
        BY <2>0, <4>1, <4>2, SaveHonest
    <3>2. CASE ~ok[l]
      BY <2>1, <2>3, <3>2 DEF BookAuto
    <3> QED
      BY <3>1, <3>2
  <2>4. CASE ReadState(l) \/ Wait(l) \/ SignIn(l)
    BY <2>0, <2>4 DEF ReadState, Wait, SignIn, HonestInv, Honest
  <2> QED
    BY <1>1, <2>2, <2>3, <2>4 DEF Turn
<1>2. ASSUME NEW a \in Agent, Request(a)
      PROVE  HonestInv'
  <2>1. /\ now' = now /\ mem' = mem /\ file' = file /\ slipped' = slipped
        /\ signed \subseteq signed'
    BY <1>2 DEF Request, Query, PostSucceeds, PostFails, Sign
  <2> QED
    BY <2>1 DEF HonestInv, Honest
<1>3. ASSUME NEW c \in Clerk, BookManual(c)
      PROVE  HonestInv'
  <2>0. c \in Agent /\ now' = now /\ signed' = signed /\ pc[c] = "book"
    BY <1>3 DEF BookManual, Agent
  <2>1. slipped' = IF ok[c] /\ at[c].day # now.day THEN TRUE ELSE slipped
    BY <1>3, Zenon DEF BookManual
  <2>2. slipped => slipped'
    BY <2>1, Zenon
  <2>3. CASE ok[c]
    <3>1. PICK m : Save([done |-> now.day, next |-> m])
      BY <1>3, <2>3 DEF BookManual
    <3>2. now.day \in signed \/ slipped'
      BY <2>0, <2>1, <2>3, Zenon DEF BookInv
    <3> QED
      BY <2>0, <2>2, <3>1, <3>2, SaveHonest
  <2>4. CASE ~ok[c]
    <3>1. Save(mem)
      BY <1>3, <2>4 DEF BookManual
    <3> QED
      BY <2>0, <2>2, <3>1, SaveHonest DEF HonestInv, Honest
  <2> QED
    BY <2>3, <2>4
<1>4. CASE Die
  BY <1>4 DEF Die, HonestInv, Honest
<1>5. CASE Tick
  <2>1. mem' = mem /\ file' = file /\ signed' = signed /\ slipped' = slipped
    BY <1>5 DEF Tick
  <2>2. CASE now'.day = now.day
    BY <2>1, <2>2 DEF HonestInv, Honest
  <2>3. CASE now'.day = now.day + 1
    <3>1. now'.day # None
      <4>1. now' \in Moment
        BY <1>5, NextTyped DEF TypeOK, Next
      <4> QED
        BY <4>1, NamesDiffer DEF Moment
    <3>2. mem.done # now'.day /\ file.done # now'.day
      BY <2>3, <3>1, DaysAreNumbers DEF PastInv, NotLater
    <3> QED
      BY <2>1, <3>2 DEF HonestInv, Honest
  <2> QED
    BY <1>5, <2>2, <2>3, TickDay
<1>6. CASE UNCHANGED <<now, mem, file, slipped>> /\ signed \subseteq signed'
  BY <1>6 DEF HonestInv, Honest
<1>7. ASSUME \/ BeginStart \/ UserSigns \/ UNCHANGED vars
             \/ (\E l \in Loop : Spawn(l)) \/ (\E c \in Clerk : BeginManual(c))
             \/ (\E e \in BOOLEAN, r \in Ranges : SetConfig(e, r))
      PROVE  UNCHANGED <<now, mem, file, slipped>> /\ signed \subseteq signed'
  BY <1>7 DEF BeginStart, UserSigns, Sign, Spawn, BeginManual, SetConfig, vars, local
<1> QED
  BY <1>1, <1>2, <1>3, <1>4, <1>5, <1>6, <1>7, Zenon DEF Next

LEMMA HonestInvHolds == Spec => []HonestInv
<1>1. Init => HonestInv
  BY NamesDiffer, BoundsAreNumbers DEF Init, HonestInv, Honest, NoState, Start, Day
<1> QED
  BY <1>1, NextHonest, CheckinTypes, PastInvHolds, BookInvHolds, PTL DEF Spec

\* The page never says "signed today" of a day that is not signed, except after
\* a sign-in by hand that went over midnight: lost answers, failed writes, deaths
\* of the process and two threads at once do not lead there.
THEOREM StatusIsHonest == Spec => []StatusHonest
<1>1. HonestInv => StatusHonest
  BY DEF HonestInv, Honest, StatusHonest
<1> QED
  BY <1>1, HonestInvHolds, PTL

-----------------------------------------------------------------------------
(***************************************************************************)
(* No day is missed.  Nothing but a sign-in that failed for good takes the *)
(* planned moment away, and whoever reads that there is none draws one.    *)
(* So a day that begins without a moment begins with a thread that still   *)
(* works on the day before, and time does not pass before that thread has  *)
(* drawn one for the new day or failed; and a moment of the day after is   *)
(* only drawn once the day is signed.                                      *)
(***************************************************************************)

\* A thread runs _loop as long as it is at work, and is made only once.
AliveInv ==
    /\ \A l \in Loop : pc[l] # "idle" => l \in alive
    /\ alive \intersect starting = {}

\* What began on the day before ends in the first slot of the day.
OnTime == \A a \in Agent : pc[a] # "idle" /\ at[a].day # now.day => now.slot = 0

\* Nothing is planned further ahead than tomorrow.
Near(state) == state.next # None => state.next.day <= now.day + 1

NearInv == Near(mem) /\ Near(file)

\* The thread will draw a moment, unless its sign-in fails for good.
WillPlan(l) ==
    \/ pc[l] \in Busy \union {"book"}
    \/ pc[l] = "decide" /\ (DoneToday(l) \/ seen[l].state.next = None)

\* As long as there are threads, not all of them believe in a moment that is
\* not planned any more.
WatchInv ==
    mem.next = None /\ alive # {} => \E l \in alive : pc[l] = "idle" \/ WillPlan(l)

\* On a calm day: sign-ins are on; the moment that is missing is about to be
\* drawn by a thread that began yesterday; whoever draws one today does so in the
\* first slot, for today; and tomorrow is planned only when today is signed.
Promised == mem.next = None => \E l \in Loop : WillPlan(l) /\ at[l].day < now.day

EarlyEnough ==
    \A l \in Loop : pc[l] = "decide" /\ at[l].day = now.day =>
        IF DoneToday(l) THEN now.day \in signed \/ slipped
        ELSE seen[l].state.next = None => at[l].slot = 0

TomorrowIsEarned ==
    ~slipped /\ mem.next # None /\ mem.next.day > now.day => now.day \in signed

CalmInv ==
    calm => config.enabled /\ client /\ Promised /\ EarlyEnough /\ TomorrowIsEarned

DayInv == AliveInv /\ OnTime /\ NearInv /\ WatchInv /\ CalmInv

\* All threads but a stay where they are.
Others(a) ==
    \A b \in Agent \ {a} : pc'[b] = pc[b] /\ at'[b] = at[b] /\ seen'[b] = seen[b]

Acts(a) ==
    (a \in Loop /\ Turn(a)) \/ Request(a) \/ (a \in Clerk /\ (BeginManual(a) \/ BookManual(a)))

LEMMA OneActs ==
    ASSUME TypeOK, NEW a \in Agent, Acts(a)
    PROVE  /\ Others(a) /\ signed \subseteq signed'
           /\ UNCHANGED <<now, config, client, alive, starting>>
<1>0. pc \in [Agent -> PC] /\ at \in [Agent -> Moment] /\ DOMAIN seen = Agent
  BY DEF TypeOK
<1>1. CASE a \in Loop /\ Turn(a)
  <2>1. CASE ReadState(a) \/ PlanNext(a) \/ SignIn(a)
    BY <1>0, <2>1 DEF ReadState, PlanNext, SignIn, Others
  <2>2. CASE PlanTomorrow(a) \/ Wait(a) \/ BookAuto(a)
    BY <1>0, <2>2 DEF PlanTomorrow, Wait, BookAuto, Forget, Others
  <2> QED BY <1>1, <2>1, <2>2 DEF Turn
<1>2. CASE Request(a)
  BY <1>0, <1>2 DEF Request, Query, PostSucceeds, PostFails, Finish, Sign, Others
<1>3. CASE a \in Clerk /\ BeginManual(a)
  BY <1>0, <1>3 DEF BeginManual, Others
<1>4. CASE a \in Clerk /\ BookManual(a)
  BY <1>0, <1>4 DEF BookManual, Forget, Others
<1> QED BY <1>1, <1>2, <1>3, <1>4 DEF Acts

\* Who acts was at work before, or has just begun.
LEMMA Beginner ==
    ASSUME TypeOK, NEW a \in Agent, Acts(a), pc'[a] # "idle"
    PROVE  \/ pc[a] # "idle" /\ at'[a] = at[a]
           \/ pc[a] = "idle" /\ at'[a] = now /\ (a \in Loop => ReadState(a) /\ a \in alive)
<1>0. pc \in [Agent -> PC] /\ at \in [Agent -> Moment] /\ Loop \intersect Clerk = {}
  BY NamesDiffer DEF TypeOK
<1>1. CASE a \in Loop /\ Turn(a)
  BY <1>0, <1>1 DEF Turn, ReadState, PlanNext, SignIn, PlanTomorrow, Wait, BookAuto, Forget
<1>2. CASE Request(a)
  BY <1>0, <1>2 DEF Request, Query, PostSucceeds, PostFails
<1>3. CASE a \in Clerk /\ (BeginManual(a) \/ BookManual(a))
  BY <1>0, <1>3 DEF BeginManual, BookManual, Forget
<1> QED BY <1>1, <1>2, <1>3 DEF Acts

\* The steps by which no thread moves.
Around ==
    \/ BeginStart \/ UserSigns \/ UNCHANGED vars
    \/ \E l \in Loop : Spawn(l)
    \/ \E e \in BOOLEAN, r \in Ranges : SetConfig(e, r)

LEMMA AroundThreads ==
    Around => UNCHANGED <<now, pc, at, seen, mem, file, slipped, lock>> /\ signed \subseteq signed'
BY DEF Around, BeginStart, UserSigns, Sign, Spawn, SetConfig, vars, local

LEMMA StepKinds ==
    [Next]_vars => (\E a \in Agent : Acts(a)) \/ Around \/ Die \/ Tick
BY DEF Next, Acts, Around, Agent

LEMMA NextAlive == TypeOK /\ AliveInv /\ [Next]_vars => AliveInv'
<1> SUFFICES ASSUME TypeOK, AliveInv, [Next]_vars PROVE AliveInv'
  OBVIOUS
<1>1. ASSUME NEW a \in Agent, Acts(a) PROVE AliveInv'
  BY <1>1, OneActs, Beginner DEF AliveInv, Others, Agent
<1>2. ASSUME NEW l \in Loop, Spawn(l) PROVE AliveInv'
  BY <1>2 DEF Spawn, local, AliveInv
<1>3. CASE BeginStart
  BY <1>3 DEF BeginStart, local, AliveInv
<1>4. CASE Die
  BY <1>4 DEF Die, AliveInv, Agent
<1>5. CASE UNCHANGED <<pc, alive, starting>>
  BY <1>5 DEF AliveInv
<1>6. ASSUME UserSigns \/ Tick \/ UNCHANGED vars
             \/ (\E e \in BOOLEAN, r \in Ranges : SetConfig(e, r))
      PROVE  UNCHANGED <<pc, alive, starting>>
  BY <1>6 DEF UserSigns, Tick, SetConfig, vars, local
<1> QED BY <1>1, <1>2, <1>3, <1>4, <1>5, <1>6, StepKinds DEF Around

\* What a moment does to the days: the slots of one day come before the next.
LEMMA TickSlots ==
    ASSUME TypeOK, Tick
    PROVE  /\ \A a \in Agent : pc[a] # "idle" => at[a] = now
           /\ \/ now'.day = now.day /\ calm' = calm
              \/ /\ now'.day = now.day + 1 /\ now'.slot = 0
                 /\ calm' = (config.enabled /\ client /\ alive # {}
                              /\ \A c \in Clerk : pc[c] = "idle")
           /\ UNCHANGED <<signed, config, client, mem, file, alive, starting, pc, at, seen,
                          slipped, lock>>
<1>1. CASE now.slot < LastSlot /\ now' = [now EXCEPT !.slot = now.slot + 1] /\ UNCHANGED calm
  BY <1>1 DEF Tick, local, TypeOK, Moment
<1>2. CASE /\ now' = [day |-> now.day + 1, slot |-> 0]
           /\ calm' = (config.enabled /\ client /\ alive # {}
                        /\ \A c \in Clerk : pc[c] = "idle")
  BY <1>2 DEF Tick, local
<1> QED BY <1>1, <1>2, Zenon DEF Tick

LEMMA NextOnTime == TypeOK /\ PastInv /\ OnTime /\ [Next]_vars => OnTime'
<1> SUFFICES ASSUME TypeOK, PastInv, OnTime, [Next]_vars PROVE OnTime'
  OBVIOUS
<1>1. ASSUME NEW a \in Agent, Acts(a) PROVE OnTime'
  BY <1>1, OneActs, Beginner DEF OnTime, Others
<1>2. CASE Around
  BY <1>2, AroundThreads DEF OnTime
<1>3. CASE Die
  BY <1>3 DEF Die, OnTime
<1>4. CASE Tick
  BY <1>4, TickSlots DEF OnTime
<1> QED BY <1>1, <1>2, <1>3, <1>4, StepKinds

\* A moment that is drawn is of the day it is drawn for.
LEMMA DrawnDay ==
    ASSUME NEW d, NEW range, NEW m \in Drawn(d, range)
    PROVE  m.day = d
BY DEF Drawn

LEMMA PickedDay ==
    ASSUME NEW m \in Moment, NEW range \in Range, NEW n \in PickNext(m, range)
    PROVE  n.day = (IF m.slot < Window(range).till THEN m.day ELSE m.day + 1)
BY DEF PickNext, Drawn

\* Every window ends after the first slot.
LEMMA WindowEnds ==
    ASSUME NEW range \in Range
    PROVE  0 < Window(range).till
BY WindowsAreRanges, BoundsAreNumbers DEF Window, Range, Slot

\* A thread that draws a moment plans it.
LEMMA TomorrowDrawn ==
    ASSUME TypeOK, NEW a \in Loop, PlanTomorrow(a)
    PROVE  /\ mem'.next \in Plan /\ mem'.next # None /\ (file' = file \/ file' = mem')
           /\ mem'.next.day = at[a].day + 1
<1>0. a \in Agent /\ seen[a].range \in Range /\ None \notin Plan /\ mem \in State
  BY NamesDiffer DEF TypeOK, Agent
<1>1. PICK m \in Drawn(at[a].day + 1, seen[a].range) : Save([mem EXCEPT !.next = m])
  BY DEF PlanTomorrow
<1>2. m \in Plan /\ m.day = at[a].day + 1
  BY <1>0, <1>1, TomorrowIsPlan, DrawnDay
<1>3. mem'.next = m /\ (file' = file \/ file' = mem')
  BY <1>0, <1>1 DEF Save, State
<1> QED BY <1>0, <1>2, <1>3

LEMMA NextDrawn ==
    ASSUME TypeOK, NEW a \in Loop, PlanNext(a)
    PROVE  /\ mem'.next \in Plan /\ mem'.next # None /\ (file' = file \/ file' = mem')
           /\ seen'[a].state.next = mem'.next /\ seen'[a].state.done = seen[a].state.done
           /\ mem'.next.day = at[a].day
                \/ (mem'.next.day = at[a].day + 1 /\ at[a].slot # 0)
<1>0. /\ a \in Agent /\ at[a] \in Moment /\ seen[a].range \in Range
      /\ None \notin Plan /\ mem \in State /\ seen \in [Agent -> [state: State, range: Range]]
  BY NamesDiffer DEF TypeOK, Agent
<1>1. PICK m \in PickNext(at[a], seen[a].range) :
        /\ Save([mem EXCEPT !.next = m])
        /\ seen' = [seen EXCEPT ![a].state.next = m]
  BY DEF PlanNext
<1>2. m \in Plan /\ m.day = (IF at[a].slot < Window(seen[a].range).till
                             THEN at[a].day ELSE at[a].day + 1)
  BY <1>0, <1>1, PickIsPlan, PickedDay
<1>3. mem'.next = m /\ (file' = file \/ file' = mem')
  BY <1>0, <1>1 DEF Save, State
<1>4. seen'[a].state.next = m /\ seen'[a].state.done = seen[a].state.done
  BY <1>0, <1>1 DEF State
<1>5. m.day = at[a].day \/ (m.day = at[a].day + 1 /\ at[a].slot # 0)
  BY <1>0, <1>2, WindowEnds
<1> QED BY <1>0, <1>2, <1>3, <1>4, <1>5

\* What a thread makes of the plan.
LEMMA PlanOf ==
    ASSUME TypeOK, NEW a \in Agent, Acts(a)
    PROVE  \/ mem' = mem /\ (file' = file \/ file' = mem)
           \/ /\ a \in Loop /\ BookAuto(a) /\ ~ok[a]
              /\ mem' = [mem EXCEPT !.next = None] /\ mem'.next = None
              /\ file' = file \/ file' = mem'
           \/ /\ mem'.next \in Plan /\ mem'.next # None
              /\ file' = file \/ file' = mem'
              /\ \/ a \in Loop /\ PlanTomorrow(a) /\ mem'.next.day = at[a].day + 1
                 \/ /\ a \in Loop /\ PlanNext(a) /\ seen'[a].state.next = mem'.next
                    /\ seen'[a].state.done = seen[a].state.done
                    /\ mem'.next.day = at[a].day
                         \/ (mem'.next.day = at[a].day + 1 /\ at[a].slot # 0)
                 \/ a \in Loop /\ BookAuto(a) /\ ok[a] /\ mem'.next.day = at[a].day + 1
                 \/ a \in Clerk /\ BookManual(a) /\ ok[a] /\ mem'.next.day = now.day + 1
<1>0. /\ at[a] \in Moment /\ seen[a].range \in Range /\ config.range \in Range
      /\ None \notin Plan /\ mem \in State /\ seen \in [Agent -> [state: State, range: Range]]
  BY NamesDiffer DEF TypeOK
<1>1. CASE a \in Loop /\ PlanTomorrow(a)
  BY <1>1, TomorrowDrawn
<1>2. CASE a \in Loop /\ PlanNext(a)
  BY <1>2, NextDrawn
<1>3. CASE a \in Loop /\ BookAuto(a) /\ ok[a]
  <2>1. PICK m \in Drawn(at[a].day + 1, seen[a].range) : Save([done |-> at[a].day, next |-> m])
    BY <1>3 DEF BookAuto
  <2>2. m \in Plan /\ m.day = at[a].day + 1
    BY <1>0, <2>1, TomorrowIsPlan, DrawnDay
  <2>3. mem'.next = m /\ (file' = file \/ file' = mem')
    BY <2>1 DEF Save
  <2> QED BY <1>0, <1>3, <2>2, <2>3
<1>4. CASE a \in Loop /\ BookAuto(a) /\ ~ok[a]
  <2>1. Save([mem EXCEPT !.next = None])
    BY <1>4, Zenon DEF BookAuto
  <2> QED BY <1>0, <1>4, <2>1 DEF Save, State
<1>5. CASE a \in Clerk /\ BookManual(a) /\ ok[a]
  <2>1. PICK m \in Drawn(now.day + 1, config.range) : Save([done |-> now.day, next |-> m])
    BY <1>5 DEF BookManual
  <2>2. m \in Plan /\ m.day = now.day + 1
    BY <1>0, <2>1, TomorrowIsPlan, DrawnDay
  <2>3. mem'.next = m /\ (file' = file \/ file' = mem')
    BY <2>1 DEF Save
  <2> QED BY <1>0, <1>5, <2>2, <2>3
<1>6. CASE a \in Clerk /\ BookManual(a) /\ ~ok[a]
  BY <1>6 DEF BookManual, Save
<1>7. CASE (a \in Loop /\ (ReadState(a) \/ Wait(a) \/ SignIn(a))) \/ Request(a)
           \/ (a \in Clerk /\ BeginManual(a))
  BY <1>7 DEF ReadState, Wait, SignIn, Request, Query, PostSucceeds, PostFails, BeginManual
<1> QED BY <1>1, <1>2, <1>3, <1>4, <1>5, <1>6, <1>7, Zenon DEF Acts, Turn

LEMMA NextNear == TypeOK /\ PastInv /\ NearInv /\ [Next]_vars => NearInv'
<1> SUFFICES ASSUME TypeOK, PastInv, NearInv, [Next]_vars PROVE NearInv'
  OBVIOUS
<1>0. now.day \in Nat /\ \A a \in Agent : at[a].day \in Nat /\ at[a].day <= now.day
  BY DaysAreNumbers DEF PastInv
<1>1. ASSUME NEW a \in Agent, Acts(a) PROVE NearInv'
  <2>1. now' = now
    BY <1>1, OneActs
  <2> QED BY <1>0, <1>1, <2>1, PlanOf DEF NearInv, Near
<1>2. CASE Around
  BY <1>2, AroundThreads DEF NearInv, Near
<1>3. CASE Die
  BY <1>3 DEF Die, NearInv, Near
<1>4. CASE Tick
  <2>1. now'.day = now.day \/ now'.day = now.day + 1
    BY <1>4, TickDay
  <2>2. mem' = mem /\ file' = file
    BY <1>4, TickSlots
  <2>3. \A s \in {mem, file} : s.next # None => s.next.day \in Nat
    BY BoundsAreNumbers DEF TypeOK, State, Plan
  <2> QED BY <1>0, <2>1, <2>2, <2>3 DEF NearInv, Near
<1> QED BY <1>1, <1>2, <1>3, <1>4, StepKinds

LEMMA WillPlanStays ==
    ASSUME NEW a \in Agent, Others(a), NEW l \in Loop, l # a, WillPlan(l)
    PROVE  WillPlan(l)' /\ at'[l] = at[l]
BY DEF Others, WillPlan, DoneToday, Agent

\* Who will draw a moment goes on, until it has drawn one or failed.
LEMMA PlannerGoesOn ==
    ASSUME TypeOK, NEW l \in Loop, WillPlan(l), Acts(l), mem'.next = None
    PROVE  (WillPlan(l)' /\ at'[l] = at[l]) \/ (BookAuto(l) /\ ~ok[l])
<1>0. l \in Agent /\ l \notin Clerk /\ pc \in [Agent -> PC] /\ pc[l] # "idle"
  BY NamesDiffer DEF Agent, TypeOK, WillPlan, Busy
<1>1. CASE Request(l)
  <2>1. pc'[l] \in Busy \union {"book"} /\ at' = at
    BY <1>0, <1>1 DEF Request, Query, PostSucceeds, PostFails, Finish, Busy
  <2> QED BY <2>1 DEF WillPlan
<1>2. CASE PlanTomorrow(l) \/ PlanNext(l)
  <2>1. mem'.next # None
    BY <1>2, TomorrowDrawn, NextDrawn
  <2> QED BY <2>1
<1>3. CASE BookAuto(l)
  <2>1. CASE ok[l]
    <3>1. PICK m \in Drawn(at[l].day + 1, seen[l].range) : Save([done |-> at[l].day, next |-> m])
      BY <1>3, <2>1 DEF BookAuto
    <3>2. seen[l].range \in Range
      BY <1>0 DEF TypeOK
    <3>3. m \in Plan /\ mem'.next = m
      BY <1>0, <3>1, <3>2, TomorrowIsPlan DEF Save
    <3> QED BY <3>3, NamesDiffer
  <2> QED BY <1>3, <2>1, Zenon
<1>4. CASE ReadState(l) \/ Wait(l) \/ SignIn(l)
  <2>1. pc[l] \in {"idle", "decide"}
        /\ (pc[l] = "decide" => ~DoneToday(l) /\ seen[l].state.next # None)
    BY <1>4 DEF ReadState, Wait, SignIn
  <2> QED BY <1>0, <2>1 DEF WillPlan, Busy
<1> QED BY <1>0, <1>1, <1>2, <1>3, <1>4 DEF Acts, Turn

\* Who looks while nothing is planned will draw a moment.
LEMMA LookerPlans ==
    ASSUME TypeOK, NEW l \in Loop, ReadState(l), mem.next = None
    PROVE  WillPlan(l)' /\ at'[l] = now
<1>1. l \in Agent /\ pc \in [Agent -> PC] /\ at \in [Agent -> Moment]
      /\ seen \in [Agent -> [state: State, range: Range]]
  BY DEF Agent, TypeOK
<1>2. pc'[l] = "decide" /\ at'[l] = now /\ seen'[l].state = mem
  BY <1>1 DEF ReadState
<1> QED BY <1>2 DEF WillPlan

LEMMA NextWatch == TypeOK /\ AliveInv /\ WatchInv /\ [Next]_vars => WatchInv'
<1> SUFFICES ASSUME TypeOK, AliveInv, WatchInv, [Next]_vars PROVE WatchInv'
  OBVIOUS
<1>0. alive \subseteq Loop /\ pc \in [Agent -> PC] /\ Loop \subseteq Agent
  BY DEF TypeOK, Agent
<1>1. ASSUME NEW a \in Agent, Acts(a) PROVE WatchInv'
  <2> SUFFICES ASSUME mem'.next = None, alive # {}
               PROVE  \E l \in alive : pc'[l] = "idle" \/ WillPlan(l)'
    BY <1>1, OneActs DEF WatchInv
  <2>1. Others(a)
    BY <1>1, OneActs
  <2>2. CASE mem' = mem
    <3>1. PICK l \in alive : pc[l] = "idle" \/ WillPlan(l)
      BY <2>2 DEF WatchInv
    <3>2. CASE l # a
      BY <1>0, <2>1, <3>1, <3>2, WillPlanStays DEF Others
    <3>3. CASE l = a /\ WillPlan(l)
      <4>1. BookAuto(l) => pc'[l] = "idle"
        BY <1>0 DEF BookAuto, Forget
      <4> QED BY <1>0, <1>1, <3>3, <4>1, PlannerGoesOn
    <3>4. CASE l = a /\ pc[l] = "idle" /\ pc'[l] # "idle"
      BY <1>0, <1>1, <2>2, <3>4, Beginner, LookerPlans
    <3> QED BY <3>1, <3>2, <3>3, <3>4
  <2>3. CASE a \in Loop /\ BookAuto(a)
    <3>1. pc[a] = "book" /\ pc'[a] = "idle"
      BY <1>0, <2>3 DEF BookAuto, Forget
    <3>2. a \in alive
      BY <2>3, <3>1 DEF AliveInv
    <3> QED BY <3>1, <3>2
  <2> QED BY <1>1, <2>2, <2>3, PlanOf
<1>2. ASSUME NEW l \in Loop, Spawn(l) PROVE WatchInv'
  <2>1. l \notin alive /\ pc[l] = "idle" /\ l \in alive' /\ pc' = pc
    BY <1>2 DEF Spawn, local, AliveInv
  <2> QED BY <2>1 DEF WatchInv
<1>3. CASE UNCHANGED <<mem, alive, pc, at, seen>>
  BY <1>3 DEF WatchInv, WillPlan, DoneToday
<1>4. ASSUME BeginStart \/ UserSigns \/ Tick \/ UNCHANGED vars
             \/ (\E e \in BOOLEAN, r \in Ranges : SetConfig(e, r))
      PROVE  UNCHANGED <<mem, alive, pc, at, seen>>
  BY <1>4 DEF BeginStart, UserSigns, Tick, SetConfig, vars, local
<1>5. CASE Die
  BY <1>5 DEF Die, WatchInv
<1> QED BY <1>1, <1>2, <1>3, <1>4, <1>5, StepKinds DEF Around

\* A day is calm only if it was before the step, and the step fails no sign-in.
LEMMA StaysCalm ==
    ASSUME NEW a \in Agent, Acts(a), calm'
    PROVE  calm /\ ~(a \in Loop /\ BookAuto(a) /\ ~ok[a])
<1>1. ASSUME BookAuto(a) PROVE calm /\ ok[a]
  BY <1>1, Zenon DEF BookAuto
<1>2. CASE a \in Loop /\ Turn(a) /\ ~BookAuto(a)
  <2>1. calm' = calm
    BY <1>2 DEF Turn, ReadState, PlanTomorrow, PlanNext, Wait, SignIn
  <2> QED BY <1>2, <2>1, Zenon
<1>3. CASE Request(a) \/ (a \in Clerk /\ (BeginManual(a) \/ BookManual(a)))
  <2>1. calm' = calm
    BY <1>3 DEF Request, Query, PostSucceeds, PostFails, BeginManual, BookManual
  <2> QED BY <1>1, <2>1, Zenon
<1> QED BY <1>1, <1>2, <1>3, Zenon DEF Acts

LEMMA ActsCalm ==
    ASSUME TypeOK, PastInv, BookInv, HonestInv, OnTime, CalmInv,
           NEW a \in Agent, Acts(a)
    PROVE  CalmInv'
<1> SUFFICES ASSUME calm'
             PROVE  (config.enabled /\ client /\ Promised /\ EarlyEnough /\ TomorrowIsEarned)'
  BY Zenon DEF CalmInv
<1>0. /\ Others(a) /\ UNCHANGED <<now, config, client>> /\ signed \subseteq signed'
      /\ pc \in [Agent -> PC] /\ Loop \subseteq Agent /\ Loop \intersect Clerk = {}
      /\ now.day \in Nat /\ at[a].day \in Nat /\ at[a].day <= now.day
  BY OneActs, DaysAreNumbers, NamesDiffer DEF TypeOK, Agent, PastInv
<1>1. calm /\ ~(a \in Loop /\ BookAuto(a) /\ ~ok[a])
  BY StaysCalm
<1>2. config.enabled /\ client /\ Promised /\ EarlyEnough /\ TomorrowIsEarned
  BY <1>1, Zenon DEF CalmInv
<1>3. config'.enabled /\ client'
  <2>1. config' = config /\ client' = client
    BY <1>0
  <2> QED BY <1>2, <2>1, Zenon
<1>4. Promised'
  <2> SUFFICES ASSUME mem'.next = None
               PROVE  \E l \in Loop : WillPlan(l)' /\ at'[l].day < now.day
    BY <1>0 DEF Promised
  <2>1. mem.next = None
    BY <1>1, PlanOf
  <2>2. PICK l \in Loop : WillPlan(l) /\ at[l].day < now.day
    BY <1>2, <2>1 DEF Promised
  <2>3. WillPlan(l)' /\ at'[l] = at[l]
    <3>1. CASE l # a
      BY <1>0, <2>2, <3>1, WillPlanStays
    <3>2. CASE l = a
      BY <1>1, <2>2, <3>2, PlannerGoesOn
    <3> QED BY <3>1, <3>2
  <2> QED BY <2>2, <2>3
<1>5. EarlyEnough'
  <2> SUFFICES ASSUME NEW l \in Loop, pc'[l] = "decide", at'[l].day = now.day
               PROVE  IF DoneToday(l)' THEN now.day \in signed' \/ slipped'
                      ELSE seen'[l].state.next = None => at'[l].slot = 0
    BY <1>0 DEF EarlyEnough
  <2>s. slipped => slipped'
    <3>1. CASE BookManual(a)
      BY <3>1, Zenon DEF BookManual
    <3>2. CASE ~BookManual(a)
      <4>1. slipped' = slipped
        BY <3>2 DEF Acts, Turn, ReadState, PlanTomorrow, PlanNext, Wait, SignIn, BookAuto,
                    Request, Query, PostSucceeds, PostFails, BeginManual
      <4> QED BY <4>1, Zenon
    <3> QED BY <3>1, <3>2
  <2>1. CASE l # a
    <3>1. pc[l] = "decide" /\ at'[l] = at[l] /\ seen'[l] = seen[l]
      BY <1>0, <2>1 DEF Others
    <3>2. DoneToday(l)' <=> DoneToday(l)
      BY <3>1 DEF DoneToday
    <3>3. IF DoneToday(l) THEN now.day \in signed \/ slipped
          ELSE seen[l].state.next = None => at[l].slot = 0
      BY <1>2, <3>1 DEF EarlyEnough
    <3> QED BY <1>0, <2>s, <3>1, <3>2, <3>3, Zenon
  <2>2. CASE l = a /\ ReadState(l)
    <3>1. at'[l] = now /\ seen'[l].state = mem
      BY <1>0, <2>2 DEF ReadState, TypeOK
    <3>2. DoneToday(l)' => now.day \in signed \/ slipped
      BY <3>1 DEF DoneToday, HonestInv, Honest
    <3>3. mem.next = None => now.slot = 0
      <4> SUFFICES ASSUME mem.next = None PROVE now.slot = 0
        OBVIOUS
      <4>1. PICK w \in Loop : WillPlan(w) /\ at[w].day < now.day
        BY <1>2 DEF Promised
      <4>2. w \in Agent /\ pc[w] # "idle" /\ at[w].day # now.day
        BY <1>0, <4>1, DaysAreNumbers DEF WillPlan, Busy
      <4> QED BY <4>2 DEF OnTime
    <3> QED BY <1>0, <2>s, <3>1, <3>2, <3>3
  <2>3. CASE l = a /\ PlanNext(l)
    <3>1. /\ seen'[l].state.next # None /\ seen'[l].state.done = seen[l].state.done
          /\ at' = at /\ ~DoneToday(l)
      BY <2>3, NextDrawn DEF PlanNext
    <3>2. ~DoneToday(l)'
      BY <3>1 DEF DoneToday
    <3> QED BY <3>1, <3>2
  <2>4. CASE l = a /\ ~ReadState(l) /\ ~PlanNext(l)
    <3>1. pc'[l] # "decide"
      BY <1>0, <2>4 DEF Acts, Turn, PlanTomorrow, Wait, SignIn, BookAuto, Forget,
                        Request, Query, PostSucceeds, PostFails, Finish
    <3> QED BY <3>1
  <2> QED BY <2>1, <2>2, <2>3, <2>4
<1>6. TomorrowIsEarned'
  <2> SUFFICES ASSUME ~slipped', mem'.next # None, mem'.next.day > now.day
               PROVE  now.day \in signed'
    BY <1>0 DEF TomorrowIsEarned
  <2>1. ~slipped
    <3>1. CASE BookManual(a)
      BY <3>1, Zenon DEF BookManual
    <3>2. CASE ~BookManual(a)
      <4>1. slipped' = slipped
        BY <3>2 DEF Acts, Turn, ReadState, PlanTomorrow, PlanNext, Wait, SignIn, BookAuto,
                    Request, Query, PostSucceeds, PostFails, BeginManual
      <4> QED BY <4>1, Zenon
    <3> QED BY <3>1, <3>2
  <2>2. CASE mem' = mem
    BY <1>0, <1>2, <2>1, <2>2 DEF TomorrowIsEarned
  <2>3. CASE a \in Loop /\ PlanTomorrow(a) /\ mem'.next.day = at[a].day + 1
    <3>1. at[a].day = now.day /\ pc[a] = "decide" /\ DoneToday(a)
      BY <1>0, <2>3 DEF PlanTomorrow
    <3> QED BY <1>0, <1>2, <2>1, <2>3, <3>1 DEF EarlyEnough
  <2>4. CASE a \in Loop /\ PlanNext(a) /\ (mem'.next.day = at[a].day
               \/ (mem'.next.day = at[a].day + 1 /\ at[a].slot # 0))
    <3>1. at[a].day = now.day /\ at[a].slot # 0
      BY <1>0, <2>4
    <3>2. pc[a] = "decide" /\ ~DoneToday(a) /\ seen[a].state.next = None
      BY <2>4 DEF PlanNext
    <3> QED BY <1>2, <2>4, <3>1, <3>2 DEF EarlyEnough
  <2>5. CASE a \in Loop /\ BookAuto(a) /\ ok[a] /\ mem'.next.day = at[a].day + 1
    <3>1. at[a].day = now.day /\ pc[a] = "book"
      BY <1>0, <2>5 DEF BookAuto
    <3>2. now.day \in signed
      BY <2>5, <3>1, Zenon DEF BookInv
    <3> QED BY <1>0, <3>2
  <2>6. CASE a \in Clerk /\ BookManual(a) /\ ok[a]
    <3>1. pc[a] = "book" /\ at[a].day = now.day
      BY <2>6, Zenon DEF BookManual
    <3>2. now.day \in signed
      BY <2>6, <3>1, Zenon DEF BookInv
    <3> QED BY <1>0, <3>2
  <2> QED BY <1>1, <2>2, <2>3, <2>4, <2>5, <2>6, PlanOf
<1> QED BY <1>3, <1>4, <1>5, <1>6

LEMMA AroundCalm ==
    ASSUME CalmInv, Around
    PROVE  CalmInv'
<1> SUFFICES ASSUME calm'
             PROVE  (config.enabled /\ client /\ Promised /\ EarlyEnough /\ TomorrowIsEarned)'
  BY Zenon DEF CalmInv
<1>1. calm /\ (client => client') /\ (config.enabled => config'.enabled)
  <2>1. ASSUME NEW e \in BOOLEAN, NEW range \in Ranges, SetConfig(e, range)
        PROVE  calm /\ (client => client') /\ config'.enabled
    <3>1. calm /\ e /\ client' = client
      BY <2>1, Zenon DEF SetConfig
    <3>2. config'.enabled = e
      BY <2>1 DEF SetConfig
    <3> QED BY <3>1, <3>2, Zenon
  <2>2. CASE BeginStart
    <3>1. calm' = calm /\ client' = TRUE /\ config' = config
      BY <2>2, Zenon DEF BeginStart
    <3> QED BY <3>1, Zenon
  <2>3. CASE UserSigns \/ UNCHANGED vars \/ \E l \in Loop : Spawn(l)
    <3>1. calm' = calm /\ client' = client /\ config' = config
      BY <2>3 DEF UserSigns, vars, Spawn
    <3> QED BY <3>1, Zenon
  <2> QED BY <2>1, <2>2, <2>3, Zenon DEF Around
<1>2. config.enabled /\ client /\ Promised /\ EarlyEnough /\ TomorrowIsEarned
  BY <1>1, Zenon DEF CalmInv
<1>3. UNCHANGED <<now, pc, at, seen, mem, slipped>> /\ signed \subseteq signed'
  BY AroundThreads
<1>4. Promised'
  BY <1>2, <1>3 DEF Promised, WillPlan, DoneToday
<1>5. EarlyEnough'
  BY <1>2, <1>3 DEF EarlyEnough, DoneToday
<1>6. TomorrowIsEarned'
  BY <1>2, <1>3 DEF TomorrowIsEarned
<1> QED BY <1>1, <1>2, <1>4, <1>5, <1>6, Zenon

\* A day begins: whoever still works on the old one draws the moment that is
\* missing.
LEMMA TickCalm ==
    ASSUME TypeOK, LockInv, PastInv, NearInv, WatchInv, CalmInv, Tick
    PROVE  CalmInv'
<1>0. /\ \A a \in Agent : pc[a] # "idle" => at[a] = now
      /\ UNCHANGED <<signed, config, client, mem, pc, at, seen, slipped>>
  BY TickSlots
<1>n. now.day \in Nat /\ \A a \in Agent : at[a].day \in Nat /\ at[a].day <= now.day
  BY DaysAreNumbers DEF PastInv
<1>1. CASE now'.day = now.day /\ calm' = calm
  <2>1. Promised => Promised'
    BY <1>0, <1>1 DEF Promised, WillPlan, DoneToday
  <2>2. EarlyEnough => EarlyEnough'
    BY <1>0, <1>1 DEF EarlyEnough, DoneToday
  <2>3. TomorrowIsEarned => TomorrowIsEarned'
    BY <1>0, <1>1 DEF TomorrowIsEarned
  <2>4. config' = config /\ client' = client
    BY <1>0
  <2> QED BY <1>1, <2>1, <2>2, <2>3, <2>4, Zenon DEF CalmInv
<1>2. CASE /\ now'.day = now.day + 1
           /\ calm' = (config.enabled /\ client /\ alive # {}
                        /\ \A c \in Clerk : pc[c] = "idle")
  <2> SUFFICES ASSUME calm'
               PROVE  (config.enabled /\ client /\ Promised /\ EarlyEnough /\ TomorrowIsEarned)'
    BY Zenon DEF CalmInv
  <2>1. config.enabled /\ client /\ alive # {} /\ \A c \in Clerk : pc[c] = "idle"
    BY <1>2, Zenon
  <2>2. config'.enabled /\ client'
    <3>1. config' = config /\ client' = client
      BY <1>0
    <3> QED BY <2>1, <3>1, Zenon
  <2>3. Promised'
    <3> SUFFICES ASSUME mem.next = None PROVE \E l \in Loop : WillPlan(l)' /\ at'[l].day < now'.day
      BY <1>0 DEF Promised
    <3>1. Due
      BY <2>1 DEF Due, PlannedAfter
    <3>2. PICK l \in Loop : WillPlan(l)
      <4>1. CASE lock = None
        <5>1. PICK l \in alive : pc[l] = "idle" \/ WillPlan(l)
          BY <2>1 DEF WatchInv
        <5>2. l \in Loop /\ ~Ready(l)
          BY DEF TypeOK, Tick
        <5> QED BY <3>1, <4>1, <5>1, <5>2 DEF Ready
      <4>2. CASE lock # None
        <5>1. lock \in Agent /\ Holds(lock)
          BY <4>2 DEF TypeOK, LockInv
        <5>2. lock \in Loop
          BY <2>1, <5>1 DEF Agent, Holds, Busy
        <5> QED BY <2>1, <5>1, <5>2 DEF Holds, WillPlan, Busy
      <4> QED BY <4>1, <4>2
    <3>3. WillPlan(l)'
      BY <1>0, <3>2 DEF WillPlan, DoneToday
    <3>4. at'[l].day < now'.day
      BY <1>0, <1>n, <1>2 DEF Agent
    <3> QED BY <3>3, <3>4
  <2>4. EarlyEnough'
    BY <1>0, <1>n, <1>2 DEF EarlyEnough, Agent
  <2>5. TomorrowIsEarned'
    <3>1. mem.next # None => mem.next.day \in Nat
      BY BoundsAreNumbers DEF TypeOK, State, Plan
    <3> QED BY <1>0, <1>n, <1>2, <3>1 DEF TomorrowIsEarned, NearInv, Near
  <2> QED BY <2>2, <2>3, <2>4, <2>5
<1> QED BY <1>1, <1>2, TickSlots, Zenon

LEMMA NextCalm ==
    TypeOK /\ LockInv /\ PastInv /\ BookInv /\ HonestInv /\ DayInv /\ [Next]_vars => CalmInv'
<1> SUFFICES ASSUME TypeOK, LockInv, PastInv, BookInv, HonestInv, DayInv, [Next]_vars
             PROVE  CalmInv'
  OBVIOUS
<1>1. CASE Die
  BY <1>1 DEF Die, CalmInv
<1> QED BY <1>1, ActsCalm, AroundCalm, TickCalm, StepKinds DEF DayInv

\* Every day that begins with sign-ins on, a client and a living thread is signed
\* when it ends, whatever other threads and requests do, unless the process dies,
\* sign-ins are turned off or a sign-in fails for good on that day: a moment is
\* always found, and never one too late (_tick, _pick_next, manual_checkin).
THEOREM EveryDaySigned == Spec => []NoDayMissed
<1>1. Init => DayInv
  BY DEF Init, DayInv, AliveInv, OnTime, NearInv, Near, WatchInv, CalmInv, NoState, Agent
<1>2. TypeOK /\ LockInv /\ PastInv /\ BookInv /\ HonestInv /\ DayInv /\ [Next]_vars
        => DayInv'
  <2> SUFFICES ASSUME TypeOK, LockInv, PastInv, BookInv, HonestInv, DayInv, [Next]_vars
               PROVE  DayInv'
    OBVIOUS
  <2>1. AliveInv' /\ OnTime' /\ NearInv' /\ WatchInv'
    BY NextAlive, NextOnTime, NextNear, NextWatch DEF DayInv
  <2>2. CalmInv'
    BY NextCalm
  <2> QED BY <2>1, <2>2 DEF DayInv
<1>3. TypeOK /\ HonestInv /\ DayInv => NoDayMissed
  <2> SUFFICES ASSUME TypeOK, HonestInv, DayInv, now.slot = LastSlot, calm, ~slipped, ~Due
               PROVE  now.day \in signed
    BY Zenon DEF NoDayMissed
  <2>1. config.enabled /\ client /\ TomorrowIsEarned
    BY Zenon DEF DayInv, CalmInv
  <2>2. CASE mem.done = now.day
    BY <2>2 DEF HonestInv, Honest
  <2>3. CASE mem.done # now.day
    <3>1. mem.next # None /\ Before(now, mem.next)
      BY <2>1, <2>3 DEF Due
    <3>2. mem.next \in Plan /\ now \in Moment
      BY <3>1 DEF TypeOK, State
    <3>3. mem.next.day > now.day
      BY <3>1, <3>2, BoundsAreNumbers DEF Before, Plan, Moment, Slot, Day
    <3> QED BY <2>1, <3>1, <3>3 DEF TomorrowIsEarned
  <2> QED BY <2>2, <2>3
<1> QED
  BY <1>1, <1>2, <1>3, CheckinTypes, LockInvHolds, PastInvHolds, BookInvHolds, HonestInvHolds,
     PTL
  DEF Spec

=============================================================================

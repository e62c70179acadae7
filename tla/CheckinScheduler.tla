-------------------------- MODULE CheckinScheduler --------------------------
(***************************************************************************)
(* The daily sign-in (checkin_scheduler.py): a thread that draws a moment  *)
(* in the configured window of the day and signs in when it has come, and  *)
(* the sign-in by hand from the admin page or the tray.  Both share a lock *)
(* that is only tried, the state of the schedule, and the 115 client that  *)
(* the start of the 115 service hands over.                                *)
(*                                                                         *)
(* A day has the slots 0..LastSlot; a moment is a slot of a day.  The 115  *)
(* server keeps who signed the account in on each day.  A sign-in takes    *)
(* time: the clock may move while one is under way, over midnight as well. *)
(*                                                                         *)
(* Bounds: the clock stops at the end of LastDay, and MaxMishaps limits    *)
(* what comes from outside: deaths of the process, failed writes, changes  *)
(* of the settings, sign-ins on the phone and a second start at once.      *)
(***************************************************************************)
EXTENDS Naturals

CONSTANTS
    Loop,           \* threads that may run _loop
    Clerk,          \* threads of the admin API
    LastDay, LastSlot,
    MaxMishaps,
    Retries,        \* CHECKIN_MAX_RETRIES
    Default,        \* CHECKIN_DEFAULT_WINDOW
    Ranges,         \* what time_range may be set to
    None

Slot == 0 .. LastSlot
Day == 0 .. LastDay
Range == [from: Slot, till: Slot]
Moment == [day: Day, slot: Slot]
Plan == [day: 0 .. LastDay + 1, slot: Slot]
Agent == Loop \union Clerk

ASSUME BoundsAreNumbers ==
    /\ LastDay \in Nat /\ LastSlot \in Nat /\ MaxMishaps \in Nat
    /\ Retries \in Nat \ {0}

ASSUME WindowsAreRanges ==
    /\ Default \in Range /\ Default.from < Default.till
    /\ Ranges \subseteq Range

ASSUME NamesDiffer ==
    /\ Loop \intersect Clerk = {}
    /\ None \notin Agent \union Day \union Plan

VARIABLES
    now,        \* the clock
    signed,     \* the server: the days the account is signed in
    config,     \* the settings: enabled, time_range
    client,     \* _client is set
    mem,        \* _state: last_done_date, next_run_ts
    file,       \* checkin_state.json
    lock,       \* _CHECKIN_LOCK: who holds it, or None
    alive,      \* the threads that run _loop
    starting,   \* those a request is about to make
    pc,         \* where each thread is
    at,         \* the moment a tick or a sign-in by hand began
    seen,       \* the state and the time range as a tick has read them
    tries,      \* posts sent by this sign-in
    checked,    \* the server answered that today was not signed yet, and
                \* neither the phone nor an earlier post has signed it since
    ok,         \* what run_p115_checkin_once returned
    mishaps,    \* how many there were
    \* for the properties
    calm,       \* nothing has happened today that may cost the day
    slipped     \* a sign-in by hand was booked on the day after its own

local == <<pc, at, seen, tries, checked, ok>>
vars == <<now, signed, config, client, mem, file, lock, alive, starting,
          local, mishaps, calm, slipped>>

State == [done: Day \union {None}, next: Plan \union {None}]
NoState == [done |-> None, next |-> None]
Nothing == [state |-> NoState, range |-> Default]

PC == {"idle", "decide", "query", "post", "book"}
Busy == {"query", "post"}

TypeOK ==
    /\ now \in Moment
    /\ signed \in SUBSET Day
    /\ config \in [enabled: BOOLEAN, range: Range]
    /\ client \in BOOLEAN
    /\ mem \in State /\ file \in State
    /\ lock \in Agent \union {None}
    /\ alive \subseteq Loop /\ starting \subseteq Loop
    /\ pc \in [Agent -> PC]
    /\ at \in [Agent -> Moment]
    /\ seen \in [Agent -> [state: State, range: Range]]
    /\ tries \in [Agent -> 0 .. Retries]
    /\ checked \in [Agent -> BOOLEAN]
    /\ ok \in [Agent -> BOOLEAN]
    /\ mishaps \in 0 .. MaxMishaps
    /\ calm \in BOOLEAN /\ slipped \in BOOLEAN

Start == [day |-> 0, slot |-> 0]

Init ==
    /\ now = Start
    /\ signed = {}
    /\ config \in [enabled: BOOLEAN, range: Ranges]
    /\ client = FALSE
    /\ mem = NoState /\ file = NoState
    /\ lock = None
    /\ alive = {} /\ starting = {}
    /\ pc = [a \in Agent |-> "idle"]
    /\ at = [a \in Agent |-> Start]
    /\ seen = [a \in Agent |-> Nothing]
    /\ tries = [a \in Agent |-> 0]
    /\ checked = [a \in Agent |-> FALSE]
    /\ ok = [a \in Agent |-> FALSE]
    /\ mishaps = 0
    /\ calm = FALSE
    /\ slipped = FALSE

-----------------------------------------------------------------------------
(* Windows and the state of the schedule *)

Before(m, n) == m.day < n.day \/ (m.day = n.day /\ m.slot < n.slot)

\* _parse_window: a window that does not end after it begins is the default.
Window(range) == IF range.from < range.till THEN range ELSE Default

\* _random_epoch: any moment of that day's window.
Drawn(day, range) ==
    {[day |-> day, slot |-> s] :
        s \in Window(range).from .. Window(range).till}

\* _pick_next: what is left of today's window, or tomorrow's.
PickNext(m, range) ==
    IF m.slot < Window(range).till
    THEN {n \in Drawn(m.day, range) : n.slot >= m.slot}
    ELSE Drawn(m.day + 1, range)

Mishap ==
    /\ mishaps < MaxMishaps
    /\ mishaps' = mishaps + 1

\* _save_state_fields: a write that fails is logged, and memory moves on.
Save(state) ==
    /\ mem' = state
    /\ \/ file' = state /\ UNCHANGED mishaps
       \/ UNCHANGED file /\ Mishap

\* The thread forgets what it read and counted.
Forget(a) ==
    /\ pc' = [pc EXCEPT ![a] = "idle"]
    /\ at' = [at EXCEPT ![a] = Start]
    /\ seen' = [seen EXCEPT ![a] = Nothing]
    /\ tries' = [tries EXCEPT ![a] = 0]
    /\ checked' = [checked EXCEPT ![a] = FALSE]
    /\ ok' = [ok EXCEPT ![a] = FALSE]

-----------------------------------------------------------------------------
(* run_p115_checkin_once *)

\* Mutant of TakeLock: nobody looks whether the lock is free.
TakeLockAnyway(a) == lock' = a

\* The lock is tried: whoever does not get it gives up at once.
TakeLock(a) ==
    /\ lock = None
    /\ lock' = a

\* Mutant of Finish: a sign-in that failed keeps the lock.
FinishOnSuccess(a, result) ==
    /\ pc' = [pc EXCEPT ![a] = "book"]
    /\ ok' = [ok EXCEPT ![a] = result]
    /\ lock' = IF a \in Loop /\ result THEN None ELSE lock

\* The answer is known.  The thread drops the lock before it books (_tick).
Finish(a, result) ==
    /\ pc' = [pc EXCEPT ![a] = "book"]
    /\ ok' = [ok EXCEPT ![a] = result]
    /\ lock' = IF a \in Loop THEN None ELSE lock

\* user_points_sign: today is signed, it is not, or there is no answer, which
\* counts as "not".
Query(a) ==
    /\ pc[a] = "query"
    /\ \/ /\ now.day \in signed
          /\ Finish(a, TRUE)
          /\ UNCHANGED checked
       \/ /\ pc' = [pc EXCEPT ![a] = "post"]
          /\ \E c \in {FALSE, now.day \notin signed} :
                checked' = [checked EXCEPT ![a] = c]
          /\ UNCHANGED <<lock, ok>>
    /\ UNCHANGED <<now, signed, config, client, mem, file, alive, starting,
                   at, seen, tries, calm, slipped, mishaps>>

\* user_points_sign_post: the server signs a day only once.
Sign == signed' = signed \union {now.day}

PostSucceeds(a) ==
    /\ pc[a] = "post"
    /\ now.day \notin signed
    /\ Sign
    /\ Finish(a, TRUE)
    /\ UNCHANGED <<now, config, client, mem, file, alive, starting, at, seen,
                   tries, checked, calm, slipped, mishaps>>

\* Refused, blocked or without an answer, before or after the server signed.
PostFails(a) ==
    /\ pc[a] = "post"
    /\ Sign \/ UNCHANGED signed
    /\ checked' = [checked EXCEPT ![a] = IF signed' = signed THEN @ ELSE FALSE]
    /\ tries' = [tries EXCEPT ![a] = @ + 1]
    /\ \/ /\ tries[a] + 1 < Retries
          /\ UNCHANGED <<pc, ok, lock>>
       \/ /\ tries[a] + 1 = Retries
          /\ Finish(a, FALSE)
    /\ UNCHANGED <<now, config, client, mem, file, alive, starting, at, seen,
                   calm, slipped, mishaps>>

-----------------------------------------------------------------------------
(* _tick, one turn of the thread *)

PlannedAfter(state, day) == state.next # None /\ state.next.day > day

\* A tick has something to do: sign-ins are on, and a moment has to be drawn
\* or has come.  All other ticks end where they began.
Due ==
    /\ config.enabled /\ client
    /\ IF mem.done = now.day
       THEN ~PlannedAfter(mem, now.day)
       ELSE mem.next # None => ~Before(now, mem.next)

ReadState(l) ==
    /\ l \in alive
    /\ pc[l] = "idle"
    /\ Due
    /\ pc' = [pc EXCEPT ![l] = "decide"]
    /\ at' = [at EXCEPT ![l] = now]
    /\ seen' = [seen EXCEPT ![l] = [state |-> mem, range |-> config.range]]
    /\ UNCHANGED <<now, signed, config, client, mem, file, lock, alive,
                   starting, tries, checked, ok, calm, slipped, mishaps>>

DoneToday(l) == seen[l].state.done = at[l].day

\* Today is done: tomorrow's moment is drawn.
PlanTomorrow(l) ==
    /\ pc[l] = "decide"
    /\ DoneToday(l)
    /\ \E m \in Drawn(at[l].day + 1, seen[l].range) :
          Save([mem EXCEPT !.next = m])
    /\ Forget(l)
    /\ UNCHANGED <<now, signed, config, client, lock, alive, starting, calm,
                   slipped>>

\* Nothing is planned: a moment is drawn, and the tick goes on with it.
PlanNext(l) ==
    /\ pc[l] = "decide"
    /\ ~DoneToday(l)
    /\ seen[l].state.next = None
    /\ \E m \in PickNext(at[l], seen[l].range) :
          /\ Save([mem EXCEPT !.next = m])
          /\ seen' = [seen EXCEPT ![l].state.next = m]
    /\ UNCHANGED <<now, signed, config, client, lock, alive, starting, pc, at,
                   tries, checked, ok, calm, slipped>>

\* The moment has not come, or somebody else is signing in: a later tick.
Wait(l) ==
    /\ pc[l] = "decide"
    /\ ~DoneToday(l)
    /\ seen[l].state.next # None
    /\ lock = None => Before(at[l], seen[l].state.next)
    /\ Forget(l)
    /\ UNCHANGED <<now, signed, config, client, mem, file, lock, alive,
                   starting, calm, slipped, mishaps>>

SignIn(l) ==
    /\ pc[l] = "decide"
    /\ ~DoneToday(l)
    /\ seen[l].state.next # None
    /\ ~Before(at[l], seen[l].state.next)
    /\ TakeLock(l)
    /\ pc' = [pc EXCEPT ![l] = "query"]
    /\ seen' = [seen EXCEPT ![l].state = NoState]     \* not used any more
    /\ UNCHANGED <<now, signed, config, client, mem, file, alive, starting,
                   at, tries, checked, ok, calm, slipped, mishaps>>

\* Mutant of BookAuto: any answer counts as a success.
BookAutoAnyway(l) ==
    /\ l \in Loop
    /\ pc[l] = "book"
    /\ \E m \in Drawn(at[l].day + 1, seen[l].range) :
          Save([done |-> at[l].day, next |-> m])
    /\ Forget(l)
    /\ UNCHANGED <<now, signed, config, client, lock, alive, starting, calm,
                   slipped>>

\* The day is the one the tick began on.
BookAuto(l) ==
    /\ l \in Loop
    /\ pc[l] = "book"
    /\ IF ok[l]
       THEN \E m \in Drawn(at[l].day + 1, seen[l].range) :
               Save([done |-> at[l].day, next |-> m])
       ELSE Save([mem EXCEPT !.next = None])
    /\ calm' = IF ok[l] THEN calm ELSE FALSE
    /\ Forget(l)
    /\ UNCHANGED <<now, signed, config, client, lock, alive, starting,
                   slipped>>

-----------------------------------------------------------------------------
(* manual_checkin *)

BeginManual(c) ==
    /\ pc[c] = "idle"
    /\ client
    /\ TakeLock(c)
    /\ pc' = [pc EXCEPT ![c] = "query"]
    /\ at' = [at EXCEPT ![c] = now]
    /\ UNCHANGED <<now, signed, config, client, mem, file, alive, starting,
                   seen, tries, checked, ok, calm, slipped, mishaps>>

\* Mutant of BookManual: a failure moves the schedule to tomorrow as well.
BookManualMovesOn(c) ==
    /\ c \in Clerk
    /\ pc[c] = "book"
    /\ \E m \in Drawn(now.day + 1, config.range) :
          Save([done |-> IF ok[c] THEN now.day ELSE mem.done, next |-> m])
    /\ slipped' = IF ok[c] /\ at[c].day # now.day THEN TRUE ELSE slipped
    /\ lock' = None
    /\ Forget(c)
    /\ UNCHANGED <<now, signed, config, client, alive, starting, calm>>

\* The day is the one on which the answer is booked.  The lock goes last.
BookManual(c) ==
    /\ c \in Clerk
    /\ pc[c] = "book"
    /\ IF ok[c]
       THEN \E m \in Drawn(now.day + 1, config.range) :
               Save([done |-> now.day, next |-> m])
       ELSE Save(mem)     \* the detail only
    /\ slipped' = IF ok[c] /\ at[c].day # now.day THEN TRUE ELSE slipped
    /\ lock' = None
    /\ Forget(c)
    /\ UNCHANGED <<now, signed, config, client, alive, starting, calm>>

-----------------------------------------------------------------------------
(* The start of the 115 service: set_client and start.  start looks for a
   living thread before it makes one, and two requests may both find none.  A
   request goes by the thread it will make. *)

BeginStart ==
    /\ client' = TRUE
    /\ IF alive = {}
       THEN \E l \in Loop \ starting : starting' = starting \union {l}
       ELSE UNCHANGED starting
    /\ IF alive = {} /\ starting # {} THEN Mishap ELSE UNCHANGED mishaps
    /\ UNCHANGED <<now, signed, config, mem, file, lock, alive, local, calm,
                   slipped>>

Spawn(l) ==
    /\ l \in starting
    /\ starting' = starting \ {l}
    /\ alive' = alive \union {l}
    /\ UNCHANGED <<now, signed, config, client, mem, file, lock, local,
                   mishaps, calm, slipped>>

-----------------------------------------------------------------------------
(* Around the program *)

\* checkin_save_config
SetConfig(enabled, range) ==
    /\ Mishap
    /\ config' = [enabled |-> enabled, range |-> range]
    /\ calm' = IF enabled THEN calm ELSE FALSE
    /\ UNCHANGED <<now, signed, client, mem, file, lock, alive, starting,
                   local, slipped>>

\* The process ends, and the next one loads what is on disk.
Die ==
    /\ Mishap
    /\ alive # {} \/ client
    /\ mem' = file
    /\ client' = FALSE
    /\ alive' = {} /\ starting' = {}
    /\ lock' = None
    /\ pc' = [a \in Agent |-> "idle"]
    /\ at' = [a \in Agent |-> Start]
    /\ seen' = [a \in Agent |-> Nothing]
    /\ tries' = [a \in Agent |-> 0]
    /\ checked' = [a \in Agent |-> FALSE]
    /\ ok' = [a \in Agent |-> FALSE]
    /\ calm' = FALSE
    /\ UNCHANGED <<now, signed, config, file, slipped>>

\* The user signs in with the app on the phone.
UserSigns ==
    /\ Mishap
    /\ now.day \notin signed
    /\ Sign
    /\ checked' = [a \in Agent |-> FALSE]
    /\ UNCHANGED <<now, config, client, mem, file, lock, alive, starting, pc,
                   at, seen, tries, ok, calm, slipped>>

\* The thread looks at least once a minute, and when the moment comes
\* (_compute_sleep).
Ready(l) == l \in alive /\ pc[l] = "idle" /\ Due /\ lock = None

\* A slot is long against what the threads do: a request and its retries end in
\* the slot they began in, or in the next one.
Tick ==
    /\ starting = {}
    /\ \A l \in Loop : ~Ready(l)
    /\ \A a \in Agent : pc[a] # "idle" => at[a] = now
    /\ \/ /\ now.slot < LastSlot
          /\ now' = [now EXCEPT !.slot = @ + 1]
          /\ UNCHANGED calm
       \/ /\ now.slot = LastSlot
          /\ now.day < LastDay
          /\ now' = [day |-> now.day + 1, slot |-> 0]
          /\ calm' = (config.enabled /\ client /\ alive # {}
                        /\ \A c \in Clerk : pc[c] = "idle")
    /\ UNCHANGED <<signed, config, client, mem, file, lock, alive, starting,
                   local, slipped, mishaps>>

Turn(l) ==
    \/ ReadState(l) \/ PlanTomorrow(l) \/ PlanNext(l) \/ Wait(l) \/ SignIn(l)
    \/ BookAuto(l)

Request(a) == Query(a) \/ PostSucceeds(a) \/ PostFails(a)

Next ==
    \/ \E l \in Loop : Turn(l) \/ Spawn(l)
    \/ \E a \in Agent : Request(a)
    \/ \E c \in Clerk : BeginManual(c) \/ BookManual(c)
    \/ BeginStart
    \/ \E e \in BOOLEAN, r \in Ranges : SetConfig(e, r)
    \/ Die
    \/ UserSigns
    \/ Tick

-----------------------------------------------------------------------------
(* Properties *)

\* Two sign-ins are never under way at once, however many threads there are.
OneAtATime ==
    \A a, b \in Agent : pc[a] \in Busy /\ pc[b] \in Busy => a = b

\* The lock is held only by a thread that is signing in: one left behind would
\* end all sign-ins until the program is restarted.
NoLockLeftBehind ==
    lock # None => pc[lock] \in Busy \union {"book"}

\* A post that follows the answer "not signed today" is never sent for a day
\* that another thread of the program has signed since: asking and posting are
\* one, by the lock.
NoSecondPost ==
    \A a \in Agent : pc[a] = "post" /\ checked[a] => now.day \notin signed

\* The page says "signed today" only on a day the account is signed in, save
\* for a sign-in by hand that went over midnight.
StatusHonest ==
    mem.done = now.day => now.day \in signed \/ slipped

\* A day that begins with sign-ins on, a client and a living thread, and on
\* which the process does not die, sign-ins stay on and no automatic sign-in
\* fails for good, is signed when it ends, unless one is still under way.
NoDayMissed ==
    /\ now.slot = LastSlot /\ calm /\ ~slipped
    /\ \A a \in Agent : pc[a] = "idle"
    /\ ~Due
    => now.day \in signed

Spec == Init /\ [][Next]_vars
=============================================================================

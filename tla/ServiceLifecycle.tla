-------------------------- MODULE ServiceLifecycle --------------------------
(***************************************************************************)
(* How main.py starts, stops and restarts the two services of the process, *)
(* the Emby proxy and the 302 redirect service with its 115 client, and    *)
(* the requests of the admin API that ask for it.                          *)
(*                                                                         *)
(* A server is a uvicorn Server with its thread: it starts, binds its port *)
(* (or dies without a word when it cannot), is told to leave by            *)
(* should_exit and stops listening, and is gone for this model: its thread *)
(* lives on while a connection is open, but a restart waits five seconds   *)
(* for it at most.  The 115 client is held in three places besides the     *)
(* server: main, the routes of the API (api_routes and admin_api, set      *)
(* together) and the check-in scheduler.                                   *)
(*                                                                         *)
(* The requests run in the threads of the admin server, so two restarts of *)
(* one service may overlap; nothing in the code excludes it.  What then    *)
(* holds is weaker, and the properties say so with `disturbed`, which the  *)
(* code does not have: it records that it happened.                        *)
(***************************************************************************)
EXTENDS Naturals, Sequences, FiniteSets, Functions

CONSTANTS
    Task,         \* threads of the admin server
    Cookie,       \* cookies of 115 accounts
    MaxEvents,    \* bound: requests of the admin API and ports taken
    Contested,    \* bound: services whose port another program may take, or that
                  \* may fail to bind it for another reason
    Switched,     \* bound: services that may be disabled
    Fault,        \* "unseen", "bindfail", "initfail"
    MaxUnmade,    \* bound: clients that are not ready at a time
    None

ASSUME LifecycleAssumption == /\ None \notin Cookie
                              /\ {MaxEvents, MaxUnmade} \subseteq Nat
                              /\ Contested \subseteq {"emby", "p115"}
                              /\ Switched \subseteq {"emby", "p115"}
                              /\ Fault \subseteq {"unseen", "bindfail", "initfail"}

Service == {"emby", "p115"}

VARIABLES
    config,     \* what config_manager.get() returns, as far as it matters here
    server,     \* every Server made so far: service, phase, should_exit, client
    client,     \* every P115ClientWrapper made so far: cookie, is_ready, open HTTP pool
    current,    \* EMBY_SERVER and P115_REDIRECT_SERVER, 0 for None
    status,     \* what the admin API reports as running
    unbound,    \* observed: services whose port was free to the probe alone, or not
                \* to be bound for a reason of its own
    wrapper,    \* P115_CLIENT_WRAPPER, 0 for None
    api,        \* the client of the API routes, 0 for None
    scheduler,  \* the client of the check-in scheduler, 0 for None
    foreign,    \* another program listens on the service's port
    task,       \* what each thread is doing
    asked,      \* events so far (bound)
    disturbed,  \* observed: services whose restart something cut across
    revived     \* observed: clients a QR login opened again after main let go

clients == <<client, wrapper, api, scheduler>>
servers == <<server, current, status, unbound>>
observed == <<disturbed, revived>>
world == <<config, foreign, asked, observed>>
vars == <<clients, servers, world, task>>

Idle == [pc |-> "idle", svc |-> "emby", left |-> <<>>, of |-> 0, cookie |-> None]

Config ==
    {c \in [cookie : Cookie \union {None}, on : [Service -> BOOLEAN]] :
        \A s \in Service \ Switched : c.on[s]}

(* A server is on its way to serve, or serves, and nobody told it to leave. *)
Serving(n) == server[n].phase \in {"starting", "listening"} /\ ~server[n].leave

PortTaken(s) ==
    \/ foreign[s]
    \/ \E n \in DOMAIN server : server[n].svc = s /\ server[n].phase = "listening"

(* How _init_client may end: with the SDK and an HTTP pool, or with neither.*)
Made ==
    {TRUE} \union
    {ok \in {FALSE} : /\ "initfail" \in Fault
                      /\ Cardinality({c \in DOMAIN client : ~client[c].ready}) < MaxUnmade}

(* The services a piece of work is about.                                   *)
Touches(work) == IF work.pc = "idle" THEN {} ELSE {work.svc} \union Range(work.left)

-----------------------------------------------------------------------------
(* Requests of the admin API.  Its server runs after main has started both  *)
(* services.                                                                *)

Accept ==
    /\ asked < MaxEvents
    /\ asked = 0 => \A t \in Task : task[t] = Idle
    /\ asked' = asked + 1
    /\ UNCHANGED foreign

Take(t, work) ==
    /\ Accept
    /\ task[t] = Idle
    /\ task' = [task EXCEPT ![t] = work]
    /\ disturbed' = disturbed \union (Touches(work) \intersect UNION {Touches(task[u]) : u \in Task})

Restart(s, left) == [Idle EXCEPT !.pc = "stop", !.svc = s, !.left = left]

(* POST /config with a cookie among the p115 settings.                      *)
SetCookie(t) ==
    /\ \E k \in Cookie \union {None} : config' = [config EXCEPT !.cookie = k]
    /\ Take(t, Restart("p115", <<>>))
    /\ UNCHANGED <<clients, servers, revived>>

(* The other settings are saved without a restart.                          *)
SetEnabled ==
    /\ Accept
    /\ \E s \in Switched, b \in BOOLEAN : config' = [config EXCEPT !.on[s] = b]
    /\ UNCHANGED <<clients, servers, observed, task>>

RestartEmby(t) ==
    /\ Take(t, Restart("emby", <<>>))
    /\ UNCHANGED <<config, clients, servers, revived>>

(* A restored configuration replaces the whole of it.                       *)
Restore(t) ==
    /\ config' \in Config
    /\ Take(t, Restart("p115", <<"emby">>))
    /\ UNCHANGED <<clients, servers, revived>>

(* A QR login is checked on the client the routes hold, closed or not: the   *)
(* wrapper swaps its cookie, which opens a new HTTP pool if it can; the      *)
(* cookie is saved after that in any case.                                  *)
QrLogin(t) ==
    /\ api # 0
    /\ \E k \in Cookie, ok \in Made :
          /\ client' = [client EXCEPT ![api] = [cookie |-> k, ready |-> ok, open |-> ok]]
          /\ revived' = IF api = wrapper THEN revived ELSE revived \union {api}
          /\ Take(t, [Idle EXCEPT !.pc = "persist", !.svc = "p115", !.cookie = k])
    /\ UNCHANGED <<config, servers, wrapper, api, scheduler>>

Persist(t) ==
    /\ task[t].pc = "persist"
    /\ config' = [config EXCEPT !.cookie = task[t].cookie]
    /\ task' = [task EXCEPT ![t] = Idle]
    /\ UNCHANGED <<clients, servers, foreign, asked, observed>>

-----------------------------------------------------------------------------
(* _stop_emby and _stop_p115_redirect.                                      *)

GoOn(t, pc) == task' = [task EXCEPT ![t].pc = pc]

AfterStop(s) == IF s = "p115" THEN "close" ELSE "configure"

(* The server is told to leave and its thread awaited, if there is one.     *)
Stop(t) ==
    LET s == task[t].svc IN
    LET n == current[s] IN
    /\ task[t].pc = "stop"
    /\ IF n = 0
       THEN /\ GoOn(t, AfterStop(s))
            /\ UNCHANGED server
       ELSE /\ server' = [server EXCEPT ![n].leave = TRUE]
            /\ task' = [task EXCEPT ![t].pc = "join", ![t].of = n]
    /\ UNCHANGED <<clients, current, status, unbound, world>>

(* The thread has ended, or five seconds are over: the restart goes on       *)
(* whatever the server does.  One still in its startup then may take the     *)
(* port after the next one has looked for it.                               *)
Join(t) ==
    /\ task[t].pc = "join"
    /\ disturbed' = disturbed \union {s \in {task[t].svc} : server[task[t].of].phase = "starting"}
    /\ task' = [task EXCEPT ![t].pc = "clear", ![t].of = 0]
    /\ UNCHANGED <<clients, servers, config, foreign, asked, revived>>

Clear(t) ==
    LET s == task[t].svc IN
    /\ task[t].pc = "clear"
    /\ current' = [current EXCEPT ![s] = 0]
    /\ status' = [status EXCEPT ![s] = FALSE]
    /\ GoOn(t, AfterStop(s))
    /\ UNCHANGED <<clients, server, unbound, world>>

(* Mutant: the wrapper is let go without being closed.                      *)
CloseNot(t) ==
    /\ task[t].pc = "close"
    /\ wrapper' = 0
    /\ GoOn(t, "configure")
    /\ UNCHANGED <<servers, world, client, api, scheduler>>

(* The wrapper is closed and let go; the routes and the scheduler keep it.  *)
Close(t) ==
    /\ task[t].pc = "close"
    /\ client' = IF wrapper = 0 THEN client ELSE [client EXCEPT ![wrapper].open = FALSE]
    /\ wrapper' = 0
    /\ GoOn(t, "configure")
    /\ UNCHANGED <<servers, world, api, scheduler>>

-----------------------------------------------------------------------------
(* _start_emby and _start_p115.                                             *)

(* The service is done: on to the next one of the request, or to its end.   *)
Done(t) ==
    LET left == task[t].left IN
    task' = [task EXCEPT ![t] = IF left = <<>> THEN Idle ELSE Restart(Head(left), Tail(left))]

Wanted(s) == config.on[s] /\ (s = "p115" => config.cookie # None)

(* A service that is not wanted is left stopped: the API keeps whatever      *)
(* client it had.                                                           *)
Configure(t) ==
    LET s == task[t].svc IN
    /\ task[t].pc = "configure"
    /\ IF ~Wanted(s) THEN Done(t)
       ELSE IF s = "emby" THEN GoOn(t, "probe")
       ELSE task' = [task EXCEPT ![t].pc = "client", ![t].cookie = config.cookie]
    /\ UNCHANGED <<clients, servers, world>>

(* Mutant: the cookie is read again where it is used.                       *)
MakeClientAfresh(t) ==
    /\ task[t].pc = "client"
    /\ \E ok \in Made :
           client' = Append(client, [cookie |-> config.cookie, ready |-> ok, open |-> ok])
    /\ wrapper' = Len(client) + 1
    /\ task' = [task EXCEPT ![t].pc = "share", ![t].of = Len(client) + 1]
    /\ UNCHANGED <<servers, world, api, scheduler>>

(* A wrapper that is not ready is shared all the same.                      *)
MakeClient(t) ==
    /\ task[t].pc = "client"
    /\ \E ok \in Made :
           client' = Append(client, [cookie |-> task[t].cookie, ready |-> ok, open |-> ok])
    /\ wrapper' = Len(client) + 1
    /\ task' = [task EXCEPT ![t].pc = "share", ![t].of = Len(client) + 1]
    /\ UNCHANGED <<servers, world, api, scheduler>>

(* Mutant: the scheduler keeps the client it was first given.               *)
ShareOnce(t) ==
    /\ task[t].pc = "share"
    /\ api' = task[t].of
    /\ scheduler' = IF scheduler = 0 THEN task[t].of ELSE scheduler
    /\ GoOn(t, "probe")
    /\ UNCHANGED <<servers, world, client, wrapper>>

(* set_client, set_p115_client_ref, checkin_scheduler.set_client.           *)
Share(t) ==
    /\ task[t].pc = "share"
    /\ api' = task[t].of
    /\ scheduler' = task[t].of
    /\ GoOn(t, "probe")
    /\ UNCHANGED <<servers, world, client, wrapper>>

(* Mutant: nobody looks at the port.                                        *)
ProbeNothing(t) ==
    /\ task[t].pc = "probe"
    /\ GoOn(t, "spawn")
    /\ UNCHANGED <<clients, servers, world>>

(* _port_in_use, which the bind of the new server follows at some distance. *)
(* It asks one address of IPv4, and takes an error or no answer for a free  *)
(* port.                                                                    *)
Seen(s) == {PortTaken(s)} \union {b \in {FALSE} : "unseen" \in Fault /\ s \in Contested}

Probe(t) ==
    LET s == task[t].svc IN
    /\ task[t].pc = "probe"
    /\ \E taken \in Seen(s) :
          IF taken
          THEN /\ status' = [status EXCEPT ![s] = FALSE]
               /\ Done(t)
               /\ UNCHANGED unbound
          ELSE /\ GoOn(t, "spawn")
               /\ unbound' = IF PortTaken(s) THEN unbound \union {s} ELSE unbound \ {s}
               /\ UNCHANGED status
    /\ UNCHANGED <<clients, server, current, world>>

(* The server and its thread are made and started, and the service is said   *)
(* to run.                                                                  *)
Spawn(t) ==
    LET s == task[t].svc IN
    /\ task[t].pc = "spawn"
    /\ server' = Append(server, [svc |-> s, phase |-> "starting", leave |-> FALSE, client |-> task[t].of])
    /\ current' = [current EXCEPT ![s] = Len(server) + 1]
    /\ status' = [status EXCEPT ![s] = TRUE]
    /\ Done(t)
    /\ UNCHANGED <<clients, unbound, world>>

-----------------------------------------------------------------------------
(* uvicorn, and other programs.                                             *)

Becomes(n, phase) ==
    /\ server' = [server EXCEPT ![n].phase = phase]
    /\ UNCHANGED <<clients, current, status, world, task>>

(* The bind fails in the thread, where nobody sees it.                      *)
Bind(n) ==
    /\ server[n].phase = "starting"
    /\ Becomes(n, IF server[n].leave \/ PortTaken(server[n].svc) THEN "gone" ELSE "listening")
    /\ UNCHANGED unbound

(* Not for the port: the host is not one of this machine, the port is not   *)
(* allowed, or the start of the application fails.                          *)
BindFails(n) ==
    /\ "bindfail" \in Fault
    /\ server[n].phase = "starting" /\ server[n].svc \in Contested
    /\ Becomes(n, "gone")
    /\ unbound' = unbound \union {server[n].svc}

(* The port is given up; the thread may stay as long as a connection does.   *)
Leave(n) ==
    /\ server[n].phase = "listening"
    /\ server[n].leave
    /\ Becomes(n, "gone")
    /\ UNCHANGED unbound

(* Another program takes the port: a new server that has looked for it but   *)
(* not bound it yet finds it gone.                                          *)
TakePort(s) ==
    /\ ~PortTaken(s)
    /\ asked < MaxEvents
    /\ asked' = asked + 1
    /\ foreign' = [foreign EXCEPT ![s] = TRUE]
    /\ disturbed' = IF \/ \E n \in DOMAIN server : server[n].svc = s /\ server[n].phase = "starting"
                       \/ \E t \in Task : task[t].svc = s /\ task[t].pc = "spawn"
                    THEN disturbed \union {s} ELSE disturbed
    /\ UNCHANGED <<clients, servers, config, task, revived>>

FreePort(s) ==
    /\ foreign[s]
    /\ foreign' = [foreign EXCEPT ![s] = FALSE]
    /\ UNCHANGED <<clients, servers, config, asked, observed, task>>

-----------------------------------------------------------------------------
Init ==
    /\ config \in Config
    /\ server = <<>>
    /\ client = <<>>
    /\ current = [s \in Service |-> 0]
    /\ status = [s \in Service |-> FALSE]
    /\ unbound = {}
    /\ wrapper = 0
    /\ api = 0
    /\ scheduler = 0
    /\ foreign = [s \in Service |-> FALSE]
    /\ \E boot \in Task :
          task = [t \in Task |-> IF t = boot THEN Restart("emby", <<"p115">>) ELSE Idle]
    /\ asked = 0
    /\ disturbed = {}
    /\ revived = {}

(* Starting at boot is a restart that finds nothing to stop.                *)
Request(t) == SetCookie(t) \/ RestartEmby(t) \/ Restore(t) \/ QrLogin(t)

Step(t) ==
    \/ Persist(t)
    \/ Stop(t)
    \/ Join(t)
    \/ Clear(t)
    \/ Close(t)
    \/ Configure(t)
    \/ MakeClient(t)
    \/ Share(t)
    \/ Probe(t)
    \/ Spawn(t)

Uvicorn == \E n \in DOMAIN server : Bind(n) \/ BindFails(n) \/ Leave(n)

Next ==
    \/ SetEnabled
    \/ \E t \in Task : Request(t) \/ Step(t)
    \/ Uvicorn
    \/ \E s \in Contested : TakePort(s) \/ FreePort(s)

Spec == Init /\ [][Next]_vars

-----------------------------------------------------------------------------
(* The numbers kept point at servers and clients that were made, and a       *)
(* server's client is there for the redirect service alone (main.py's       *)
(* globals, api_routes._client, CheckinScheduler._client).                  *)
TypeOK ==
    /\ config \in Config
    /\ client \in Seq([cookie : Cookie, ready : BOOLEAN, open : BOOLEAN])
    /\ {wrapper, api, scheduler} \subseteq 0 .. Len(client)
    /\ \A n \in DOMAIN server :
          /\ server[n].phase \in {"starting", "listening", "gone"}
          /\ server[n].leave \in BOOLEAN
          /\ server[n].client \in IF server[n].svc = "p115" THEN 1 .. Len(client) ELSE {0}
    /\ current \in [Service -> 0 .. Len(server)]
    /\ status \in [Service -> BOOLEAN]
    /\ foreign \in [Service -> BOOLEAN]
    /\ DOMAIN task = Task
    /\ asked \in 0 .. MaxEvents
    /\ disturbed \subseteq Service /\ unbound \subseteq Service
    /\ revived \subseteq 1 .. Len(client)

Quiet(s) == s \notin disturbed /\ \A t \in Task : s \notin Touches(task[t])

ServingOf(s) == {n \in DOMAIN server : server[n].svc = s /\ Serving(n)}

(* What the admin API says of a service is true once its restart is over:    *)
(* what is not said to run does not, and what is has one server, the one     *)
(* the next restart will stop (set_emby_status, set_p115_status and the     *)
(* globals of main.py).  It may have none when its bind failed for a reason  *)
(* that _port_in_use cannot see (main.py:43-49, 169, 225).                  *)
StatusHonest ==
    \A s \in Service : Quiet(s) =>
        /\ ServingOf(s) \subseteq IF status[s] THEN {current[s]} ELSE {}
        /\ status[s] /\ s \notin unbound => current[s] \in ServingOf(s)

(* After any sequence of cookie changes, restores and QR logins, everyone    *)
(* works for the account in the configuration: while main holds a client,    *)
(* the routes, the scheduler and the server hold the same one, its cookie   *)
(* is the saved one, and its connections are open unless making it failed,   *)
(* which is_ready then says (main.py:201-211, p115_client_wrapper.py:136).   *)
OneClient ==
    (Quiet("p115") /\ wrapper # 0) =>
        /\ api = wrapper /\ scheduler = wrapper
        /\ client[wrapper].cookie = config.cookie
        /\ client[wrapper].ready => client[wrapper].open
        /\ status["p115"] => server[current["p115"]].client = wrapper

(* No connection pool leaks: once restarts are over, every client but main's *)
(* is closed (main.py:97), except one that main had let go and a QR login    *)
(* on the routes' stale reference opened again.                             *)
NoClientLeft ==
    Quiet("p115") => \A c \in DOMAIN client : client[c].open => c \in {wrapper} \union revived
=============================================================================

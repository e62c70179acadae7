----------------------- MODULE ServiceLifecycleProofs -----------------------
(***************************************************************************)
(* Proofs about the start, the stop and the restart of the two services,   *)
(* for any number of threads of the admin server, of cookies and of        *)
(* requests.  The order is: the types, that one thread at most works on a  *)
(* service nothing has disturbed, what then is true of the service's       *)
(* servers, and what is true of the 115 client.                            *)
(***************************************************************************)
EXTENDS ServiceLifecycle, TLAPS

-----------------------------------------------------------------------------
(* The parts of the invariant                                               *)

Stages ==
    {"idle", "persist", "stop", "join", "clear", "close", "configure",
     "client", "share", "probe", "spawn"}

Left == {<<>>} \union {<<s>> : s \in Service}

Work == [pc : Stages, svc : Service, left : Left, of : Nat, cookie : Cookie \union {None}]

Servers ==
    [svc : Service, phase : {"starting", "listening", "gone"}, leave : BOOLEAN, client : Nat]

Clients == [cookie : Cookie, ready : BOOLEAN, open : BOOLEAN]

(* The clients a piece of work on service s, or a server of it, may hold.   *)
Held(s) == IF s = "p115" THEN 1 .. Len(client) ELSE {0}

Values ==
    /\ config \in Config
    /\ foreign \in [Service -> BOOLEAN]
    /\ status \in [Service -> BOOLEAN]
    /\ asked \in 0 .. MaxEvents
    /\ disturbed \subseteq Service /\ unbound \subseteq Service

ClientTypes ==
    /\ client \in Seq(Clients)
    /\ wrapper \in 0 .. Len(client)
    /\ api \in 0 .. Len(client)
    /\ scheduler \in 0 .. Len(client)
    /\ revived \subseteq 1 .. Len(client)

ServerTypes ==
    /\ server \in Seq(Servers)
    /\ current \in [Service -> 0 .. Len(server)]
    /\ \A n \in 1 .. Len(server) : server[n].client \in Held(server[n].svc)
    /\ \A s \in Service : current[s] # 0 => server[current[s]].svc = s

(* What a thread keeps fits what it is doing.                               *)
Fits(t) ==
    LET w == task[t] IN
    /\ w.pc = "idle" => w = Idle
    /\ w.svc \notin Range(w.left)
    /\ w.pc = "persist" => w.svc = "p115" /\ w.left = <<>> /\ w.cookie \in Cookie
    /\ w.pc = "join" => w.of \in 1 .. Len(server) /\ server[w.of].svc = w.svc
    /\ w.pc \in {"close", "client", "share"} => w.svc = "p115"
    /\ w.pc = "client" => w.cookie \in Cookie
    /\ w.pc \in {"share", "probe", "spawn"} => w.of \in Held(w.svc)
    /\ w.pc \in {"stop", "clear", "close", "configure"} => w.of = 0

TaskTypes ==
    /\ task \in [Task -> Work]
    /\ \A t \in Task : Fits(t)

Types == Values /\ ClientTypes /\ ServerTypes /\ TaskTypes

(* One thread at most works on a service that nothing disturbed.            *)
OneWorker ==
    \A s \in Service, t, u \in Task :
        s \notin disturbed /\ s \in Touches(task[t]) /\ s \in Touches(task[u]) => t = u

(* Thread t works on s, and is as far as one of the stages.                 *)
At(t, s, stages) == task[t].svc = s /\ task[t].pc \in stages

Stopping(s) == \E t \in Task : At(t, s, {"join", "clear"})

(* What starts of s is the server the next restart will stop, and nobody    *)
(* else has the port unless the probe missed it; so is what serves.         *)
StartingOne(s) ==
    \A n \in 1 .. Len(server) :
        server[n].svc = s /\ server[n].phase = "starting" =>
            n = current[s] /\ (s \in unbound \/ ~PortTaken(s))

ServingOne(s) ==
    \A n \in 1 .. Len(server) : server[n].svc = s /\ Serving(n) => n = current[s]

CurrentServes(s) ==
    /\ status[s] <=> current[s] # 0
    /\ current[s] # 0 /\ ~Stopping(s) /\ s \notin unbound => Serving(current[s])

(* How far the restart is says what is left of the server.                  *)
Restarting(t, s) ==
    /\ At(t, s, {"join"}) =>
          task[t].of = current[s] /\ current[s] # 0 /\ server[current[s]].leave
    /\ At(t, s, {"clear"}) =>
          current[s] # 0 /\ server[current[s]].leave /\ server[current[s]].phase # "starting"
    /\ At(t, s, {"close", "configure", "client", "share", "probe", "spawn"}) => current[s] = 0
    /\ At(t, s, {"spawn"}) => s \in unbound \/ ~PortTaken(s)

ServiceInv ==
    \A s \in Service \ disturbed :
        /\ StartingOne(s)
        /\ ServingOne(s)
        /\ CurrentServes(s)
        /\ \A t \in Task : Restarting(t, s)

(* The 115 client, while nothing disturbed the redirect service.            *)
Making(stages) == \E t \in Task : At(t, "p115", stages)

OpenOnes == \A c \in 1 .. Len(client) : client[c].open => c \in {wrapper} \union revived

WrapperShared ==
    /\ wrapper # 0 /\ ~Making({"share"}) => api = wrapper /\ scheduler = wrapper
    /\ wrapper # 0 /\ client[wrapper].ready => client[wrapper].open

WrapperCookie ==
    wrapper # 0 /\ ~Making({"persist", "stop", "join", "clear", "close"}) =>
        client[wrapper].cookie = config.cookie

WrapperServed ==
    wrapper # 0 /\ current["p115"] # 0 => server[current["p115"]].client = wrapper

ClientMade(t) ==
    /\ At(t, "p115", {"configure", "client"}) => wrapper = 0
    /\ At(t, "p115", {"client"}) => task[t].cookie = config.cookie
    /\ At(t, "p115", {"share", "probe", "spawn"}) => task[t].of = wrapper
    /\ At(t, "p115", {"persist"}) /\ wrapper # 0 => client[wrapper].cookie = task[t].cookie

ClientInv ==
    "p115" \notin disturbed =>
        /\ OpenOnes
        /\ WrapperShared
        /\ WrapperCookie
        /\ WrapperServed
        /\ \A t \in Task : ClientMade(t)

Inv == Types /\ OneWorker /\ ServiceInv /\ ClientInv

-----------------------------------------------------------------------------
(* Sequences of servers and of clients                                      *)

\* A record with one field changed.
LEMMA OneField ==
    /\ \A b : \A v \in Servers : [v EXCEPT !.leave = b]
          = [svc |-> v.svc, phase |-> v.phase, leave |-> b, client |-> v.client]
    /\ \A b : \A v \in Servers : [v EXCEPT !.phase = b]
          = [svc |-> v.svc, phase |-> b, leave |-> v.leave, client |-> v.client]
    /\ \A b : \A v \in Clients : [v EXCEPT !.open = b]
          = [cookie |-> v.cookie, ready |-> v.ready, open |-> b]
  BY DEF Servers, Clients

\* A server that goes to another phase is still a server, and the others are
\* as they were.
LEMMA ServerBecomes ==
    ASSUME NEW s \in Seq(Servers), NEW n \in 1 .. Len(s),
           NEW phase \in {"starting", "listening", "gone"}
    PROVE  \A r : r = [s EXCEPT ![n].phase = phase] =>
              /\ r \in Seq(Servers) /\ Len(r) = Len(s)
              /\ r[n].svc = s[n].svc /\ r[n].phase = phase
              /\ (r[n].leave <=> s[n].leave) /\ r[n].client = s[n].client
              /\ \A m \in 1 .. Len(s) : m # n => r[m] = s[m]
<1> DEFINE v == [svc |-> s[n].svc, phase |-> phase, leave |-> s[n].leave, client |-> s[n].client]
<1>1. s[n] \in Servers
  OBVIOUS
<1>2. v \in Servers
  BY <1>1 DEF Servers
<1>3. [s[n] EXCEPT !.phase = phase] = v
  BY <1>1, OneField
<1>4. [s EXCEPT ![n].phase = phase] = [s EXCEPT ![n] = v]
  BY <1>3
<1> HIDE DEF v
<1>5. ASSUME NEW r, r = [s EXCEPT ![n] = v]
      PROVE  r \in Seq(Servers) /\ Len(r) = Len(s) /\ r[n] = v /\ \A m \in 1 .. Len(s) : m # n => r[m] = s[m]
  BY <1>2, <1>5
<1>6. v.svc = s[n].svc /\ v.phase = phase /\ (v.leave <=> s[n].leave) /\ v.client = s[n].client
  BY DEF v
<1> QED
  BY <1>4, <1>5, <1>6

\* One more server, or client, leaves those before it as they are.
LEMMA OneMore ==
    ASSUME NEW S, NEW s \in Seq(S), NEW v \in S
    PROVE  LET r == Append(s, v) IN
           /\ r \in Seq(S) /\ Len(r) = Len(s) + 1 /\ r[Len(s) + 1] = v
           /\ Len(s) \in Nat /\ Len(r) \in Nat
           /\ \A m \in 1 .. Len(s) : r[m] = s[m]
  OBVIOUS

\* Closing a client, or a new cookie for it, leaves the others as they are.
LEMMA ClientSet ==
    ASSUME NEW s \in Seq(Clients), NEW n \in 1 .. Len(s), NEW v \in Clients
    PROVE  LET r == [s EXCEPT ![n] = v] IN
           /\ r \in Seq(Clients) /\ Len(r) = Len(s) /\ r[n] = v
           /\ \A m \in 1 .. Len(s) : m # n => r[m] = s[m]
  OBVIOUS

LEMMA ClientClosed ==
    ASSUME NEW s \in Seq(Clients), NEW n \in 1 .. Len(s)
    PROVE  \A r : r = [s EXCEPT ![n].open = FALSE] =>
              /\ r \in Seq(Clients) /\ Len(r) = Len(s)
              /\ r[n].cookie = s[n].cookie /\ ~r[n].open
              /\ \A m \in 1 .. Len(s) : m # n => r[m] = s[m]
<1> DEFINE v == [cookie |-> s[n].cookie, ready |-> s[n].ready, open |-> FALSE]
<1>1. s[n] \in Clients
  OBVIOUS
<1>2. v \in Clients
  BY <1>1 DEF Clients
<1>3. [s[n] EXCEPT !.open = FALSE] = v
  BY <1>1, OneField
<1>4. [s EXCEPT ![n].open = FALSE] = [s EXCEPT ![n] = v]
  BY <1>3
<1> HIDE DEF v
<1>5. ASSUME NEW r, r = [s EXCEPT ![n] = v]
      PROVE  r \in Seq(Clients) /\ Len(r) = Len(s) /\ r[n] = v /\ \A m \in 1 .. Len(s) : m # n => r[m] = s[m]
  BY <1>2, <1>5
<1>6. v.cookie = s[n].cookie /\ ~v.open
  BY DEF v
<1> QED
  BY <1>4, <1>5, <1>6

-----------------------------------------------------------------------------
(* Pieces of work                                                           *)

\* The services a request still has to restart are known, and one at most.
LEMMA Lefts ==
    ASSUME NEW left \in Left
    PROVE  /\ left = <<>> => Range(left) = {}
           /\ left # <<>> => /\ Head(left) \in Service /\ Tail(left) = <<>>
                             /\ Range(left) = {Head(left)}
<1>1. CASE left = <<>>
  BY <1>1 DEF Range
<1>2. CASE left # <<>>
  <2>1. PICK s \in Service : left = <<s>>
    BY <1>2 DEF Left
  <2>2. Head(left) = s /\ Tail(left) = <<>> /\ DOMAIN left = {1} /\ left[1] = s
    BY <2>1
  <2> QED
    BY <1>2, <2>2 DEF Range
<1> QED
  BY <1>1, <1>2

LEMMA IdleWork == Idle \in Work /\ Idle.pc = "idle" /\ Touches(Idle) = {}
  BY DEF Idle, Work, Stages, Service, Left, Touches

\* A restart begins by stopping the service.
LEMMA RestartWork ==
    ASSUME NEW s \in Service, NEW left \in Left
    PROVE  LET w == Restart(s, left) IN
           /\ w \in Work /\ w.pc = "stop" /\ w.svc = s /\ w.left = left /\ w.of = 0
           /\ Touches(w) = {s} \union Range(left)
  BY DEF Restart, Idle, Work, Stages, Touches, Service

\* A thread that is done with a service is idle, or stops the next one.
NextWork(w) == IF w.left = <<>> THEN Idle ELSE Restart(Head(w.left), Tail(w.left))

LEMMA NextWorks ==
    ASSUME NEW w \in Work
    PROVE  LET v == NextWork(w) IN
           /\ v \in Work /\ v.pc \in {"idle", "stop"} /\ (v.pc = "idle" => v = Idle)
           /\ v.left = <<>> /\ v.of = 0
           /\ Touches(v) = Range(w.left)
<1>1. w.left \in Left /\ <<>> \in Left
  BY DEF Work, Left
<1>2. CASE w.left = <<>>
  BY <1>1, <1>2, IdleWork, Lefts DEF NextWork, Idle
<1>3. CASE w.left # <<>>
  <2> DEFINE h == Head(w.left)
  <2>1. h \in Service /\ Tail(w.left) = <<>> /\ Range(w.left) = {h} /\ Range(<<>>) = {}
    BY <1>1, <1>3, Lefts
  <2>2. NextWork(w) = Restart(h, <<>>)
    BY <1>3, <2>1 DEF NextWork
  <2> HIDE DEF h
  <2> QED
    BY <1>1, <2>1, <2>2, RestartWork
<1> QED
  BY <1>2, <1>3

\* A piece of work with one field changed.
LEMMA WorkField ==
    ASSUME NEW w \in Work, NEW x
    PROVE  /\ [w EXCEPT !.pc = x] = [pc |-> x, svc |-> w.svc, left |-> w.left,
                                    of |-> w.of, cookie |-> w.cookie]
           /\ [w EXCEPT !.svc = x] = [pc |-> w.pc, svc |-> x, left |-> w.left,
                                     of |-> w.of, cookie |-> w.cookie]
           /\ [w EXCEPT !.of = x] = [pc |-> w.pc, svc |-> w.svc, left |-> w.left,
                                    of |-> x, cookie |-> w.cookie]
           /\ [w EXCEPT !.cookie = x] = [pc |-> w.pc, svc |-> w.svc, left |-> w.left,
                                        of |-> w.of, cookie |-> x]
  BY DEF Work

\* A thread that has checked a QR login has its cookie to save.
LEMMA WorkLogin ==
    ASSUME NEW k \in Cookie
    PROVE  [Idle EXCEPT !.pc = "persist", !.svc = "p115", !.cookie = k]
             = [pc |-> "persist", svc |-> "p115", left |-> <<>>, of |-> 0, cookie |-> k]
<1> DEFINE a == [Idle EXCEPT !.pc = "persist"]
           b == [a EXCEPT !.svc = "p115"]
           c == [b EXCEPT !.cookie = k]
<1>1. /\ Idle \in Work /\ Idle.left = <<>> /\ Idle.of = 0
      /\ "persist" \in Stages /\ "p115" \in Service
  BY IdleWork DEF Idle, Stages, Service
<1>2. [Idle EXCEPT !.pc = "persist", !.svc = "p115", !.cookie = k] = c
  OBVIOUS
<1>3. /\ a \in Work /\ a.pc = "persist" /\ a.left = <<>> /\ a.of = 0
  BY <1>1, WorkField DEF Work
<1> HIDE DEF a
<1>4. /\ b \in Work /\ b.pc = "persist" /\ b.svc = "p115" /\ b.left = <<>> /\ b.of = 0
  BY <1>1, <1>3, WorkField DEF Work
<1> HIDE DEF b
<1>5. c = [pc |-> b.pc, svc |-> b.svc, left |-> b.left, of |-> b.of, cookie |-> k]
  BY <1>4, WorkField
<1> HIDE DEF c
<1> QED
  BY <1>2, <1>4, <1>5

\* A thread goes on with what it has.
LEMMA WorkGoesOn ==
    ASSUME NEW w \in Work, NEW pc \in Stages
    PROVE  LET v == [w EXCEPT !.pc = pc] IN
           v = [pc |-> pc, svc |-> w.svc, left |-> w.left, of |-> w.of, cookie |-> w.cookie]
  BY DEF Work

-----------------------------------------------------------------------------
(* Who changes what                                                         *)

LEMMA WhoChangesClients ==
    ASSUME [Next]_vars
    PROVE  \/ UNCHANGED clients /\ UNCHANGED revived
           \/ \E t \in Task : QrLogin(t) \/ Close(t) \/ MakeClient(t) \/ Share(t)
<1>1. CASE SetEnabled
  BY <1>1 DEF SetEnabled, observed
<1>2. ASSUME NEW t \in Task, Request(t)
      PROVE  (UNCHANGED clients /\ UNCHANGED revived) \/ QrLogin(t)
  BY <1>2 DEF Request, SetCookie, RestartEmby, Restore
<1>3. ASSUME NEW t \in Task, Step(t)
      PROVE  (UNCHANGED clients /\ UNCHANGED revived) \/ Close(t) \/ MakeClient(t) \/ Share(t)
  BY <1>3 DEF Step, Persist, Stop, Join, Clear, Configure, Probe, Spawn, world, observed
<1>4. CASE Uvicorn
  BY <1>4 DEF Uvicorn, Bind, BindFails, Leave, Becomes, world, observed
<1>5. CASE \E s \in Contested : TakePort(s) \/ FreePort(s)
  BY <1>5 DEF TakePort, FreePort, observed
<1>6. CASE UNCHANGED vars
  BY <1>6 DEF vars, world, observed
<1> QED
  BY <1>1, <1>2, <1>3, <1>4, <1>5, <1>6 DEF Next

LEMMA WhoChangesServers ==
    ASSUME [Next]_vars
    PROVE  \/ UNCHANGED servers
           \/ \E t \in Task : Stop(t) \/ Clear(t) \/ Probe(t) \/ Spawn(t)
           \/ \E n \in DOMAIN server : Bind(n) \/ BindFails(n) \/ Leave(n)
<1>1. CASE SetEnabled
  BY <1>1 DEF SetEnabled
<1>2. ASSUME NEW t \in Task, Request(t)
      PROVE  UNCHANGED servers
  BY <1>2 DEF Request, SetCookie, RestartEmby, Restore, QrLogin
<1>3. ASSUME NEW t \in Task, Step(t)
      PROVE  UNCHANGED servers \/ Stop(t) \/ Clear(t) \/ Probe(t) \/ Spawn(t)
  BY <1>3 DEF Step, Persist, Join, Close, Configure, MakeClient, Share
<1>4. CASE Uvicorn
  BY <1>4 DEF Uvicorn
<1>5. CASE \E s \in Contested : TakePort(s) \/ FreePort(s)
  BY <1>5 DEF TakePort, FreePort
<1>6. CASE UNCHANGED vars
  BY <1>6 DEF vars
<1> QED
  BY <1>1, <1>2, <1>3, <1>4, <1>5, <1>6 DEF Next

LEMMA WhoChangesTask ==
    ASSUME [Next]_vars
    PROVE  UNCHANGED task \/ \E t \in Task : Request(t) \/ Step(t)
  BY DEF Next, SetEnabled, Uvicorn, Bind, BindFails, Leave, Becomes, TakePort, FreePort, vars

-----------------------------------------------------------------------------
(* Types                                                                    *)

\* Threads and clients are counted and pointed at by numbers.
LEMMA Numbers ==
    ASSUME ClientTypes, ServerTypes
    PROVE  /\ Len(client) \in Nat /\ DOMAIN client = 1 .. Len(client)
           /\ Len(server) \in Nat /\ DOMAIN server = 1 .. Len(server)
           /\ \A n \in 1 .. Len(server) : server[n] \in Servers
           /\ \A c \in 1 .. Len(client) : client[c] \in Clients
  BY DEF ClientTypes, ServerTypes

LEMMA ConfigChanges ==
    ASSUME config \in Config
    PROVE  /\ \A k \in Cookie \union {None} : [config EXCEPT !.cookie = k] \in Config
           /\ \A s \in Switched, b \in BOOLEAN : [config EXCEPT !.on[s] = b] \in Config
<1> DEFINE All == [cookie : Cookie \union {None}, on : [Service -> BOOLEAN]]
<1>1. /\ config \in All /\ \A s \in Service \ Switched : config.on[s]
      /\ \A c \in All : (\A s \in Service \ Switched : c.on[s]) => c \in Config
  BY DEF Config
<1>2. ASSUME NEW k \in Cookie \union {None}
      PROVE  [config EXCEPT !.cookie = k] \in Config
  <2>1. [config EXCEPT !.cookie = k] = [cookie |-> k, on |-> config.on]
    BY <1>1
  <2> QED
    BY <1>1, <2>1
<1>3. ASSUME NEW s \in Switched, NEW b \in BOOLEAN
      PROVE  [config EXCEPT !.on[s] = b] \in Config
  <2> DEFINE on == [config.on EXCEPT ![s] = b]
  <2>1. on \in [Service -> BOOLEAN] /\ \A r \in Service \ Switched : on[r]
    BY <1>1
  <2>2. [config EXCEPT !.on[s] = b] = [cookie |-> config.cookie, on |-> on]
    BY <1>1
  <2> HIDE DEF on
  <2> QED
    BY <1>1, <2>1, <2>2
<1> QED
  BY <1>2, <1>3

\* An event is counted within its bound.
LEMMA AcceptCounts ==
    ASSUME Values, Accept
    PROVE  asked' \in 0 .. MaxEvents
  BY LifecycleAssumption DEF Values, Accept

\* What Touches names are services.
LEMMA TouchesServices ==
    ASSUME NEW w \in Work
    PROVE  Touches(w) \subseteq Service
<1>1. w.left \in Left /\ w.svc \in Service
  BY DEF Work
<1>2. Range(w.left) \subseteq Service
  BY <1>1, Lefts
<1> QED
  BY <1>1, <1>2 DEF Touches

LEMMA ValuesHold ==
    ASSUME Types, [Next]_vars
    PROVE  Values'
<1> USE DEF Types, Values
<1>1. CASE SetEnabled
  BY <1>1, ConfigChanges, AcceptCounts DEF SetEnabled, Accept, servers, observed
<1>2. ASSUME NEW t \in Task, Request(t)
      PROVE  Values'
  <2>1. ASSUME NEW w \in Work, Take(t, w)
        PROVE  asked' \in 0 .. MaxEvents /\ disturbed' \subseteq Service /\ foreign' = foreign
    BY <2>1, AcceptCounts, TouchesServices DEF Take, Accept
  <2>2. CASE SetCookie(t)
    BY <2>1, <2>2, ConfigChanges, RestartWork DEF SetCookie, servers, Service, Left
  <2>3. CASE RestartEmby(t)
    BY <2>1, <2>3, RestartWork DEF RestartEmby, servers, Service, Left
  <2>4. CASE Restore(t)
    BY <2>1, <2>4, RestartWork DEF Restore, servers, Service, Left
  <2>5. CASE QrLogin(t)
    <3>1. PICK k \in Cookie : Take(t, [Idle EXCEPT !.pc = "persist", !.svc = "p115", !.cookie = k])
      BY <2>5 DEF QrLogin
    <3>2. [Idle EXCEPT !.pc = "persist", !.svc = "p115", !.cookie = k] \in Work
      BY DEF Idle, Work, Stages, Service, Left
    <3> QED
      BY <2>1, <2>5, <3>1, <3>2 DEF QrLogin, servers
  <2> QED
    BY <1>2, <2>2, <2>3, <2>4, <2>5 DEF Request
<1>3. ASSUME NEW t \in Task, Step(t)
      PROVE  Values'
  <2>0. task[t] \in Work
    BY DEF TaskTypes
  <2>1. CASE Persist(t)
    <3>1. task[t].cookie \in Cookie
      BY <2>1 DEF Persist, TaskTypes, Fits
    <3> QED
      BY <2>1, <3>1, ConfigChanges DEF Persist, servers, observed
  <2>2. CASE Join(t)
    BY <2>0, <2>2 DEF Join, servers, Work
  <2>3. CASE Clear(t)
    BY <2>0, <2>3 DEF Clear, world, observed, Work
  <2>4. CASE Probe(t)
    BY <2>0, <2>4 DEF Probe, world, observed, Work
  <2>5. CASE Spawn(t)
    BY <2>0, <2>5 DEF Spawn, world, observed, Work
  <2>6. CASE Stop(t) \/ Close(t) \/ Configure(t) \/ MakeClient(t) \/ Share(t)
    BY <2>6 DEF Stop, Close, Configure, MakeClient, Share, servers, world, observed
  <2> QED
    BY <1>3, <2>1, <2>2, <2>3, <2>4, <2>5, <2>6 DEF Step
<1>4. CASE Uvicorn
  <2>1. PICK n \in DOMAIN server : Bind(n) \/ BindFails(n) \/ Leave(n)
    BY <1>4 DEF Uvicorn
  <2>2. UNCHANGED <<status, world>>
    BY <2>1 DEF Bind, BindFails, Leave, Becomes
  <2>3. unbound' = unbound \/ (unbound' = unbound \union {server[n].svc} /\ server[n].svc \in Contested)
    BY <2>1 DEF Bind, BindFails, Leave
  <2>4. unbound' \subseteq Service
    BY <2>3, LifecycleAssumption DEF Service
  <2> QED
    BY <2>2, <2>4 DEF world, observed
<1>5. ASSUME NEW s \in Contested, TakePort(s) \/ FreePort(s)
      PROVE  Values'
  <2>1. s \in Service
    BY LifecycleAssumption DEF Service
  <2>2. CASE TakePort(s)
    <3>1. asked' \in 0 .. MaxEvents
      BY <2>2, LifecycleAssumption DEF TakePort
    <3>2. disturbed' = disturbed \/ disturbed' = disturbed \union {s}
      BY <2>2 DEF TakePort
    <3>3. foreign' \in [Service -> BOOLEAN]
      BY <2>2 DEF TakePort
    <3> QED
      BY <2>1, <2>2, <3>1, <3>2, <3>3 DEF TakePort, servers
  <2>3. CASE FreePort(s)
    BY <2>1, <2>3 DEF FreePort, servers, observed
  <2> QED
    BY <1>5, <2>2, <2>3
<1>6. CASE UNCHANGED vars
  BY <1>6 DEF vars, servers, world, observed
<1> QED
  BY <1>1, <1>2, <1>3, <1>4, <1>5, <1>6 DEF Next

\* What a thread works with after a step, the other threads as they were.
Working(t, v) ==
    /\ task' \in [Task -> Work]
    /\ task'[t] = v
    /\ \A u \in Task : u # t => task'[u] = task[u]

LEMMA WorkChanges ==
    ASSUME TaskTypes, NEW t \in Task
    PROVE  \A v \in Work : task' = [task EXCEPT ![t] = v] => Working(t, v)
  BY DEF TaskTypes, Working

LEMMA GoesOn ==
    ASSUME TaskTypes, NEW t \in Task, NEW pc \in Stages, GoOn(t, pc)
    PROVE  Working(t, [pc |-> pc, svc |-> task[t].svc, left |-> task[t].left,
                       of |-> task[t].of, cookie |-> task[t].cookie])
<1>1. task \in [Task -> Work] /\ task[t] \in Work
  BY DEF TaskTypes
<1>2. task' = [task EXCEPT ![t] = [task[t] EXCEPT !.pc = pc]]
  BY <1>1 DEF GoOn
<1> DEFINE v == [pc |-> pc, svc |-> task[t].svc, left |-> task[t].left,
                 of |-> task[t].of, cookie |-> task[t].cookie]
<1>3. v \in Work
  BY <1>1 DEF Work
<1>4. [task[t] EXCEPT !.pc = pc] = v
  BY <1>1, WorkGoesOn
<1> HIDE DEF v
<1>5. Working(t, v)
  BY <1>2, <1>3, <1>4, WorkChanges
<1> QED
  BY <1>5 DEF v

LEMMA IsDone ==
    ASSUME TaskTypes, NEW t \in Task, Done(t)
    PROVE  Working(t, NextWork(task[t]))
<1>1. task[t] \in Work
  BY DEF TaskTypes
<1>2. task' = [task EXCEPT ![t] = NextWork(task[t])]
  BY DEF Done, NextWork
<1> QED
  BY <1>1, <1>2, NextWorks, WorkChanges

\* Making a client succeeds or fails.
LEMMA MadeEither == Made \subseteq BOOLEAN
  BY DEF Made

\* A client is made for the cookie the thread has read, and is open when it is
\* ready.
LEMMA ClientMakes ==
    ASSUME Types, NEW t \in Task, MakeClient(t)
    PROVE  \E v \in Clients :
              /\ v.cookie = task[t].cookie /\ (v.ready => v.open)
              /\ client' = Append(client, v)
              /\ wrapper' = Len(client) + 1
<1>1. PICK ok \in BOOLEAN :
          client' = Append(client, [cookie |-> task[t].cookie, ready |-> ok, open |-> ok])
  BY MadeEither DEF MakeClient
<1>2. task[t].cookie \in Cookie /\ wrapper' = Len(client) + 1
  BY DEF MakeClient, Types, TaskTypes, Fits
<1> DEFINE v == [cookie |-> task[t].cookie, ready |-> ok, open |-> ok]
<1>3. v \in Clients /\ v.cookie = task[t].cookie /\ (v.ready => v.open)
  BY <1>2 DEF Clients
<1> QED
  BY <1>1, <1>2, <1>3

\* A QR login gives the routes' client a cookie and opens it if it can.
LEMMA LoginOpens ==
    ASSUME Types, NEW t \in Task, QrLogin(t)
    PROVE  \E k \in Cookie, v \in Clients :
              /\ api \in 1 .. Len(client)
              /\ v.cookie = k /\ (v.ready => v.open)
              /\ client' = [client EXCEPT ![api] = v]
              /\ revived' = IF api = wrapper THEN revived ELSE revived \union {api}
              /\ Take(t, [pc |-> "persist", svc |-> "p115", left |-> <<>>, of |-> 0, cookie |-> k])
<1>1. PICK k \in Cookie, ok \in BOOLEAN :
          /\ api # 0
          /\ client' = [client EXCEPT ![api] = [cookie |-> k, ready |-> ok, open |-> ok]]
          /\ revived' = IF api = wrapper THEN revived ELSE revived \union {api}
          /\ Take(t, [Idle EXCEPT !.pc = "persist", !.svc = "p115", !.cookie = k])
  BY MadeEither DEF QrLogin
<1>2. [Idle EXCEPT !.pc = "persist", !.svc = "p115", !.cookie = k]
        = [pc |-> "persist", svc |-> "p115", left |-> <<>>, of |-> 0, cookie |-> k]
  BY WorkLogin
<1>3. api \in 1 .. Len(client)
  BY <1>1 DEF Types, ClientTypes
<1> DEFINE v == [cookie |-> k, ready |-> ok, open |-> ok]
<1>4. v \in Clients /\ v.cookie = k /\ (v.ready => v.open)
  BY DEF Clients
<1> QED
  BY <1>1, <1>2, <1>3, <1>4

LEMMA ClientTypesHold ==
    ASSUME Types, [Next]_vars
    PROVE  ClientTypes' /\ Len(client) <= Len(client')
<1>1. ClientTypes /\ Len(client) \in Nat
  BY Numbers DEF Types
<1>2. CASE UNCHANGED clients /\ UNCHANGED revived
  BY <1>1, <1>2 DEF ClientTypes, clients
<1>3. ASSUME NEW t \in Task, QrLogin(t)
      PROVE  ClientTypes' /\ Len(client) <= Len(client')
  <2>1. PICK v \in Clients :
          /\ api \in 1 .. Len(client)
          /\ client' = [client EXCEPT ![api] = v]
          /\ revived' = IF api = wrapper THEN revived ELSE revived \union {api}
    BY <1>3, LoginOpens
  <2>2. client' \in Seq(Clients) /\ Len(client') = Len(client)
    BY <1>1, <2>1, ClientSet DEF ClientTypes
  <2>3. revived' \subseteq 1 .. Len(client)
    BY <1>1, <2>1 DEF ClientTypes
  <2> QED
    BY <1>1, <1>3, <2>2, <2>3 DEF ClientTypes, QrLogin
<1>4. ASSUME NEW t \in Task, Close(t)
      PROVE  ClientTypes' /\ Len(client) <= Len(client')
  <2>1. client' \in Seq(Clients) /\ Len(client') = Len(client)
    <3>1. CASE wrapper = 0
      BY <1>1, <1>4, <3>1 DEF Close, ClientTypes
    <3>2. CASE wrapper # 0
      <4>1. wrapper \in 1 .. Len(client) /\ client' = [client EXCEPT ![wrapper].open = FALSE]
        BY <1>1, <1>4, <3>2 DEF Close, ClientTypes
      <4> QED
        BY <1>1, <4>1, ClientClosed DEF ClientTypes
    <3> QED
      BY <3>1, <3>2
  <2> QED
    BY <1>1, <1>4, <2>1 DEF ClientTypes, Close, world, observed
<1>5. ASSUME NEW t \in Task, MakeClient(t)
      PROVE  ClientTypes' /\ Len(client) <= Len(client')
  <2>0. PICK v \in Clients : client' = Append(client, v) /\ wrapper' = Len(client) + 1
    BY <1>5, ClientMakes
  <2>1. client' \in Seq(Clients) /\ Len(client') = Len(client) + 1 /\ wrapper' = Len(client) + 1
    BY <1>1, <2>0, OneMore DEF ClientTypes
  <2> QED
    BY <1>1, <1>5, <2>1 DEF ClientTypes, MakeClient, world, observed
<1>6. ASSUME NEW t \in Task, Share(t)
      PROVE  ClientTypes' /\ Len(client) <= Len(client')
  <2>1. task[t].of \in 1 .. Len(client)
    BY <1>6 DEF Share, Types, TaskTypes, Fits, Held
  <2> QED
    BY <1>1, <1>6, <2>1 DEF ClientTypes, Share, world, observed
<1> QED
  BY <1>2, <1>3, <1>4, <1>5, <1>6, WhoChangesClients

\* Servers are only added, and stay what they serve.
Growing ==
    /\ Len(server) <= Len(server')
    /\ \A n \in 1 .. Len(server) :
          server'[n].svc = server[n].svc /\ server'[n].client = server[n].client

\* The new server of _start_emby and _start_p115, with the client it is for.
LEMMA Spawns ==
    ASSUME Types, NEW t \in Task, Spawn(t)
    PROVE  LET v == [svc |-> task[t].svc, phase |-> "starting", leave |-> FALSE, client |-> task[t].of] IN
           /\ v \in Servers /\ task[t].of \in Held(task[t].svc) /\ task[t].svc \in Service
           /\ server' = Append(server, v)
           /\ current' = [current EXCEPT ![task[t].svc] = Len(server) + 1]
           /\ status' = [status EXCEPT ![task[t].svc] = TRUE]
           /\ Done(t)
<1>1. task[t] \in Work /\ task[t].of \in Held(task[t].svc)
  BY DEF Spawn, Types, TaskTypes, Fits
<1> QED
  BY <1>1 DEF Spawn, Work, Servers

\* should_exit of the service's server, and nothing else, is set.
LEMMA StopTells ==
    ASSUME Types, NEW t \in Task, Stop(t), current[task[t].svc] # 0
    PROVE  LET n == current[task[t].svc] IN
           /\ n \in 1 .. Len(server) /\ current' = current /\ task[t].svc \in Service
           /\ server' \in Seq(Servers) /\ Len(server') = Len(server)
           /\ server'[n].svc = server[n].svc /\ server'[n].client = server[n].client
           /\ server'[n].phase = server[n].phase /\ server'[n].leave
           /\ \A m \in 1 .. Len(server) : m # n => server'[m] = server[m]
<1> DEFINE n == current[task[t].svc]
           v == [svc |-> server[n].svc, phase |-> server[n].phase, leave |-> TRUE, client |-> server[n].client]
<1>1. server \in Seq(Servers) /\ task[t].svc \in Service
  BY DEF Types, ServerTypes, TaskTypes, Work
<1>2. n \in 1 .. Len(server) /\ current' = current
  BY <1>1 DEF Stop, Types, ServerTypes
<1>3. server' = [server EXCEPT ![n].leave = TRUE]
  BY DEF Stop
<1> HIDE DEF n
<1>4. server[n] \in Servers
  BY <1>1, <1>2
<1>5. v \in Servers
  BY <1>4 DEF Servers
<1>6. [server[n] EXCEPT !.leave = TRUE] = v
  BY <1>4, OneField
<1>7. server' = [server EXCEPT ![n] = v]
  BY <1>3, <1>6
<1>8. v.svc = server[n].svc /\ v.phase = server[n].phase /\ v.leave /\ v.client = server[n].client
  BY DEF v
<1> HIDE DEF v
<1>9. /\ server' \in Seq(Servers) /\ Len(server') = Len(server) /\ server'[n] = v
      /\ \A m \in 1 .. Len(server) : m # n => server'[m] = server[m]
  BY ONLY <1>1, <1>2, <1>5, <1>7
<1> QED
  BY <1>1, <1>2, <1>8, <1>9 DEF n

LEMMA ServerTypesHold ==
    ASSUME Types, [Next]_vars
    PROVE  ServerTypes' /\ Growing
<1>1. /\ ServerTypes /\ ClientTypes /\ Len(server) \in Nat /\ Len(client) \in Nat
      /\ Len(client') \in Nat /\ Len(client) <= Len(client')
      /\ \A n \in 1 .. Len(server) : server[n] \in Servers
  BY Numbers, ClientTypesHold DEF Types, ClientTypes
<1>2. \A s : Held(s) \subseteq Held(s)'
  BY <1>1 DEF Held
\* No server changes but in its phase and its should_exit, and no new one.
<1>3. ASSUME server' \in Seq(Servers), Len(server') = Len(server), current' = current,
             \A n \in 1 .. Len(server) :
                server'[n].svc = server[n].svc /\ server'[n].client = server[n].client
      PROVE  ServerTypes' /\ Growing
  BY <1>1, <1>2, <1>3 DEF ServerTypes, Growing
<1>4. CASE UNCHANGED servers
  BY <1>1, <1>3, <1>4 DEF servers, ServerTypes
<1>5. ASSUME NEW t \in Task, Stop(t)
      PROVE  ServerTypes' /\ Growing
  <2> DEFINE n == current[task[t].svc]
  <2>1. current' = current /\ task[t].svc \in Service
    BY <1>5 DEF Stop, Types, TaskTypes, Work
  <2>2. CASE n = 0
    BY <1>1, <1>3, <1>5, <2>1, <2>2 DEF Stop, ServerTypes
  <2>3. CASE n # 0
    <3>1. /\ server' \in Seq(Servers) /\ Len(server') = Len(server)
          /\ server'[n].svc = server[n].svc /\ server'[n].client = server[n].client
          /\ \A m \in 1 .. Len(server) : m # n => server'[m] = server[m]
      BY <1>5, <2>3, StopTells
    <3> HIDE DEF n
    <3> QED
      BY <1>3, <2>1, <3>1
  <2> QED
    BY <2>2, <2>3
<1>6. ASSUME NEW t \in Task, Clear(t)
      PROVE  ServerTypes' /\ Growing
  <2>1. task[t].svc \in Service /\ server' = server /\ current' = [current EXCEPT ![task[t].svc] = 0]
    BY <1>6 DEF Clear, Types, TaskTypes, Work
  <2>2. current' \in [Service -> 0 .. Len(server)] /\ \A s \in Service : current'[s] \in {0, current[s]}
    BY <1>1, <2>1 DEF ServerTypes
  <2> QED
    BY <1>1, <1>2, <2>1, <2>2 DEF ServerTypes, Growing
<1>7. ASSUME NEW t \in Task, Probe(t)
      PROVE  ServerTypes' /\ Growing
  BY <1>1, <1>3, <1>7 DEF Probe, ServerTypes
<1>8. ASSUME NEW t \in Task, Spawn(t)
      PROVE  ServerTypes' /\ Growing
  <2> DEFINE v == [svc |-> task[t].svc, phase |-> "starting", leave |-> FALSE, client |-> task[t].of]
             r == task[t].svc
             k == Len(server) + 1
  <2>1. /\ v \in Servers /\ task[t].of \in Held(r) /\ r \in Service
        /\ server' = Append(server, v)
        /\ current' = [current EXCEPT ![r] = k]
    BY <1>8, Spawns
  <2>2. v.svc = r /\ v.client = task[t].of
    OBVIOUS
  <2> HIDE DEF v
  <2>3. /\ server' \in Seq(Servers) /\ Len(server') = k /\ server'[k] = v
        /\ \A m \in 1 .. Len(server) : server'[m] = server[m]
    BY <1>1, <2>1, OneMore DEF ServerTypes
  <2> HIDE DEF r
  <2>4. current' \in [Service -> 0 .. k] /\ current'[r] = k /\ \A s \in Service : s # r => current'[s] = current[s]
    BY <1>1, <2>1 DEF ServerTypes
  <2>5. ASSUME NEW m \in 1 .. k
        PROVE  (server[m].client \in Held(server[m].svc))'
    <3>1. CASE m = k
      BY <1>2, <2>1, <2>2, <2>3, <3>1
    <3>2. CASE m # k
      BY <1>1, <1>2, <2>3, <3>2 DEF ServerTypes
    <3> QED
      BY <3>1, <3>2
  <2>6. ASSUME NEW s \in Service, current'[s] # 0
        PROVE  server'[current'[s]].svc = s
    BY <1>1, <2>2, <2>3, <2>4, <2>6 DEF ServerTypes
  <2> QED
    BY <1>1, <2>3, <2>4, <2>5, <2>6 DEF ServerTypes, Growing
<1>9. ASSUME NEW n \in DOMAIN server, Bind(n) \/ BindFails(n) \/ Leave(n)
      PROVE  ServerTypes' /\ Growing
  <2>1. n \in 1 .. Len(server) /\ current' = current
    BY <1>1, <1>9 DEF Bind, BindFails, Leave, Becomes, ServerTypes
  <2>2. PICK phase \in {"starting", "listening", "gone"} : server' = [server EXCEPT ![n].phase = phase]
    BY <1>9 DEF Bind, BindFails, Leave, Becomes
  <2>3. /\ server' \in Seq(Servers) /\ Len(server') = Len(server)
        /\ server'[n].svc = server[n].svc /\ server'[n].client = server[n].client
        /\ \A m \in 1 .. Len(server) : m # n => server'[m] = server[m]
    BY <1>1, <2>1, <2>2, ServerBecomes DEF ServerTypes
  <2> QED
    BY <1>3, <2>1, <2>3
<1> QED
  BY <1>4, <1>5, <1>6, <1>7, <1>8, <1>9, WhoChangesServers

\* What a thread keeps still fits while clients and servers are only added.
LEMMA FitsKept ==
    ASSUME Types, [Next]_vars, NEW u \in Task, task'[u] = task[u]
    PROVE  Fits(u)'
<1>1. /\ Fits(u) /\ Len(server) \in Nat /\ Len(client) \in Nat
      /\ Len(server') \in Nat /\ Len(client') \in Nat
      /\ Len(client) <= Len(client') /\ Growing
  BY Numbers, ClientTypesHold, ServerTypesHold DEF Types, TaskTypes, ClientTypes, ServerTypes
<1>2. \A s : Held(s) \subseteq Held(s)'
  BY <1>1 DEF Held
<1>3. \A n \in 1 .. Len(server) : n \in 1 .. Len(server') /\ server'[n].svc = server[n].svc
  BY <1>1 DEF Growing
<1> QED
  BY <1>1, <1>2, <1>3 DEF Fits

\* The stages a thread can be at after a step, with what it keeps.
LEMMA FitsNext ==
    ASSUME TaskTypes, NEW t \in Task, Working(t, NextWork(task[t]))
    PROVE  Fits(t)'
<1> DEFINE v == NextWork(task[t])
<1>1. /\ v.pc \in {"idle", "stop"} /\ (v.pc = "idle" => v = Idle)
      /\ v.left = <<>> /\ v.of = 0 /\ task'[t] = v /\ Range(<<>>) = {}
  BY NextWorks, Lefts DEF TaskTypes, Working, Left
<1> HIDE DEF v
<1> QED
  BY <1>1 DEF Fits

\* Thread t takes up a piece of work, which may cut across another's.
Asks(t, v) ==
    /\ task[t] = Idle /\ Working(t, v) /\ v \in Work
    /\ disturbed' = disturbed \union (Touches(v) \intersect UNION {Touches(task[u]) : u \in Task})

LEMMA Asking ==
    ASSUME TaskTypes, NEW t \in Task
    PROVE  \A v \in Work : Take(t, v) => Asks(t, v)
  BY WorkChanges DEF Take, Asks

\* A request that restarts a service begins by stopping it, and the
\* configuration changes with a restart of the redirect service only.
LEMMA RestartAsked ==
    ASSUME Types, NEW t \in Task, SetCookie(t) \/ RestartEmby(t) \/ Restore(t)
    PROVE  \E v \in Work :
              /\ Asks(t, v) /\ v.pc = "stop" /\ Fits(t)'
              /\ v.svc = "p115" \/ config' = config
<1>1. ASSUME NEW s \in Service, NEW left \in Left, s \notin Range(left), Take(t, Restart(s, left)),
             s = "p115" \/ config' = config
      PROVE  \E v \in Work :
              /\ Asks(t, v) /\ v.pc = "stop" /\ Fits(t)'
              /\ v.svc = "p115" \/ config' = config
  <2> DEFINE v == Restart(s, left)
  <2>1. v \in Work /\ v.pc = "stop" /\ v.svc = s /\ v.left = left /\ v.of = 0 /\ s \in Touches(v)
    BY RestartWork
  <2> HIDE DEF v
  <2>2. Asks(t, v)
    BY <1>1, <2>1, Asking DEF v, Types
  <2>3. Fits(t)'
    BY <1>1, <2>1, <2>2 DEF Fits, Working, Asks
  <2> QED
    BY <1>1, <2>1, <2>2, <2>3
<1>2. /\ <<>> \in Left /\ <<"emby">> \in Left /\ "p115" \in Service /\ "emby" \in Service
      /\ "p115" \notin Range(<<>>) /\ "emby" \notin Range(<<>>)
      /\ "p115" \notin Range(<<"emby">>)
  BY DEF Left, Service, Range
<1>3. CASE SetCookie(t)
  BY <1>1, <1>2, <1>3 DEF SetCookie
<1>4. CASE RestartEmby(t)
  BY <1>1, <1>2, <1>4 DEF RestartEmby
<1>5. CASE Restore(t)
  BY <1>1, <1>2, <1>5 DEF Restore
<1> QED
  BY <1>3, <1>4, <1>5

\* A QR login leaves the thread with the cookie to save.
LEMMA LoginAsked ==
    ASSUME Types, NEW t \in Task, QrLogin(t)
    PROVE  \E v \in Work :
              /\ Asks(t, v) /\ v.pc = "persist" /\ v.svc = "p115" /\ Fits(t)'
              /\ v.cookie \in Cookie /\ config' = config
              /\ api \in 1 .. Len(client)
              /\ \E c \in Clients :
                    /\ c.cookie = v.cookie /\ (c.ready => c.open)
                    /\ client' = [client EXCEPT ![api] = c]
              /\ revived' = IF api = wrapper THEN revived ELSE revived \union {api}
              /\ "p115" \in Touches(v)
<1>1. PICK k \in Cookie, c \in Clients :
              /\ api \in 1 .. Len(client)
              /\ c.cookie = k /\ (c.ready => c.open)
              /\ client' = [client EXCEPT ![api] = c]
              /\ revived' = IF api = wrapper THEN revived ELSE revived \union {api}
              /\ Take(t, [pc |-> "persist", svc |-> "p115", left |-> <<>>, of |-> 0, cookie |-> k])
  BY LoginOpens
<1> DEFINE v == [pc |-> "persist", svc |-> "p115", left |-> <<>>, of |-> 0, cookie |-> k]
<1>2. v \in Work /\ v.pc = "persist" /\ v.svc = "p115" /\ v.left = <<>> /\ v.of = 0 /\ v.cookie = k
  BY DEF Work, Stages, Service, Left
<1>3. Take(t, v)
  BY <1>1
<1> HIDE DEF v
<1>4. Asks(t, v)
  BY <1>2, <1>3, Asking DEF Types
<1>5. Fits(t)'
  BY <1>2, <1>4 DEF Fits, Working, Asks, Range
<1>6. "p115" \in Touches(v)
  BY <1>2 DEF Touches
<1> QED
  BY <1>1, <1>2, <1>4, <1>5, <1>6 DEF QrLogin

\* A thread that goes on with another server or client, or another cookie.
GoOnWith(t, pc, of) == task' = [task EXCEPT ![t].pc = pc, ![t].of = of]

GoOnFor(t, pc, cookie) == task' = [task EXCEPT ![t].pc = pc, ![t].cookie = cookie]

LEMMA GoesOnWith ==
    ASSUME TaskTypes, NEW t \in Task, NEW pc \in Stages, NEW of \in Nat, GoOnWith(t, pc, of)
    PROVE  Working(t, [pc |-> pc, svc |-> task[t].svc, left |-> task[t].left,
                       of |-> of, cookie |-> task[t].cookie])
<1> DEFINE a == [task EXCEPT ![t].pc = pc]
           v == [pc |-> pc, svc |-> task[t].svc, left |-> task[t].left, of |-> of, cookie |-> task[t].cookie]
<1>1. task \in [Task -> Work] /\ task[t] \in Work
  BY DEF TaskTypes
<1>2. task' = [a EXCEPT ![t].of = of]
  BY DEF GoOnWith
<1>3. a = [task EXCEPT ![t] = [task[t] EXCEPT !.pc = pc]]
  OBVIOUS
<1>4. /\ a \in [Task -> Work] /\ a[t] \in Work
      /\ a[t].svc = task[t].svc /\ a[t].left = task[t].left /\ a[t].pc = pc
      /\ a[t].of = task[t].of /\ a[t].cookie = task[t].cookie
      /\ \A u \in Task : u # t => a[u] = task[u]
  BY <1>1, <1>3, WorkField DEF Work
<1> HIDE DEF a
<1>5. [a[t] EXCEPT !.of = of]
        = [pc |-> a[t].pc, svc |-> a[t].svc, left |-> a[t].left, of |-> of, cookie |-> a[t].cookie]
  BY <1>4, WorkField
<1>6. [a[t] EXCEPT !.of = of] = v
  BY <1>4, <1>5
<1>7. v \in Work
  BY <1>1 DEF Work
<1> HIDE DEF v
<1>8. task' = [a EXCEPT ![t] = v]
  BY <1>2, <1>6
<1>9. Working(t, v)
  BY <1>4, <1>7, <1>8 DEF Working
<1> QED
  BY <1>9 DEF v

LEMMA GoesOnFor ==
    ASSUME TaskTypes, NEW t \in Task, NEW pc \in Stages, NEW cookie \in Cookie, GoOnFor(t, pc, cookie)
    PROVE  Working(t, [pc |-> pc, svc |-> task[t].svc, left |-> task[t].left,
                       of |-> task[t].of, cookie |-> cookie])
<1> DEFINE a == [task EXCEPT ![t].pc = pc]
           v == [pc |-> pc, svc |-> task[t].svc, left |-> task[t].left, of |-> task[t].of, cookie |-> cookie]
<1>1. task \in [Task -> Work] /\ task[t] \in Work
  BY DEF TaskTypes
<1>2. task' = [a EXCEPT ![t].cookie = cookie]
  BY DEF GoOnFor
<1>3. a = [task EXCEPT ![t] = [task[t] EXCEPT !.pc = pc]]
  OBVIOUS
<1>4. /\ a \in [Task -> Work] /\ a[t] \in Work
      /\ a[t].svc = task[t].svc /\ a[t].left = task[t].left /\ a[t].pc = pc
      /\ a[t].of = task[t].of /\ a[t].cookie = task[t].cookie
      /\ \A u \in Task : u # t => a[u] = task[u]
  BY <1>1, <1>3, WorkField DEF Work
<1> HIDE DEF a
<1>5. [a[t] EXCEPT !.cookie = cookie]
        = [pc |-> a[t].pc, svc |-> a[t].svc, left |-> a[t].left, of |-> a[t].of, cookie |-> cookie]
  BY <1>4, WorkField
<1>6. [a[t] EXCEPT !.cookie = cookie] = v
  BY <1>4, <1>5
<1>7. v \in Work
  BY <1>1 DEF Work
<1> HIDE DEF v
<1>8. task' = [a EXCEPT ![t] = v]
  BY <1>2, <1>6
<1>9. Working(t, v)
  BY <1>4, <1>7, <1>8 DEF Working
<1> QED
  BY <1>9 DEF v

\* What a step of a restart leaves its thread with.
LEMMA StepWork ==
    ASSUME Types, NEW t \in Task, Step(t)
    PROVE  /\ Fits(t)' /\ task[t].pc # "idle"
           /\ \E v \in Work :
                 /\ Working(t, v)
                 /\ \/ v = Idle
                    \/ v = NextWork(task[t])
                    \/ v.pc # "idle" /\ v.svc = task[t].svc /\ v.left = task[t].left
<1> DEFINE Goal ==
              \E v \in Work :
                 /\ Working(t, v)
                 /\ \/ v = Idle
                    \/ v = NextWork(task[t])
                    \/ v.pc # "idle" /\ v.svc = task[t].svc /\ v.left = task[t].left
<1>1. /\ TaskTypes /\ Fits(t) /\ task[t] \in Work /\ task[t].svc \in {"emby", "p115"}
      /\ Len(server) \in Nat /\ Len(client) \in Nat /\ task[t].left \in Left
      /\ task[t].of \in Nat /\ task[t].cookie \in Cookie \union {None}
  BY Numbers DEF Types, TaskTypes, Work, Service
<1>2. ASSUME Done(t)
      PROVE  Fits(t)' /\ Goal
  BY <1>1, <1>2, IsDone, FitsNext, NextWorks
<1>3. ASSUME NEW pc \in Stages, pc # "idle", GoOn(t, pc)
      PROVE  /\ Goal
             /\ task'[t].pc = pc /\ task'[t].svc = task[t].svc /\ task'[t].left = task[t].left
             /\ task'[t].of = task[t].of /\ task'[t].cookie = task[t].cookie
  <2> DEFINE v == [pc |-> pc, svc |-> task[t].svc, left |-> task[t].left,
                   of |-> task[t].of, cookie |-> task[t].cookie]
  <2>1. /\ v \in Work /\ v.pc = pc /\ v.svc = task[t].svc /\ v.left = task[t].left
        /\ v.of = task[t].of /\ v.cookie = task[t].cookie
    BY <1>1 DEF Work, Service
  <2>2. Working(t, v)
    BY <1>1, <1>3, GoesOn
  <2> HIDE DEF v
  <2> QED
    BY <1>3, <2>1, <2>2 DEF Working
\* A thread that goes on to another stage with something else in hand.
<1>4. ASSUME NEW pc \in Stages, pc # "idle", NEW of \in Nat, NEW cookie \in Cookie \union {None},
             Working(t, [pc |-> pc, svc |-> task[t].svc, left |-> task[t].left,
                         of |-> of, cookie |-> cookie])
      PROVE  /\ Goal
             /\ task'[t].pc = pc /\ task'[t].svc = task[t].svc /\ task'[t].left = task[t].left
             /\ task'[t].of = of /\ task'[t].cookie = cookie
  <2> DEFINE v == [pc |-> pc, svc |-> task[t].svc, left |-> task[t].left, of |-> of, cookie |-> cookie]
  <2>1. /\ v \in Work /\ v.pc = pc /\ v.svc = task[t].svc /\ v.left = task[t].left
        /\ v.of = of /\ v.cookie = cookie
    BY <1>1 DEF Work, Service
  <2>2. Working(t, v)
    BY <1>4
  <2> HIDE DEF v
  <2> QED
    BY <1>4, <2>1, <2>2 DEF Working
<1>5. /\ \A s : Held(s) \subseteq Held(s)'
      /\ Len(client') \in Nat /\ Len(client) <= Len(client') /\ Growing
      /\ Len(server') \in Nat
  <2>1. [Next]_vars
    BY DEF Next
  <2>2. ClientTypes' /\ Len(client) <= Len(client') /\ ServerTypes' /\ Growing
    BY <2>1, ClientTypesHold, ServerTypesHold
  <2>3. Len(client') \in Nat /\ Len(server') \in Nat
    BY <2>2 DEF ClientTypes, ServerTypes
  <2> QED
    BY <1>1, <2>2, <2>3 DEF Held
<1>6. CASE Persist(t)
  <2>1. task' = [task EXCEPT ![t] = Idle] /\ task[t].pc = "persist"
    BY <1>6 DEF Persist
  <2>2. Working(t, Idle)
    BY <1>1, <2>1, IdleWork, WorkChanges
  <2>3. Fits(t)'
    BY <2>2, Lefts DEF Fits, Working, Idle, Left
  <2> QED
    BY <2>1, <2>2, <2>3, IdleWork
<1>7. CASE Stop(t)
  <2> DEFINE n == current[task[t].svc]
  <2>1. /\ task[t].pc = "stop" /\ task[t].of = 0 /\ AfterStop(task[t].svc) \in {"close", "configure"}
        /\ task[t].svc \notin Range(task[t].left)
        /\ AfterStop(task[t].svc) = "close" => task[t].svc = "p115"
    BY <1>1, <1>7 DEF Stop, Fits, AfterStop
  <2>2. CASE n = 0
    <3>1. GoOn(t, AfterStop(task[t].svc))
      BY <1>7, <2>2 DEF Stop
    <3> QED
      BY <1>3, <2>1, <3>1 DEF Fits, Stages
  <2>3. CASE n # 0
    <3>1. /\ n \in 1 .. Len(server) /\ server[n].svc = task[t].svc
          /\ GoOnWith(t, "join", n)
      BY <1>1, <1>7, <2>3 DEF Stop, Types, ServerTypes, Service, GoOnWith
    <3> HIDE DEF n
    <3>2. n \in Nat /\ "join" \in Stages
      BY <1>1, <3>1 DEF Stages
    <3>3. Working(t, [pc |-> "join", svc |-> task[t].svc, left |-> task[t].left,
                      of |-> n, cookie |-> task[t].cookie])
      BY <1>1, <3>1, <3>2, GoesOnWith
    <3>4. /\ Goal /\ task'[t].pc = "join" /\ task'[t].svc = task[t].svc
          /\ task'[t].left = task[t].left /\ task'[t].of = n
      BY <1>1, <1>4, <3>2, <3>3
    <3>5. n \in 1 .. Len(server') /\ server'[n].svc = server[n].svc
      BY <1>1, <1>5, <3>1 DEF Growing
    <3> QED
      BY <2>1, <3>1, <3>4, <3>5 DEF Fits
  <2> QED
    BY <2>2, <2>3
<1>8. CASE Join(t)
  <2>1. /\ task[t].pc = "join" /\ GoOnWith(t, "clear", 0)
        /\ task[t].svc \notin Range(task[t].left) /\ 0 \in Nat /\ "clear" \in Stages
    BY <1>1, <1>8 DEF Join, Fits, Stages, GoOnWith
  <2>2. Working(t, [pc |-> "clear", svc |-> task[t].svc, left |-> task[t].left,
                    of |-> 0, cookie |-> task[t].cookie])
    BY <1>1, <2>1, GoesOnWith
  <2>3. /\ Goal /\ task'[t].pc = "clear" /\ task'[t].svc = task[t].svc
        /\ task'[t].left = task[t].left /\ task'[t].of = 0
    BY <1>1, <1>4, <2>1, <2>2
  <2> QED
    BY <2>1, <2>3 DEF Fits
<1>9. CASE Clear(t)
  <2>1. /\ task[t].pc = "clear" /\ task[t].of = 0 /\ AfterStop(task[t].svc) \in {"close", "configure"}
        /\ task[t].svc \notin Range(task[t].left)
        /\ AfterStop(task[t].svc) = "close" => task[t].svc = "p115"
        /\ GoOn(t, AfterStop(task[t].svc))
    BY <1>1, <1>9 DEF Clear, Fits, AfterStop
  <2> QED
    BY <1>3, <2>1 DEF Fits, Stages
<1>10. CASE Close(t)
  <2>1. /\ task[t].pc = "close" /\ task[t].of = 0 /\ task[t].svc \notin Range(task[t].left)
        /\ GoOn(t, "configure")
    BY <1>1, <1>10 DEF Close, Fits
  <2> QED
    BY <1>3, <2>1 DEF Fits, Stages
<1>11. CASE Configure(t)
  <2>1. /\ task[t].pc = "configure" /\ task[t].of = 0 /\ task[t].svc \notin Range(task[t].left)
    BY <1>1, <1>11 DEF Configure, Fits
  <2>2. CASE ~Wanted(task[t].svc)
    BY <1>2, <1>11, <2>1, <2>2 DEF Configure
  <2>3. CASE Wanted(task[t].svc) /\ task[t].svc = "emby"
    <3>1. GoOn(t, "probe")
      BY <1>11, <2>3 DEF Configure
    <3> QED
      BY <1>3, <2>1, <2>3, <3>1 DEF Fits, Stages, Held
  <2>4. CASE Wanted(task[t].svc) /\ task[t].svc # "emby"
    <3>1. /\ GoOnFor(t, "client", config.cookie)
          /\ task[t].svc = "p115" /\ config.cookie \in Cookie /\ "client" \in Stages
      BY <1>1, <1>11, <2>4 DEF Configure, Wanted, Types, Values, Config, Stages, GoOnFor
    <3>2. Working(t, [pc |-> "client", svc |-> task[t].svc, left |-> task[t].left,
                      of |-> task[t].of, cookie |-> config.cookie])
      BY <1>1, <3>1, GoesOnFor
    <3>3. /\ Goal /\ task'[t].pc = "client" /\ task'[t].svc = task[t].svc
          /\ task'[t].left = task[t].left /\ task'[t].of = task[t].of /\ task'[t].cookie = config.cookie
      BY <1>1, <1>4, <3>1, <3>2
    <3> QED
      BY <2>1, <3>1, <3>3 DEF Fits
  <2> QED
    BY <2>2, <2>3, <2>4
<1>12. CASE MakeClient(t)
  <2> DEFINE n == Len(client) + 1
  <2>1. /\ task[t].pc = "client" /\ task[t].svc = "p115" /\ task[t].svc \notin Range(task[t].left)
        /\ GoOnWith(t, "share", n)
        /\ n \in Nat /\ "share" \in Stages
    BY <1>1, <1>12 DEF MakeClient, Fits, Stages, GoOnWith
  <2>2. n \in 1 .. Len(client')
    <3>1. wrapper' = n /\ ClientTypes'
      BY <1>12, ClientTypesHold DEF MakeClient, Next
    <3> QED
      BY <1>1, <1>5, <3>1 DEF ClientTypes
  <2> HIDE DEF n
  <2>3. Working(t, [pc |-> "share", svc |-> task[t].svc, left |-> task[t].left,
                    of |-> n, cookie |-> task[t].cookie])
    BY <1>1, <2>1, GoesOnWith
  <2>4. /\ Goal /\ task'[t].pc = "share" /\ task'[t].svc = task[t].svc
        /\ task'[t].left = task[t].left /\ task'[t].of = n
    BY <1>1, <1>4, <2>1, <2>3
  <2> QED
    BY <2>1, <2>2, <2>4 DEF Fits, Held
<1>13. CASE Share(t)
  <2>1. /\ task[t].pc = "share" /\ task[t].svc \notin Range(task[t].left) /\ GoOn(t, "probe")
        /\ task[t].of \in Held(task[t].svc)
    BY <1>1, <1>13 DEF Share, Fits
  <2> QED
    BY <1>3, <1>5, <2>1 DEF Fits, Stages
<1>14. CASE Probe(t)
  <2>1. /\ task[t].pc = "probe" /\ task[t].svc \notin Range(task[t].left)
        /\ task[t].of \in Held(task[t].svc) /\ (Done(t) \/ GoOn(t, "spawn"))
    BY <1>1, <1>14 DEF Probe, Fits
  <2> QED
    BY <1>2, <1>3, <1>5, <2>1 DEF Fits, Stages
<1>15. CASE Spawn(t)
  BY <1>2, <1>15 DEF Spawn
<1> QED
  BY <1>6, <1>7, <1>8, <1>9, <1>10, <1>11, <1>12, <1>13, <1>14, <1>15 DEF Step

LEMMA TaskTypesHold ==
    ASSUME Types, [Next]_vars
    PROVE  TaskTypes'
<1>1. task \in [Task -> Work] /\ \A t \in Task : Fits(t)
  BY DEF Types, TaskTypes
<1>2. CASE UNCHANGED task
  BY <1>1, <1>2, FitsKept DEF TaskTypes
<1>3. ASSUME NEW t \in Task, task' \in [Task -> Work], \A u \in Task : u # t => task'[u] = task[u], Fits(t)'
      PROVE  TaskTypes'
  BY <1>3, FitsKept DEF TaskTypes
<1>4. ASSUME NEW t \in Task, Request(t)
      PROVE  TaskTypes'
  BY <1>3, <1>4, RestartAsked, LoginAsked DEF Request, Asks, Working
<1>5. ASSUME NEW t \in Task, Step(t)
      PROVE  TaskTypes'
  BY <1>3, <1>5, StepWork DEF Working
<1> QED
  BY <1>2, <1>4, <1>5, WhoChangesTask

\* What main starts with: the proxy, then the redirect service.
LEMMA BootWork ==
    ASSUME Init
    PROVE  \E boot \in Task : \A t \in Task :
               /\ task[t] \in Work /\ Fits(t)
               /\ t # boot => task[t] = Idle
               /\ task[t].pc \in {"idle", "stop"}
<1>1. PICK boot \in Task :
          task = [t \in Task |-> IF t = boot THEN Restart("emby", <<"p115">>) ELSE Idle]
  BY DEF Init
<1> SUFFICES ASSUME NEW t \in Task
             PROVE  /\ task[t] \in Work /\ Fits(t)
                    /\ t # boot => task[t] = Idle
                    /\ task[t].pc \in {"idle", "stop"}
  OBVIOUS
<1>2. CASE t = boot
  <2>1. "emby" \in Service /\ <<"p115">> \in Left /\ "emby" \notin Range(<<"p115">>)
    BY DEF Service, Left, Range
  <2>2. task[t] = Restart("emby", <<"p115">>)
    BY <1>1, <1>2
  <2> QED
    BY <1>2, <2>1, <2>2, RestartWork DEF Fits
<1>3. CASE t # boot
  <2>1. task[t] = Idle /\ Range(<<>>) = {}
    BY <1>1, <1>3, Lefts DEF Left
  <2> QED
    BY <1>3, <2>1, IdleWork DEF Fits, Idle
<1> QED
  BY <1>2, <1>3

LEMMA InitTypes == Init => Types
<1> SUFFICES ASSUME Init PROVE Types
  OBVIOUS
<1>1. Values
  BY LifecycleAssumption DEF Init, Values, Config
<1>2. ClientTypes /\ ServerTypes
  BY DEF Init, ClientTypes, ServerTypes
<1>3. task \in [Task -> Work]
  <2>1. task = [t \in Task |-> task[t]]
    BY DEF Init
  <2> QED
    BY <2>1, BootWork
<1> QED
  BY <1>1, <1>2, <1>3, BootWork DEF Types, TaskTypes

LEMMA TypesHold == Types /\ [Next]_vars => Types'
  BY ValuesHold, ClientTypesHold, ServerTypesHold, TaskTypesHold DEF Types

\* What TypeOK says of the globals of main.py, of api_routes._client and of the
\* scheduler's client holds for any number of threads, requests and cookies.
THEOREM LifecycleTypes == Spec => []TypeOK
<1>1. Types => TypeOK
  <2> SUFFICES ASSUME Types PROVE TypeOK
    OBVIOUS
  <2>1. /\ Len(client) \in Nat /\ DOMAIN server = 1 .. Len(server)
        /\ \A n \in 1 .. Len(server) : server[n] \in Servers
    BY Numbers DEF Types
  <2>2. ASSUME NEW n \in DOMAIN server
        PROVE  /\ server[n].phase \in {"starting", "listening", "gone"}
               /\ server[n].leave \in BOOLEAN
               /\ server[n].client \in IF server[n].svc = "p115" THEN 1 .. Len(client) ELSE {0}
    BY <2>1 DEF Types, ServerTypes, Servers, Held
  <2>3. /\ client \in Seq([cookie : Cookie, ready : BOOLEAN, open : BOOLEAN])
        /\ {wrapper, api, scheduler} \subseteq 0 .. Len(client)
        /\ revived \subseteq 1 .. Len(client)
    BY DEF Types, ClientTypes, Clients
  <2>4. /\ current \in [Service -> 0 .. Len(server)] /\ DOMAIN task = Task
        /\ config \in Config /\ foreign \in [Service -> BOOLEAN]
        /\ asked \in 0 .. MaxEvents /\ disturbed \subseteq Service /\ unbound \subseteq Service
    BY DEF Types, Values, ServerTypes, TaskTypes
  <2>5. status \in [Service -> BOOLEAN]
    BY DEF Types, Values
  <2> QED
    BY <2>2, <2>3, <2>4, <2>5 DEF TypeOK
<1> QED
  BY InitTypes, TypesHold, <1>1, PTL DEF Spec

-----------------------------------------------------------------------------
(* One thread at most                                                       *)

LEMMA DisturbedStays ==
    ASSUME Types, [Next]_vars
    PROVE  disturbed \subseteq disturbed'
<1>1. ASSUME NEW t \in Task, Request(t)
      PROVE  disturbed \subseteq disturbed'
  BY <1>1, RestartAsked, LoginAsked DEF Request, Asks
<1>2. ASSUME NEW t \in Task, Step(t)
      PROVE  disturbed \subseteq disturbed'
  BY <1>2 DEF Step, Persist, Stop, Join, Clear, Close, Configure, MakeClient, Share, Probe, Spawn,
              world, observed
<1>3. CASE \E s \in Contested : TakePort(s) \/ FreePort(s)
  BY <1>3 DEF TakePort, FreePort, observed
<1> QED
  BY <1>1, <1>2, <1>3 DEF Next, SetEnabled, Uvicorn, Bind, BindFails, Leave, Becomes, vars, world, observed

\* A step leaves its thread with no service it did not work on before.
LEMMA StepTouches ==
    ASSUME Types, NEW t \in Task, Step(t)
    PROVE  /\ task' \in [Task -> Work] /\ \A u \in Task : u # t => task'[u] = task[u]
           /\ Touches(task'[t]) \subseteq Touches(task[t])
           /\ task[t].svc \in Touches(task[t])
<1>1. PICK v \in Work :
          /\ Working(t, v)
          /\ \/ v = Idle
             \/ v = NextWork(task[t])
             \/ v.pc # "idle" /\ v.svc = task[t].svc /\ v.left = task[t].left
  BY StepWork
<1>2. task[t].pc # "idle" /\ task[t] \in Work
  BY StepWork DEF Types, TaskTypes
<1>3. Touches(task[t]) = {task[t].svc} \union Range(task[t].left)
  BY <1>2 DEF Touches
<1>4. CASE v = Idle
  BY <1>1, <1>3, <1>4, IdleWork DEF Working
<1>5. CASE v = NextWork(task[t])
  BY <1>1, <1>2, <1>3, <1>5, NextWorks DEF Working
<1>6. CASE v.pc # "idle" /\ v.svc = task[t].svc /\ v.left = task[t].left
  BY <1>1, <1>3, <1>6 DEF Working, Touches
<1> QED
  BY <1>1, <1>4, <1>5, <1>6, <1>3

\* What a request works on is disturbed if another thread works on it.
LEMMA AskedAlone ==
    ASSUME Types, NEW t \in Task, Request(t), NEW s \in Service, s \notin disturbed',
           s \in Touches(task'[t]), NEW u \in Task
    PROVE  s \notin Touches(task[u])
<1>1. PICK v \in Work : Asks(t, v)
  BY RestartAsked, LoginAsked DEF Request
<1>2. task'[t] = v /\ s \notin Touches(v) \intersect UNION {Touches(task[w]) : w \in Task}
  BY <1>1 DEF Asks, Working
<1> QED
  BY <1>2

LEMMA OneWorkerHolds ==
    ASSUME Types, OneWorker, [Next]_vars
    PROVE  OneWorker'
<1> SUFFICES ASSUME NEW s \in Service, NEW v \in Task, NEW u \in Task, s \notin disturbed',
                    s \in Touches(task'[v]), s \in Touches(task'[u])
             PROVE  v = u
  BY DEF OneWorker
<1>1. s \notin disturbed
  BY DisturbedStays
<1>2. ASSUME s \in Touches(task[v]), s \in Touches(task[u])
      PROVE  v = u
  BY <1>1, <1>2 DEF OneWorker
<1>3. CASE UNCHANGED task
  BY <1>2, <1>3
<1>4. ASSUME NEW t \in Task, Request(t)
      PROVE  v = u
  <2>1. \A w \in Task : w # t => task'[w] = task[w]
    BY <1>4, RestartAsked, LoginAsked DEF Request, Asks, Working
  <2> QED
    BY <1>2, <1>4, <2>1, AskedAlone
<1>5. ASSUME NEW t \in Task, Step(t)
      PROVE  v = u
  BY <1>2, <1>5, StepTouches
<1> QED
  BY <1>3, <1>4, <1>5, WhoChangesTask

LEMMA InitOneWorker == Init => OneWorker
  BY BootWork, IdleWork DEF OneWorker

-----------------------------------------------------------------------------
(* The servers of a service nothing disturbed                               *)

Active == Stages \ {"idle"}

Busy == {"join", "clear", "close", "configure", "client", "share", "probe", "spawn"}

Orderly(s) ==
    /\ StartingOne(s)
    /\ ServingOne(s)
    /\ CurrentServes(s)
    /\ \A t \in Task : Restarting(t, s)

\* Nothing happens to the servers and the port of s.
Untouched(s) ==
    /\ s \in unbound' <=> s \in unbound
    /\ current'[s] = current[s] /\ (status'[s] <=> status[s]) /\ (foreign'[s] <=> foreign[s])
    /\ \A n \in 1 .. Len(server') :
          server'[n].svc = s => n \in 1 .. Len(server) /\ server'[n] = server[n]
    /\ \A n \in 1 .. Len(server) :
          server[n].svc = s => n \in 1 .. Len(server') /\ server'[n] = server[n]

LEMMA PortsAsNumbers ==
    ASSUME Types, NEW s
    PROVE  PortTaken(s) <=> \/ foreign[s]
                            \/ \E n \in 1 .. Len(server) : server[n].svc = s /\ server[n].phase = "listening"
  BY Numbers DEF Types, PortTaken

LEMMA PortStays ==
    ASSUME Types, Types', NEW s \in Service, Untouched(s)
    PROVE  PortTaken(s)' <=> PortTaken(s)
<1>1. PortTaken(s)' <=> \/ foreign'[s]
                        \/ \E n \in 1 .. Len(server') : server'[n].svc = s /\ server'[n].phase = "listening"
  BY Numbers DEF Types, PortTaken
<1> QED
  BY <1>1, PortsAsNumbers DEF Untouched

\* A step that leaves the servers of s alone keeps them in order, when no
\* thread gets ahead with s or stops stopping it.
LEMMA Elsewhere ==
    ASSUME Types, Types', NEW s \in Service, Orderly(s), Untouched(s),
           \A t \in Task : At(t, s, Busy)' => task'[t] = task[t],
           \A t \in Task : At(t, s, {"join", "clear"}) => task'[t] = task[t]
    PROVE  Orderly(s)'
<1>1. PortTaken(s)' <=> PortTaken(s)
  BY PortStays
<1>2. StartingOne(s)'
  BY <1>1 DEF Orderly, StartingOne, Untouched
<1>3. ServingOne(s)'
  BY DEF Orderly, ServingOne, Untouched, Serving
<1>4. /\ current[s] \in 0 .. Len(server) /\ Len(server) \in Nat
      /\ current[s] # 0 => server[current[s]].svc = s
  BY Numbers DEF Types, ServerTypes
<1>5. current[s] # 0 => server'[current[s]] = server[current[s]]
  BY <1>4 DEF Untouched
<1>6. Stopping(s) => Stopping(s)'
  BY DEF Stopping, At
<1>7. CurrentServes(s)'
  BY <1>5, <1>6 DEF Orderly, CurrentServes, Untouched, Serving
<1>8. ASSUME NEW t \in Task PROVE Restarting(t, s)'
  <2>1. Restarting(t, s) /\ (At(t, s, Busy)' => task'[t] = task[t])
    BY DEF Orderly
  <2>2. CASE ~At(t, s, Busy)'
    BY <2>2 DEF Restarting, At, Busy
  <2>3. CASE At(t, s, Busy)'
    BY <1>1, <1>5, <2>1, <2>3 DEF Restarting, At, Untouched
  <2> QED
    BY <2>2, <2>3
<1> QED
  BY <1>2, <1>3, <1>7, <1>8 DEF Orderly

\* Nobody else works on what a thread works on.
LEMMA Sole ==
    ASSUME Types, OneWorker, [Next]_vars, NEW t \in Task, Step(t),
           NEW s \in Service \ disturbed, task[t].svc = s
    PROVE  \A u \in Task : u # t => /\ task'[u] = task[u]
                                    /\ ~At(u, s, Active) /\ ~At(u, s, Busy)
<1>1. /\ s \in Touches(task[t]) /\ s \in Service
      /\ \A u \in Task : u # t => task'[u] = task[u]
  BY StepTouches
<1>2. ASSUME NEW u \in Task, u # t
      PROVE  s \notin Touches(task[u])
  BY <1>1, <1>2 DEF OneWorker
<1>3. \A u \in Task : At(u, s, Active) \/ At(u, s, Busy) => s \in Touches(task[u])
  BY DEF At, Active, Busy, Touches
<1> QED
  BY <1>1, <1>2, <1>3

\* While a restart has no server of its own, only what it starts next matters.
LEMMA NoServer ==
    ASSUME Types, Types', NEW s \in Service, Orderly(s), Untouched(s), current[s] = 0,
           NEW t \in Task, ~At(t, s, {"join", "clear", "spawn"})',
           \A u \in Task : u # t => ~At(u, s, Busy)'
    PROVE  Orderly(s)'
<1>1. PortTaken(s)' <=> PortTaken(s)
  BY PortStays
<1>2. StartingOne(s)'
  BY <1>1 DEF Orderly, StartingOne, Untouched
<1>3. ServingOne(s)'
  BY DEF Orderly, ServingOne, Untouched, Serving
<1>4. CurrentServes(s)'
  BY DEF Orderly, CurrentServes, Untouched
<1>5. ASSUME NEW u \in Task PROVE Restarting(u, s)'
  <2>1. current'[s] = 0
    BY DEF Untouched
  <2>2. ~At(u, s, {"join"})' /\ ~At(u, s, {"clear"})' /\ ~At(u, s, {"spawn"})'
    BY DEF At, Busy
  <2> QED
    BY <2>1, <2>2 DEF Restarting
<1> QED
  BY <1>2, <1>3, <1>4, <1>5 DEF Orderly

\* Where each step of a restart leaves its thread.
LEMMA Stage ==
    ASSUME Types, NEW t \in Task
    PROVE  /\ \A pc \in Stages : GoOn(t, pc) =>
                 /\ task'[t].pc = pc /\ task'[t].svc = task[t].svc
                 /\ task'[t].of = task[t].of /\ task'[t].cookie = task[t].cookie
           /\ \A pc \in Stages, of \in Nat : GoOnWith(t, pc, of) =>
                 /\ task'[t].pc = pc /\ task'[t].svc = task[t].svc
                 /\ task'[t].of = of /\ task'[t].cookie = task[t].cookie
           /\ \A pc \in Stages, k \in Cookie : GoOnFor(t, pc, k) =>
                 /\ task'[t].pc = pc /\ task'[t].svc = task[t].svc
                 /\ task'[t].of = task[t].of /\ task'[t].cookie = k
           /\ Done(t) => task'[t].pc \in {"idle", "stop"}
<1>1. TaskTypes /\ task[t] \in Work
  BY DEF Types, TaskTypes
<1>2. ASSUME NEW pc \in Stages, NEW of \in Nat, NEW k \in Cookie \union {None},
             Working(t, [pc |-> pc, svc |-> task[t].svc, left |-> task[t].left,
                         of |-> of, cookie |-> k])
      PROVE  /\ task'[t].pc = pc /\ task'[t].svc = task[t].svc
             /\ task'[t].of = of /\ task'[t].cookie = k
  <2> DEFINE v == [pc |-> pc, svc |-> task[t].svc, left |-> task[t].left, of |-> of, cookie |-> k]
  <2>1. task'[t] = v
    BY <1>2 DEF Working
  <2>2. v.pc = pc /\ v.svc = task[t].svc /\ v.of = of /\ v.cookie = k
    OBVIOUS
  <2> HIDE DEF v
  <2> QED
    BY <2>1, <2>2
<1>3. task[t].of \in Nat /\ task[t].cookie \in Cookie \union {None}
  BY <1>1 DEF Work
<1>4. /\ \A pc \in Stages : GoOn(t, pc) =>
           /\ task'[t].pc = pc /\ task'[t].svc = task[t].svc
           /\ task'[t].of = task[t].of /\ task'[t].cookie = task[t].cookie
      /\ \A pc \in Stages, of \in Nat : GoOnWith(t, pc, of) =>
           /\ task'[t].pc = pc /\ task'[t].svc = task[t].svc
           /\ task'[t].of = of /\ task'[t].cookie = task[t].cookie
      /\ \A pc \in Stages, k \in Cookie : GoOnFor(t, pc, k) =>
           /\ task'[t].pc = pc /\ task'[t].svc = task[t].svc
           /\ task'[t].of = task[t].of /\ task'[t].cookie = k
  <2>1. ASSUME NEW pc \in Stages, GoOn(t, pc)
        PROVE  /\ task'[t].pc = pc /\ task'[t].svc = task[t].svc
               /\ task'[t].of = task[t].of /\ task'[t].cookie = task[t].cookie
    <3>1. Working(t, [pc |-> pc, svc |-> task[t].svc, left |-> task[t].left,
                      of |-> task[t].of, cookie |-> task[t].cookie])
      BY <1>1, <2>1, GoesOn
    <3> QED
      BY <1>2, <1>3, <3>1
  <2>2. ASSUME NEW pc \in Stages, NEW of \in Nat, GoOnWith(t, pc, of)
        PROVE  /\ task'[t].pc = pc /\ task'[t].svc = task[t].svc
               /\ task'[t].of = of /\ task'[t].cookie = task[t].cookie
    <3>1. Working(t, [pc |-> pc, svc |-> task[t].svc, left |-> task[t].left,
                      of |-> of, cookie |-> task[t].cookie])
      BY <1>1, <2>2, GoesOnWith
    <3> QED
      BY <1>2, <1>3, <3>1
  <2>3. ASSUME NEW pc \in Stages, NEW k \in Cookie, GoOnFor(t, pc, k)
        PROVE  /\ task'[t].pc = pc /\ task'[t].svc = task[t].svc
               /\ task'[t].of = task[t].of /\ task'[t].cookie = k
    <3>1. Working(t, [pc |-> pc, svc |-> task[t].svc, left |-> task[t].left,
                      of |-> task[t].of, cookie |-> k])
      BY <1>1, <2>3, GoesOnFor
    <3> QED
      BY <1>2, <1>3, <3>1
  <2> QED
    BY <2>1, <2>2, <2>3
<1>5. Done(t) => task'[t].pc \in {"idle", "stop"}
  BY <1>1, IsDone, NextWorks DEF Working
<1> QED
  BY <1>4, <1>5

\* The server of the service is told to leave.
LEMMA StopOrderly ==
    ASSUME Types, Types', NEW t \in Task, Stop(t), NEW s \in Service, task[t].svc = s, Orderly(s),
           \A u \in Task : u # t => task'[u] = task[u] /\ ~At(u, s, Busy)
    PROVE  Orderly(s)'
<1> DEFINE n == current[s]
<1>1. /\ s \in Service /\ task[t].pc = "stop" /\ foreign' = foreign /\ status' = status
      /\ current' = current /\ unbound' = unbound
  BY DEF Stop, Types, TaskTypes, Work, world
<1>2. CASE n = 0
  <2>1. server' = server /\ GoOn(t, AfterStop(s)) /\ AfterStop(s) \in {"close", "configure"}
    BY <1>2 DEF Stop, AfterStop
  <2>2. task'[t].pc \in {"close", "configure"}
    BY <2>1, Stage DEF Stages
  <2>3. Untouched(s)
    BY <1>1, <2>1, Numbers DEF Untouched, Types
  <2>4. ~At(t, s, {"join", "clear", "spawn"})'
    BY <2>2 DEF At
  <2>5. \A u \in Task : u # t => ~At(u, s, Busy)'
    BY DEF At
  <2> QED
    BY <1>1, <1>2, <2>3, <2>4, <2>5, NoServer
<1>3. CASE n # 0
  <2>1. /\ n \in 1 .. Len(server) /\ Len(server') = Len(server) /\ Len(server) \in Nat
        /\ server'[n].svc = server[n].svc /\ server'[n].phase = server[n].phase /\ server'[n].leave
        /\ \A m \in 1 .. Len(server) : m # n => server'[m] = server[m]
    BY <1>3, StopTells, Numbers DEF Types
  <2>2. GoOnWith(t, "join", n) /\ n \in Nat /\ "join" \in Stages
    BY <1>3, <2>1 DEF Stop, GoOnWith, Stages
  <2>3. task'[t].pc = "join" /\ task'[t].svc = s /\ task'[t].of = n
    BY <2>2, Stage
  <2> HIDE DEF n
  <2>4. PortTaken(s)' <=> PortTaken(s)
    <3>1. PortTaken(s)' <=> \/ foreign'[s]
                            \/ \E m \in 1 .. Len(server') : server'[m].svc = s /\ server'[m].phase = "listening"
      BY Numbers DEF Types, PortTaken
    <3> QED
      BY <1>1, <2>1, <3>1, PortsAsNumbers
  <2>5. StartingOne(s)'
    BY <1>1, <2>1, <2>4 DEF Orderly, StartingOne
  <2>6. ServingOne(s)'
    BY <1>1, <2>1 DEF Orderly, ServingOne, Serving
  <2>7. CurrentServes(s)'
    BY <1>1, <2>3 DEF Orderly, CurrentServes, Stopping, At
  <2>8. ASSUME NEW u \in Task PROVE Restarting(u, s)'
    <3>1. CASE u = t
      <4>1. At(u, s, {"join"})' => task'[u].of = current'[s] /\ current'[s] # 0 /\ server'[current'[s]].leave
        BY <1>1, <1>3, <2>1, <2>3, <3>1 DEF n
      <4>2. ~At(u, s, {"clear", "close", "configure", "client", "share", "probe", "spawn"})'
        BY <2>3, <3>1 DEF At
      <4> QED
        BY <4>1, <4>2 DEF Restarting, At
    <3>2. CASE u # t
      BY <3>2 DEF Restarting, At, Busy
    <3> QED
      BY <3>1, <3>2
  <2> QED
    BY <2>5, <2>6, <2>7, <2>8 DEF Orderly
<1> QED
  BY <1>2, <1>3

\* The restart goes on once the server is past its startup, or disturbs it.
LEMMA JoinOrderly ==
    ASSUME Types, Types', NEW t \in Task, Join(t), NEW s \in Service, task[t].svc = s, Orderly(s), s \notin disturbed',
           \A u \in Task : u # t => task'[u] = task[u] /\ ~At(u, s, Busy)
    PROVE  Orderly(s)'
<1>1. /\ s \in Service /\ task[t].pc = "join" /\ foreign' = foreign /\ status' = status
      /\ current' = current /\ server' = server /\ unbound' = unbound
      /\ GoOnWith(t, "clear", 0) /\ "clear" \in Stages
  BY DEF Join, Types, TaskTypes, Work, servers, GoOnWith, Stages
<1>2. task'[t].pc = "clear" /\ task'[t].svc = s
  BY <1>1, Stage
<1>3. task[t].of = current[s] /\ current[s] # 0 /\ server[current[s]].leave
  BY <1>1 DEF Orderly, Restarting, At
<1>4. server[current[s]].phase # "starting"
  <2>1. disturbed' = disturbed \union {r \in {s} : server[task[t].of].phase = "starting"}
    BY DEF Join
  <2> QED
    BY <1>3, <2>1
<1>5. PortTaken(s)' <=> PortTaken(s)
  BY <1>1 DEF PortTaken
<1>6. StartingOne(s)' /\ ServingOne(s)'
  BY <1>1, <1>5 DEF Orderly, StartingOne, ServingOne, Serving
<1>7. CurrentServes(s)'
  BY <1>1, <1>2 DEF Orderly, CurrentServes, Stopping, At
<1>8. ASSUME NEW u \in Task PROVE Restarting(u, s)'
  <2>1. CASE u = t
    BY <1>1, <1>2, <1>3, <1>4, <2>1 DEF Restarting, At
  <2>2. CASE u # t
    BY <2>2 DEF Restarting, At, Busy
  <2> QED
    BY <2>1, <2>2
<1> QED
  BY <1>6, <1>7, <1>8 DEF Orderly

\* Once the server is let go, nothing of the service serves or starts.
LEMMA ClearOrderly ==
    ASSUME Types, Types', NEW t \in Task, Clear(t), NEW s \in Service, task[t].svc = s, Orderly(s),
           \A u \in Task : u # t => task'[u] = task[u] /\ ~At(u, s, Busy)
    PROVE  Orderly(s)'
<1>1. /\ s \in Service /\ task[t].pc = "clear" /\ foreign' = foreign /\ server' = server
      /\ unbound' = unbound
      /\ current' = [current EXCEPT ![s] = 0] /\ status' = [status EXCEPT ![s] = FALSE]
      /\ GoOn(t, AfterStop(s)) /\ AfterStop(s) \in {"close", "configure"}
      /\ current \in [Service -> 0 .. Len(server)] /\ status \in [Service -> BOOLEAN]
  BY DEF Clear, Types, Values, ServerTypes, TaskTypes, Work, world, AfterStop
<1>2. task'[t].pc \in {"close", "configure"}
  BY <1>1, Stage DEF Stages
<1>3. current[s] # 0 /\ server[current[s]].leave /\ server[current[s]].phase # "starting"
  BY <1>1 DEF Orderly, Restarting, At
<1>4. current'[s] = 0 /\ ~status'[s]
  BY <1>1
<1>5. StartingOne(s)' /\ ServingOne(s)'
  BY <1>1, <1>3 DEF Orderly, StartingOne, ServingOne, Serving
<1>6. CurrentServes(s)'
  BY <1>4 DEF CurrentServes
<1>7. ASSUME NEW u \in Task PROVE Restarting(u, s)'
  <2>1. CASE u = t
    BY <1>2, <1>4, <2>1 DEF Restarting, At
  <2>2. CASE u # t
    BY <2>2 DEF Restarting, At, Busy
  <2> QED
    BY <2>1, <2>2
<1> QED
  BY <1>5, <1>6, <1>7 DEF Orderly

\* From the look at the port the thread goes on with one that is free, or that
\* is noted as not to be bound.
LEMMA ProbeOrderly ==
    ASSUME Types, Types', NEW t \in Task, Probe(t), NEW s \in Service, task[t].svc = s, Orderly(s),
           \A u \in Task : u # t => task'[u] = task[u] /\ ~At(u, s, Busy)
    PROVE  Orderly(s)'
<1>1. /\ task[t].pc = "probe" /\ foreign' = foreign /\ server' = server /\ current' = current
      /\ status \in [Service -> BOOLEAN]
  BY DEF Probe, Types, Values, world
<1>2. current[s] = 0 /\ ~status[s]
  <2>1. current[s] = 0
    BY <1>1 DEF Orderly, Restarting, At
  <2> QED
    BY <2>1 DEF Orderly, CurrentServes
<1>3. \/ /\ status' = [status EXCEPT ![s] = FALSE] /\ Done(t) /\ unbound' = unbound
      \/ /\ status' = status /\ GoOn(t, "spawn")
         /\ unbound' = IF PortTaken(s) THEN unbound \union {s} ELSE unbound \ {s}
  BY DEF Probe
<1>4. CASE /\ status' = [status EXCEPT ![s] = FALSE] /\ Done(t) /\ unbound' = unbound
  <2>1. task'[t].pc \in {"idle", "stop"}
    BY <1>4, Stage
  <2>2. ~At(t, s, {"join", "clear", "spawn"})' /\ \A u \in Task : u # t => ~At(u, s, Busy)'
    BY <2>1 DEF At
  <2>3. status'[s] <=> status[s]
    BY <1>1, <1>2, <1>4
  <2>4. Untouched(s)
    BY <1>1, <1>4, <2>3, Numbers DEF Untouched, Types
  <2> QED
    BY <1>2, <2>2, <2>4, NoServer
<1>5. CASE /\ status' = status /\ GoOn(t, "spawn")
           /\ unbound' = IF PortTaken(s) THEN unbound \union {s} ELSE unbound \ {s}
  <2>1. "spawn" \in Stages
    BY DEF Stages
  <2>2. task'[t].pc = "spawn" /\ task'[t].svc = s
    BY <1>5, <2>1, Stage
  <2>3. (PortTaken(s)' <=> PortTaken(s)) /\ (s \in unbound' \/ ~PortTaken(s))
    BY <1>1, <1>5 DEF PortTaken
  <2>4. StartingOne(s)'
    <3>1. ASSUME NEW n \in 1 .. Len(server), server[n].svc = s, server[n].phase = "starting"
          PROVE  FALSE
      BY <1>2, <3>1 DEF Orderly, StartingOne
    <3> QED
      BY <1>1, <3>1 DEF StartingOne
  <2>5. ServingOne(s)'
    BY <1>1 DEF Orderly, ServingOne, Serving
  <2>6. CurrentServes(s)'
    BY <1>1, <1>2, <1>5 DEF CurrentServes
  <2>7. ASSUME NEW u \in Task PROVE Restarting(u, s)'
    <3>1. CASE u = t
      BY <1>1, <1>2, <2>2, <2>3, <3>1 DEF Restarting, At
    <3>2. CASE u # t
      BY <3>2 DEF Restarting, At, Busy
    <3> QED
      BY <3>1, <3>2
  <2> QED
    BY <2>4, <2>5, <2>6, <2>7 DEF Orderly
<1> QED
  BY <1>3, <1>4, <1>5

\* The new server is the one that starts, with the port still free unless the
\* probe missed it.
LEMMA SpawnOrderly ==
    ASSUME Types, Types', NEW t \in Task, Spawn(t), NEW s \in Service, task[t].svc = s, Orderly(s),
           \A u \in Task : u # t => task'[u] = task[u] /\ ~At(u, s, Busy)
    PROVE  Orderly(s)'
<1> DEFINE v == [svc |-> task[t].svc, phase |-> "starting", leave |-> FALSE, client |-> task[t].of]
           k == Len(server) + 1
<1>1. /\ v \in Servers /\ server' = Append(server, v)
      /\ current' = [current EXCEPT ![s] = k] /\ status' = [status EXCEPT ![s] = TRUE]
      /\ Done(t) /\ task[t].pc = "spawn" /\ foreign' = foreign /\ unbound' = unbound
      /\ server \in Seq(Servers) /\ Len(server) \in Nat
      /\ current \in [Service -> 0 .. Len(server)] /\ status \in [Service -> BOOLEAN]
  BY Spawns, Numbers DEF Spawn, world, Types, Values, ServerTypes
<1>2. v.svc = s /\ v.phase = "starting" /\ ~v.leave
  OBVIOUS
<1> HIDE DEF v
<1>3. /\ Len(server') = k /\ server'[k] = v
      /\ \A m \in 1 .. Len(server) : server'[m] = server[m]
  BY <1>1, OneMore
<1>4. current'[s] = k /\ status'[s]
  BY <1>1
<1>5. current[s] = 0 /\ (s \in unbound \/ ~PortTaken(s))
  BY <1>1 DEF Orderly, Restarting, At
<1>6. PortTaken(s)' => PortTaken(s)
  <2>1. PortTaken(s)' <=> \/ foreign'[s]
                          \/ \E m \in 1 .. Len(server') : server'[m].svc = s /\ server'[m].phase = "listening"
    BY Numbers DEF Types, PortTaken
  <2> QED
    BY <1>1, <1>2, <1>3, <2>1, PortsAsNumbers
<1>7. StartingOne(s)' /\ ServingOne(s)'
  <2>1. ASSUME NEW m \in 1 .. k, m # k, server'[m].svc = s
        PROVE  server'[m].phase # "starting" /\ ~Serving(m)'
    <3>1. m \in 1 .. Len(server) /\ server'[m] = server[m]
      BY <1>1, <1>3, <2>1
    <3> QED
      BY <1>5, <2>1, <3>1 DEF Orderly, StartingOne, ServingOne, Serving
  <2> QED
    BY <1>1, <1>3, <1>4, <1>5, <1>6, <2>1 DEF StartingOne, ServingOne
<1>8. CurrentServes(s)'
  BY <1>1, <1>2, <1>3, <1>4 DEF CurrentServes, Serving
<1>9. ASSUME NEW u \in Task PROVE Restarting(u, s)'
  <2>1. CASE u = t
    <3>1. task'[t].pc \in {"idle", "stop"}
      BY <1>1, Stage
    <3> QED
      BY <2>1, <3>1 DEF Restarting, At
  <2>2. CASE u # t
    BY <2>2 DEF Restarting, At, Busy
  <2> QED
    BY <2>1, <2>2
<1> QED
  BY <1>7, <1>8, <1>9 DEF Orderly

\* A server of s changes its phase: the one that starts binds the port that
\* nobody has, one that was told to leave gives it up, or the bind fails and
\* the service is noted as not to be bound.
LEMMA UvicornOrderly ==
    ASSUME Types, Types', NEW n \in 1 .. Len(server), Bind(n) \/ BindFails(n) \/ Leave(n),
           NEW s \in Service, server[n].svc = s, Orderly(s)
    PROVE  Orderly(s)'
<1>1. /\ server \in Seq(Servers) /\ Len(server) \in Nat /\ server[n].leave \in BOOLEAN
      /\ current' = current /\ status' = status /\ foreign' = foreign /\ task' = task
  BY Numbers DEF Types, ServerTypes, Bind, BindFails, Leave, Becomes, world, Servers
<1>2. PICK phase \in {"listening", "gone"} :
          /\ server' = [server EXCEPT ![n].phase = phase]
          /\ phase = "listening" =>
                server[n].phase = "starting" /\ ~server[n].leave /\ ~PortTaken(server[n].svc)
          /\ phase = "gone" => server[n].phase = "starting" \/ server[n].leave
          /\ phase = "gone" /\ server[n].phase = "starting" =>
                server[n].leave \/ PortTaken(server[n].svc) \/ s \in unbound'
          /\ unbound' = unbound \/ unbound' = unbound \union {s}
  BY DEF Bind, BindFails, Leave, Becomes
<1>3. /\ Len(server') = Len(server)
      /\ server'[n].svc = s /\ server'[n].phase = phase /\ (server'[n].leave <=> server[n].leave)
      /\ \A m \in 1 .. Len(server) : m # n => server'[m] = server[m]
  BY <1>1, <1>2, ServerBecomes
<1>0. s \in unbound => s \in unbound'
  BY <1>2
<1>4. server[n].phase = "starting" => n = current[s] /\ (s \in unbound \/ ~PortTaken(s))
  BY DEF Orderly, StartingOne
<1>5. phase = "gone" => server[n].leave \/ s \in unbound'
  BY <1>0, <1>2, <1>4
<1>6. PortTaken(s)' => PortTaken(s) \/ phase = "listening"
  <2>1. PortTaken(s)' <=> \/ foreign'[s]
                          \/ \E m \in 1 .. Len(server') : server'[m].svc = s /\ server'[m].phase = "listening"
    BY Numbers DEF Types, PortTaken
  <2> QED
    BY <1>1, <1>2, <1>3, <2>1, PortsAsNumbers
<1>7. StartingOne(s)'
  <2>1. ASSUME NEW m \in 1 .. Len(server), server'[m].svc = s, server'[m].phase = "starting"
        PROVE  m = current[s] /\ (s \in unbound \/ ~PortTaken(s)) /\ phase # "listening"
    <3>1. m # n /\ server'[m] = server[m]
      BY <1>2, <1>3, <2>1
    <3>2. m = current[s] /\ (s \in unbound \/ ~PortTaken(s))
      BY <2>1, <3>1 DEF Orderly, StartingOne
    <3> QED
      BY <1>2, <1>4, <3>1, <3>2
  <2> QED
    BY <1>0, <1>1, <1>3, <1>6, <2>1 DEF StartingOne
<1>8. ServingOne(s)'
  <2>1. ASSUME NEW m \in 1 .. Len(server), server'[m].svc = s, Serving(m)'
        PROVE  m = current[s]
    BY <1>2, <1>3, <1>4, <2>1 DEF Orderly, ServingOne, Serving
  <2> QED
    BY <1>1, <1>3, <2>1 DEF ServingOne
<1>9. CurrentServes(s)'
  <2>1. Stopping(s)' <=> Stopping(s)
    BY <1>1 DEF Stopping, At
  <2>2. current[s] # 0 /\ ~Stopping(s) /\ s \notin unbound => Serving(current[s])
    BY DEF Orderly, CurrentServes
  <2>3. current[s] \in 0 .. Len(server)
    BY DEF Types, ServerTypes
  <2>4. current[s] # 0 /\ ~Stopping(s) /\ s \notin unbound' => Serving(current[s])'
    BY <1>0, <1>1, <1>2, <1>3, <1>5, <2>2, <2>3 DEF Serving
  <2> QED
    BY <1>1, <2>1, <2>4 DEF Orderly, CurrentServes
<1>10. ASSUME NEW u \in Task PROVE Restarting(u, s)'
  <2>1. Restarting(u, s) /\ task'[u] = task[u] /\ current[s] \in 0 .. Len(server)
    BY <1>1 DEF Orderly, Types, ServerTypes
  <2>2. At(u, s, {"spawn"}) => phase # "listening"
    BY <1>2, <1>4, <2>1 DEF Restarting, At
  <2>3. current[s] # 0 => /\ server[current[s]].leave => server'[current[s]].leave
                          /\ server[current[s]].phase # "starting" => server'[current[s]].phase # "starting"
    BY <1>2, <1>3, <2>1
  <2> QED
    BY <1>0, <1>1, <1>6, <2>1, <2>2, <2>3 DEF Restarting, At
<1> QED
  BY <1>7, <1>8, <1>9, <1>10 DEF Orderly

\* Another program takes a port nobody waits for, or gives it back.
LEMMA PortOrderly ==
    ASSUME Types, Types', NEW s \in Service, TakePort(s) \/ FreePort(s), s \notin disturbed', Orderly(s)
    PROVE  Orderly(s)'
<1>1. /\ server' = server /\ current' = current /\ status' = status /\ task' = task
      /\ unbound' = unbound /\ foreign \in [Service -> BOOLEAN] /\ DOMAIN server = 1 .. Len(server)
  BY Numbers DEF TakePort, FreePort, servers, Types, Values
<1>2. PortTaken(s)' =>
          \/ PortTaken(s)
          \/ /\ ~\E n \in 1 .. Len(server) : server[n].svc = s /\ server[n].phase = "starting"
             /\ ~\E t \in Task : At(t, s, {"spawn"})
  BY <1>1 DEF TakePort, FreePort, PortTaken, At
<1>3. StartingOne(s)' /\ ServingOne(s)'
  BY <1>1, <1>2 DEF Orderly, StartingOne, ServingOne, Serving
<1>4. CurrentServes(s)'
  BY <1>1 DEF Orderly, CurrentServes, Stopping, At, Serving
<1>5. ASSUME NEW t \in Task PROVE Restarting(t, s)'
  BY <1>1, <1>2 DEF Orderly, Restarting, At
<1> QED
  BY <1>3, <1>4, <1>5 DEF Orderly

\* A step of a restart keeps the servers of the service it is about in order.
LEMMA OwnStepOrderly ==
    ASSUME Types, Types', NEW t \in Task, Step(t), NEW s \in Service, task[t].svc = s, Orderly(s),
           s \notin disturbed',
           \A u \in Task : u # t => task'[u] = task[u] /\ ~At(u, s, Busy)
    PROVE  Orderly(s)'
<1>1. ASSUME server' = server, current' = current, status' = status, foreign' = foreign,
             unbound' = unbound, current[s] = 0, ~At(t, s, {"join", "clear", "spawn"})'
      PROVE  Orderly(s)'
  <2>1. Untouched(s)
    BY <1>1, Numbers DEF Untouched, Types
  <2>2. \A u \in Task : u # t => ~At(u, s, Busy)'
    BY DEF At
  <2> QED
    BY <1>1, <2>1, <2>2, NoServer
<1>2. At(t, s, {"close", "configure", "client", "share"}) => current[s] = 0
  BY DEF Orderly, Restarting, At
<1>3. CASE Persist(t)
  <2>1. /\ server' = server /\ current' = current /\ status' = status /\ unbound' = unbound
        /\ foreign' = foreign /\ task[t].pc = "persist"
    BY <1>3 DEF Persist, servers
  <2>2. task'[t] = Idle
    BY <1>3 DEF Persist, Types, TaskTypes
  <2>3. Untouched(s)
    BY <2>1, Numbers DEF Untouched, Types
  <2>4. \A u \in Task : At(u, s, Busy)' => task'[u] = task[u]
    BY <2>2 DEF At, Busy, Idle
  <2>5. \A u \in Task : At(u, s, {"join", "clear"}) => task'[u] = task[u]
    BY <2>1 DEF At
  <2> QED
    BY <2>3, <2>4, <2>5, Elsewhere
<1>4. CASE Close(t)
  <2>1. GoOn(t, "configure") /\ task[t].pc = "close" /\ "configure" \in Stages
    BY <1>4 DEF Close, Stages
  <2>2. task'[t].pc = "configure"
    BY <2>1, Stage
  <2> QED
    BY <1>1, <1>2, <1>4, <2>1, <2>2 DEF Close, servers, world, At
<1>5. CASE Configure(t)
  <2>1. task[t].pc = "configure" /\ task'[t].pc \in {"idle", "stop", "probe", "client"}
    <3>1. Done(t) \/ GoOn(t, "probe") \/ GoOnFor(t, "client", config.cookie)
      BY <1>5 DEF Configure, GoOnFor
    <3>2. GoOnFor(t, "client", config.cookie) => task'[t].pc = "client"
      BY DEF GoOnFor, Types, TaskTypes, Work
    <3>3. "probe" \in Stages
      BY DEF Stages
    <3> QED
      BY <1>5, <3>1, <3>2, <3>3, Stage DEF Configure
  <2> QED
    BY <1>1, <1>2, <1>5, <2>1 DEF Configure, servers, world, At
<1>6. CASE MakeClient(t)
  <2>1. task[t].pc = "client" /\ GoOnWith(t, "share", Len(client) + 1) /\ "share" \in Stages
        /\ Len(client) + 1 \in Nat
    BY <1>6, Numbers DEF MakeClient, GoOnWith, Stages, Types
  <2>2. task'[t].pc = "share"
    BY <2>1, Stage
  <2> QED
    BY <1>1, <1>2, <1>6, <2>1, <2>2 DEF MakeClient, servers, world, At
<1>7. CASE Share(t)
  <2>1. task[t].pc = "share" /\ GoOn(t, "probe") /\ "probe" \in Stages
    BY <1>7 DEF Share, Stages
  <2>2. task'[t].pc = "probe"
    BY <2>1, Stage
  <2> QED
    BY <1>1, <1>2, <1>7, <2>1, <2>2 DEF Share, servers, world, At
<1> QED
  BY <1>3, <1>4, <1>5, <1>6, <1>7, StopOrderly, JoinOrderly, ClearOrderly, ProbeOrderly, SpawnOrderly DEF Step

\* A step of a restart of another service does not touch the servers of s, and
\* leaves its thread at the most with s to stop next.
LEMMA OtherStep ==
    ASSUME Types, Types', [Next]_vars, NEW t \in Task, Step(t), NEW s \in Service, task[t].svc # s
    PROVE  /\ Untouched(s)
           /\ \A u \in Task : u # t => task'[u] = task[u]
           /\ ~At(t, s, {"persist"} \union Busy)'
<1>0. /\ Len(server) \in Nat /\ current \in [Service -> 0 .. Len(server)]
      /\ status \in [Service -> BOOLEAN] /\ task[t].svc \in Service
      /\ \A r \in Service : current[r] # 0 => server[current[r]].svc = r
  BY Numbers DEF Types, Values, ServerTypes, TaskTypes, Work
<1>1. foreign' = foreign
  BY DEF Step, Persist, Stop, Join, Clear, Close, Configure, MakeClient, Share, Probe, Spawn, world
<1>2. ASSUME server' = server, current' = current, status' = status, unbound' = unbound
      PROVE  Untouched(s)
  BY <1>1, <1>2, Numbers DEF Untouched, Types
<1>3. ASSUME Stop(t)
      PROVE  Untouched(s)
  <2> DEFINE n == current[task[t].svc]
  <2>1. CASE n = 0
    BY <1>2, <1>3, <2>1 DEF Stop
  <2>2. CASE n # 0
    <3>1. /\ n \in 1 .. Len(server) /\ current' = current /\ Len(server') = Len(server)
          /\ server'[n].svc = server[n].svc /\ status' = status /\ unbound' = unbound
          /\ \A m \in 1 .. Len(server) : m # n => server'[m] = server[m]
      BY <1>3, <2>2, StopTells DEF Stop
    <3>2. server[n].svc # s
      BY <1>0, <2>2
    <3> HIDE DEF n
    <3> QED
      BY <1>0, <1>1, <3>1, <3>2 DEF Untouched
  <2> QED
    BY <2>1, <2>2
<1>4. ASSUME Clear(t)
      PROVE  Untouched(s)
  <2>1. /\ server' = server /\ current' = [current EXCEPT ![task[t].svc] = 0]
        /\ status' = [status EXCEPT ![task[t].svc] = FALSE] /\ unbound' = unbound
    BY <1>4 DEF Clear
  <2>2. current'[s] = current[s] /\ (status'[s] <=> status[s])
    BY <1>0, <2>1
  <2> QED
    BY <1>1, <2>1, <2>2, Numbers DEF Untouched, Types
<1>5. ASSUME Probe(t)
      PROVE  Untouched(s)
  <2>1. /\ server' = server /\ current' = current
        /\ status' = [status EXCEPT ![task[t].svc] = FALSE] \/ status' = status
        /\ \/ unbound' = unbound
           \/ unbound' = unbound \union {task[t].svc}
           \/ unbound' = unbound \ {task[t].svc}
    BY <1>5 DEF Probe
  <2>2. status'[s] <=> status[s]
    BY <1>0, <2>1
  <2>3. s \in unbound' <=> s \in unbound
    BY <2>1
  <2> QED
    BY <1>1, <2>1, <2>2, <2>3, Numbers DEF Untouched, Types
<1>6. ASSUME Spawn(t)
      PROVE  Untouched(s)
  <2> DEFINE v == [svc |-> task[t].svc, phase |-> "starting", leave |-> FALSE, client |-> task[t].of]
  <2>1. /\ v \in Servers /\ server' = Append(server, v) /\ server \in Seq(Servers)
        /\ current' = [current EXCEPT ![task[t].svc] = Len(server) + 1]
        /\ status' = [status EXCEPT ![task[t].svc] = TRUE] /\ unbound' = unbound
    BY <1>6, Spawns DEF Types, ServerTypes, Spawn
  <2>2. v.svc = task[t].svc
    OBVIOUS
  <2> HIDE DEF v
  <2>3. /\ Len(server') = Len(server) + 1 /\ server'[Len(server) + 1] = v
        /\ \A m \in 1 .. Len(server) : server'[m] = server[m]
    BY <2>1, OneMore
  <2>4. current'[s] = current[s] /\ (status'[s] <=> status[s])
    BY <1>0, <2>1
  <2> QED
    BY <1>0, <1>1, <2>1, <2>2, <2>3, <2>4 DEF Untouched
<1>7. ASSUME Persist(t) \/ Join(t) \/ Close(t) \/ Configure(t) \/ MakeClient(t) \/ Share(t)
      PROVE  Untouched(s)
  BY <1>2, <1>7 DEF Persist, Join, Close, Configure, MakeClient, Share, servers
<1>8. Untouched(s)
  BY <1>3, <1>4, <1>5, <1>6, <1>7 DEF Step
<1>9. /\ task' \in [Task -> Work] /\ \A u \in Task : u # t => task'[u] = task[u]
  BY StepTouches
<1>10. ~At(t, s, {"persist"} \union Busy)'
  <2>1. PICK v \in Work :
          /\ Working(t, v)
          /\ \/ v = Idle
             \/ v = NextWork(task[t])
             \/ v.pc # "idle" /\ v.svc = task[t].svc /\ v.left = task[t].left
    BY StepWork
  <2>2. v.pc \in {"idle", "stop"} \/ v.svc # s
    BY <2>1, NextWorks, IdleWork DEF Types, TaskTypes
  <2> QED
    BY <2>1, <2>2 DEF Working, At, Busy
<1> QED
  BY <1>8, <1>9, <1>10

LEMMA OtherStepOrderly ==
    ASSUME Types, Types', [Next]_vars, NEW t \in Task, Step(t), NEW s \in Service, task[t].svc # s, Orderly(s)
    PROVE  Orderly(s)'
<1>1. /\ Untouched(s) /\ \A u \in Task : u # t => task'[u] = task[u]
      /\ ~At(t, s, {"persist"} \union Busy)'
  BY OtherStep
<1>2. \A u \in Task : At(u, s, Busy)' => task'[u] = task[u]
  BY <1>1 DEF At
<1>3. \A u \in Task : At(u, s, {"join", "clear"}) => task'[u] = task[u]
  BY <1>1 DEF At
<1> QED
  BY <1>1, <1>2, <1>3, Elsewhere

LEMMA ServiceInvHolds ==
    ASSUME Types, Types', OneWorker, ServiceInv, [Next]_vars
    PROVE  ServiceInv'
<1> SUFFICES ASSUME NEW s \in Service, s \notin disturbed'
             PROVE  Orderly(s)'
  BY DEF ServiceInv, Orderly
<1>1. s \notin disturbed /\ Orderly(s)
  <2>1. s \notin disturbed
    BY DisturbedStays
  <2> QED
    BY <2>1 DEF ServiceInv, Orderly
<1>2. ASSUME UNCHANGED servers, foreign' = foreign
      PROVE  Untouched(s)
  BY <1>2, Numbers DEF Untouched, servers, Types
<1>3. ASSUME UNCHANGED servers, foreign' = foreign, task' = task
      PROVE  Orderly(s)'
  BY <1>1, <1>2, <1>3, Elsewhere
<1>4. CASE SetEnabled
  BY <1>3, <1>4 DEF SetEnabled, Accept
<1>5. ASSUME NEW t \in Task, Request(t)
      PROVE  Orderly(s)'
  <2>1. UNCHANGED servers /\ foreign' = foreign
    BY <1>5 DEF Request, SetCookie, RestartEmby, Restore, QrLogin, Take, Accept
  <2>2. PICK v \in Work : Asks(t, v) /\ v.pc \in {"stop", "persist"}
    BY <1>5, RestartAsked, LoginAsked DEF Request
  <2>3. \A u \in Task : At(u, s, Busy)' => task'[u] = task[u]
    BY <2>2 DEF Asks, Working, At, Busy
  <2>4. \A u \in Task : At(u, s, {"join", "clear"}) => task'[u] = task[u]
    BY <2>2, IdleWork DEF Asks, Working, At
  <2> QED
    BY <1>1, <1>2, <2>1, <2>3, <2>4, Elsewhere
<1>6. ASSUME NEW t \in Task, Step(t)
      PROVE  Orderly(s)'
  <2>1. CASE task[t].svc = s
    <3>1. \A u \in Task : u # t => task'[u] = task[u] /\ ~At(u, s, Busy)
      BY <1>1, <1>6, <2>1, Sole
    <3> QED
      BY <1>1, <1>6, <2>1, <3>1, OwnStepOrderly
  <2>2. CASE task[t].svc # s
    BY <1>1, <1>6, <2>2, OtherStepOrderly
  <2> QED
    BY <2>1, <2>2
<1>7. ASSUME NEW n \in DOMAIN server, Bind(n) \/ BindFails(n) \/ Leave(n)
      PROVE  Orderly(s)'
  <2>1. n \in 1 .. Len(server) /\ Len(server) \in Nat /\ server \in Seq(Servers)
    BY Numbers DEF Types, ServerTypes
  <2>2. CASE server[n].svc = s
    BY <1>1, <1>7, <2>1, <2>2, UvicornOrderly
  <2>3. CASE server[n].svc # s
    <3>1. PICK phase \in {"listening", "gone"} : Becomes(n, phase)
      BY <1>7 DEF Bind, BindFails, Leave
    <3>5. s \in unbound' <=> s \in unbound
      BY <1>7, <2>3 DEF Bind, BindFails, Leave
    <3>2. /\ Len(server') = Len(server) /\ server'[n].svc # s
          /\ \A m \in 1 .. Len(server) : m # n => server'[m] = server[m]
      BY <2>1, <2>3, <3>1, ServerBecomes DEF Becomes
    <3>3. current' = current /\ status' = status /\ foreign' = foreign /\ task' = task
      BY <3>1 DEF Becomes, world
    <3>4. Untouched(s)
      BY <2>1, <2>3, <3>2, <3>3, <3>5 DEF Untouched
    <3> QED
      BY <1>1, <3>3, <3>4, Elsewhere
  <2> QED
    BY <2>2, <2>3
<1>8. ASSUME NEW r \in Contested, TakePort(r) \/ FreePort(r)
      PROVE  Orderly(s)'
  <2>1. r \in Service
    BY LifecycleAssumption DEF Service
  <2>2. CASE r = s
    BY <1>1, <1>8, <2>2, PortOrderly
  <2>3. CASE r # s
    <3>1. /\ UNCHANGED servers /\ task' = task
          /\ foreign' = [foreign EXCEPT ![r] = TRUE] \/ foreign' = [foreign EXCEPT ![r] = FALSE]
      BY <1>8 DEF TakePort, FreePort
    <3>2. foreign'[s] <=> foreign[s]
      BY <2>1, <2>3, <3>1 DEF Types, Values
    <3>3. Untouched(s)
      BY <3>1, <3>2, Numbers DEF Untouched, servers, Types
    <3> QED
      BY <1>1, <3>1, <3>3, Elsewhere
  <2> QED
    BY <2>2, <2>3
<1>9. CASE UNCHANGED vars
  BY <1>3, <1>9 DEF vars, world
<1> QED
  BY <1>4, <1>5, <1>6, <1>7, <1>8, <1>9 DEF Next, Uvicorn

LEMMA InitServiceInv == Init => ServiceInv
<1> SUFFICES ASSUME Init, NEW s \in Service PROVE Orderly(s)
  BY DEF ServiceInv, Orderly
<1>1. server = <<>> /\ Len(server) = 0 /\ current[s] = 0 /\ ~status[s]
  BY DEF Init
<1>2. \A t \in Task : task[t].pc \in {"idle", "stop"}
  BY BootWork
<1> QED
  BY <1>1, <1>2 DEF Orderly, StartingOne, ServingOne, CurrentServes, Restarting, At

LEMMA LifecycleInv == Spec => [](Types /\ OneWorker /\ ServiceInv)
<1>1. Init => Types /\ OneWorker /\ ServiceInv
  BY InitTypes, InitOneWorker, InitServiceInv
<1>2. Types /\ OneWorker /\ ServiceInv /\ [Next]_vars => (Types /\ OneWorker /\ ServiceInv)'
  BY TypesHold, OneWorkerHolds, ServiceInvHolds
<1> QED
  BY <1>1, <1>2, PTL DEF Spec

\* What the admin API says of a service is true once its restart is over and
\* nothing cut across it: nothing serves but what is said to run, with one
\* server, the one the next restart will stop; and what is said to run serves,
\* unless its bind failed for a reason that the probe of the port cannot see
\* (set_emby_status, set_p115_status, _port_in_use and the globals of main.py).
THEOREM StatusIsHonest == Spec => []StatusHonest
<1>1. Types /\ OneWorker /\ ServiceInv => StatusHonest
  <2> SUFFICES ASSUME Types, ServiceInv, NEW s \in Service, Quiet(s)
               PROVE  /\ ServingOf(s) \subseteq IF status[s] THEN {current[s]} ELSE {}
                      /\ status[s] /\ s \notin unbound => current[s] \in ServingOf(s)
    BY DEF StatusHonest
  <2>1. Orderly(s) /\ ~Stopping(s)
    <3>1. \A t \in Task : At(t, s, {"join", "clear"}) => s \in Touches(task[t])
      BY DEF At, Touches
    <3> QED
      BY <3>1 DEF ServiceInv, Orderly, Quiet, Stopping
  <2>2. /\ DOMAIN server = 1 .. Len(server) /\ Len(server) \in Nat
        /\ current[s] \in 0 .. Len(server) /\ (current[s] # 0 => server[current[s]].svc = s)
    BY Numbers DEF Types, ServerTypes
  <2>3. \A n \in ServingOf(s) : n \in 1 .. Len(server) /\ n = current[s]
    BY <2>1, <2>2 DEF Orderly, ServingOne, ServingOf
  <2>4. /\ status[s] <=> current[s] # 0
        /\ current[s] # 0 /\ s \notin unbound => Serving(current[s])
    BY <2>1 DEF Orderly, CurrentServes
  <2>5. ServingOf(s) \subseteq IF status[s] THEN {current[s]} ELSE {}
    BY <2>2, <2>3, <2>4
  <2>6. status[s] /\ s \notin unbound => current[s] \in ServingOf(s)
    BY <2>2, <2>4 DEF ServingOf
  <2> QED
    BY <2>5, <2>6
<1> QED
  BY <1>1, LifecycleInv, PTL

-----------------------------------------------------------------------------
(* The 115 client while nothing disturbed the redirect service              *)

OneAccount ==
    /\ OpenOnes
    /\ WrapperShared
    /\ WrapperCookie
    /\ WrapperServed
    /\ \A t \in Task : ClientMade(t)

\* The redirect service's server, while there is one, keeps its client.
ServerKept ==
    current'["p115"] # 0 =>
        /\ current["p115"] # 0
        /\ server'[current'["p115"]].client = server[current["p115"]].client

SameClients == UNCHANGED clients /\ UNCHANGED revived /\ config'.cookie = config.cookie

\* A step that changes neither the clients nor the saved cookie keeps one
\* account, when no thread gets ahead with the redirect service or gets done
\* with what excuses it.
LEMMA ClientElsewhere ==
    ASSUME OneAccount, SameClients, ServerKept,
           \A u \in Task : At(u, "p115", {"persist", "configure", "client", "share", "probe", "spawn"})'
                              => task'[u] = task[u],
           \A u \in Task : At(u, "p115", {"persist", "stop", "join", "clear", "close", "share"})
                              => task'[u] = task[u]
    PROVE  OneAccount'
<1>1. /\ client' = client /\ wrapper' = wrapper /\ api' = api /\ scheduler' = scheduler
      /\ revived' = revived /\ config'.cookie = config.cookie
  BY DEF SameClients, clients
<1>2. Making({"share"}) => Making({"share"})'
  BY DEF Making, At
<1>3. Making({"persist", "stop", "join", "clear", "close"}) =>
        Making({"persist", "stop", "join", "clear", "close"})'
  BY DEF Making, At
<1>4. OpenOnes'
  BY <1>1 DEF OneAccount, OpenOnes
<1>5. WrapperShared'
  BY <1>1, <1>2 DEF OneAccount, WrapperShared
<1>6. WrapperCookie'
  BY <1>1, <1>3 DEF OneAccount, WrapperCookie
<1>7. WrapperServed'
  BY <1>1 DEF OneAccount, WrapperServed, ServerKept
<1>8. ASSUME NEW u \in Task PROVE ClientMade(u)'
  <2>1. ClientMade(u)
    BY DEF OneAccount
  <2>2. CASE task'[u] = task[u]
    BY <1>1, <2>1, <2>2 DEF ClientMade, At
  <2>3. CASE task'[u] # task[u]
    <3>1. ~At(u, "p115", {"persist", "configure", "client", "share", "probe", "spawn"})'
      BY <2>3
    <3> QED
      BY <3>1 DEF ClientMade, At
  <2> QED
    BY <2>2, <2>3
<1> QED
  BY <1>4, <1>5, <1>6, <1>7, <1>8 DEF OneAccount

\* What one thread alone works on is at the stage the thread is at.
LEMMA OneMaking ==
    ASSUME NEW t \in Task, NEW stages \in SUBSET Active,
           \A u \in Task : u # t => task'[u] = task[u] /\ ~At(u, "p115", Active)
    PROVE  /\ Making(stages) <=> At(t, "p115", stages)
           /\ Making(stages)' <=> At(t, "p115", stages)'
  BY DEF Making, At

\* The rest of the invariant after a step of the only thread at work.
LEMMA OthersMade ==
    ASSUME NEW t \in Task,
           \A u \in Task : u # t => task'[u] = task[u] /\ ~At(u, "p115", Active)
    PROVE  \A u \in Task : u # t => ClientMade(u)'
<1> SUFFICES ASSUME NEW u \in Task, u # t PROVE ClientMade(u)'
  OBVIOUS
<1>1. ~At(u, "p115", Active)'
  BY DEF At
<1>2. /\ ~At(u, "p115", {"configure", "client"})' /\ ~At(u, "p115", {"client"})'
      /\ ~At(u, "p115", {"share", "probe", "spawn"})' /\ ~At(u, "p115", {"persist"})'
  BY <1>1 DEF At, Active, Stages
<1> QED
  BY <1>2 DEF ClientMade

Excused == {"persist", "stop", "join", "clear", "close"}

LEMMA StageSets == {"share"} \in SUBSET Active /\ Excused \in SUBSET Active
  BY DEF Active, Stages, Excused

\* A step of the redirect service's restart that leaves the clients and the
\* saved cookie alone.
LEMMA OwnStepKeeps ==
    ASSUME OneAccount, SameClients, WrapperServed', NEW t \in Task,
           \A u \in Task : u # t => task'[u] = task[u] /\ ~At(u, "p115", Active),
           At(t, "p115", {"share"}) => At(t, "p115", {"share"})',
           At(t, "p115", Excused) => At(t, "p115", Excused)',
           ClientMade(t)'
    PROVE  OneAccount'
<1>1. /\ client' = client /\ wrapper' = wrapper /\ api' = api /\ scheduler' = scheduler
      /\ revived' = revived /\ config'.cookie = config.cookie
  BY DEF SameClients, clients
<1>2. Making({"share"}) => Making({"share"})'
  BY StageSets, OneMaking
<1>3. Making(Excused) => Making(Excused)'
  BY StageSets, OneMaking
<1>4. OpenOnes'
  BY <1>1 DEF OneAccount, OpenOnes
<1>5. WrapperShared'
  BY <1>1, <1>2 DEF OneAccount, WrapperShared
<1>6. WrapperCookie'
  BY <1>1, <1>3 DEF OneAccount, WrapperCookie, Excused
<1>7. \A u \in Task : ClientMade(u)'
  BY OthersMade
<1> QED
  BY <1>4, <1>5, <1>6, <1>7 DEF OneAccount

LEMMA ServedKept ==
    ASSUME OneAccount, SameClients, ServerKept
    PROVE  WrapperServed'
  BY DEF OneAccount, WrapperServed, ServerKept, SameClients, clients

\* A server that stays where it is keeps the client it was made for.
LEMMA GrowingKeeps ==
    ASSUME Types, [Next]_vars, current'["p115"] \in {0, current["p115"]}
    PROVE  ServerKept
<1>1. Growing /\ current["p115"] \in 0 .. Len(server) /\ Len(server) \in Nat
  BY ServerTypesHold, Numbers DEF Types, ServerTypes, Service
<1> QED
  BY <1>1 DEF Growing, ServerKept

\* A step of the redirect service's own restart, by the one thread at it.
LEMMA OwnStepAccount ==
    ASSUME Types, Types', [Next]_vars, Orderly("p115"), OneAccount,
           NEW t \in Task, Step(t), task[t].svc = "p115",
           \A u \in Task : u # t => task'[u] = task[u] /\ ~At(u, "p115", Active)
    PROVE  OneAccount'
<1>1. /\ Types /\ "p115" \in Service /\ task[t] \in Work /\ Fits(t) /\ ClientMade(t)
      /\ Len(client) \in Nat /\ wrapper \in 0 .. Len(client) /\ client \in Seq(Clients)
      /\ Len(server) \in Nat /\ current \in [Service -> 0 .. Len(server)]
  BY Numbers DEF Types, ClientTypes, ServerTypes, TaskTypes, Service, OneAccount
\* A thread that is done, or stops or waits, has nothing of the client's.
<1>2. ASSUME task'[t].pc \in {"idle", "stop", "join", "clear", "close"}
      PROVE  ClientMade(t)'
  BY <1>2 DEF ClientMade, At
<1>3. CASE Persist(t)
  <2>1. /\ task[t].pc = "persist" /\ task' = [task EXCEPT ![t] = Idle]
        /\ config' = [config EXCEPT !.cookie = task[t].cookie]
        /\ UNCHANGED clients /\ UNCHANGED servers /\ revived' = revived
    BY <1>3 DEF Persist, observed
  <2>2. task'[t].pc = "idle" /\ config'.cookie = task[t].cookie
    BY <1>1, <2>1 DEF Idle, Types, Values, Config, TaskTypes
  <2>3. ~At(t, "p115", {"share"}) /\ ~At(t, "p115", {"share"})'
    BY <2>1, <2>2 DEF At
  <2>4. ~Making({"share"}) /\ ~Making({"share"})'
    BY <2>3, StageSets, OneMaking
  <2>5. wrapper # 0 => client[wrapper].cookie = config'.cookie
    BY <1>1, <2>1, <2>2 DEF ClientMade, At
  <2>6. OpenOnes' /\ WrapperShared' /\ WrapperServed'
    BY <2>1, <2>4 DEF OneAccount, OpenOnes, WrapperShared, WrapperServed, clients, servers
  <2>7. WrapperCookie'
    BY <2>1, <2>5 DEF WrapperCookie, clients
  <2>8. \A u \in Task : ClientMade(u)'
    BY <1>2, <2>2, OthersMade
  <2> QED
    BY <2>6, <2>7, <2>8 DEF OneAccount
<1>4. CASE Stop(t)
  <2>1. /\ task[t].pc = "stop" /\ SameClients /\ current' = current
    BY <1>4 DEF Stop, SameClients, world, observed
  <2>2. task'[t].pc \in {"join", "close"} /\ task'[t].svc = "p115"
    <3> DEFINE n == current["p115"]
    <3>1. n \in Nat /\ "join" \in Stages /\ "close" \in Stages
      BY <1>1 DEF Stages
    <3>2. GoOn(t, "close") \/ GoOnWith(t, "join", n)
      BY <1>4 DEF Stop, GoOnWith, AfterStop
    <3> HIDE DEF n
    <3> QED
      BY <1>1, <3>1, <3>2, Stage
  <2>3. WrapperServed' /\ ClientMade(t)'
    BY <1>1, <1>2, <2>1, <2>2, GrowingKeeps, ServedKept
  <2>4. ~At(t, "p115", {"share"}) /\ At(t, "p115", Excused)'
    BY <2>1, <2>2 DEF At, Excused
  <2> QED
    BY <2>1, <2>3, <2>4, OwnStepKeeps
<1>5. CASE Join(t)
  <2>1. task[t].pc = "join" /\ SameClients /\ current' = current /\ GoOnWith(t, "clear", 0)
    BY <1>5 DEF Join, SameClients, servers, GoOnWith
  <2>2. task'[t].pc = "clear" /\ task'[t].svc = "p115"
    BY <1>1, <2>1, Stage DEF Stages
  <2>3. WrapperServed' /\ ClientMade(t)'
    BY <1>1, <1>2, <2>1, <2>2, GrowingKeeps, ServedKept
  <2>4. ~At(t, "p115", {"share"}) /\ At(t, "p115", Excused)'
    BY <2>1, <2>2 DEF At, Excused
  <2> QED
    BY <2>1, <2>3, <2>4, OwnStepKeeps
<1>6. CASE Clear(t)
  <2>1. /\ task[t].pc = "clear" /\ SameClients /\ current' = [current EXCEPT !["p115"] = 0]
        /\ GoOn(t, "close")
    BY <1>6 DEF Clear, SameClients, world, observed, AfterStop
  <2>2. task'[t].pc = "close" /\ task'[t].svc = "p115"
    BY <1>1, <2>1, Stage DEF Stages
  <2>3. WrapperServed' /\ ClientMade(t)'
    BY <1>1, <1>2, <2>1, <2>2, GrowingKeeps, ServedKept
  <2>4. ~At(t, "p115", {"share"}) /\ At(t, "p115", Excused)'
    BY <2>1, <2>2 DEF At, Excused
  <2> QED
    BY <2>1, <2>3, <2>4, OwnStepKeeps
<1>7. CASE Close(t)
  <2>1. /\ task[t].pc = "close" /\ wrapper' = 0 /\ revived' = revived /\ GoOn(t, "configure")
        /\ client' = IF wrapper = 0 THEN client ELSE [client EXCEPT ![wrapper].open = FALSE]
    BY <1>7 DEF Close, world, observed
  <2>2. task'[t].pc = "configure" /\ task'[t].svc = "p115"
    BY <1>1, <2>1, Stage DEF Stages
  <2>3. OpenOnes'
    <3>1. CASE wrapper = 0
      BY <1>1, <2>1, <3>1 DEF OneAccount, OpenOnes
    <3>2. CASE wrapper # 0
      <4>1. wrapper \in 1 .. Len(client) /\ client' = [client EXCEPT ![wrapper].open = FALSE]
        BY <1>1, <2>1, <3>2
      <4>2. /\ Len(client') = Len(client) /\ ~client'[wrapper].open
            /\ \A c \in 1 .. Len(client) : c # wrapper => client'[c] = client[c]
        BY <1>1, <4>1, ClientClosed
      <4> QED
        BY <1>1, <2>1, <4>2 DEF OneAccount, OpenOnes
    <3> QED
      BY <3>1, <3>2
  <2>4. WrapperShared' /\ WrapperCookie' /\ WrapperServed'
    BY <2>1 DEF WrapperShared, WrapperCookie, WrapperServed
  <2>5. ClientMade(t)'
    BY <2>1, <2>2 DEF ClientMade, At
  <2>6. \A u \in Task : ClientMade(u)'
    BY <2>5, OthersMade
  <2> QED
    BY <2>3, <2>4, <2>6 DEF OneAccount
<1>8. CASE Configure(t)
  <2>1. task[t].pc = "configure" /\ SameClients /\ UNCHANGED servers /\ config' = config
    BY <1>8 DEF Configure, SameClients, world, observed
  <2>2. wrapper = 0 /\ wrapper' = 0
    BY <1>1, <2>1 DEF ClientMade, At, SameClients, clients
  <2>3. ClientMade(t)'
    <3>1. CASE Done(t)
      BY <1>1, <1>2, <3>1, Stage
    <3>2. CASE GoOnFor(t, "client", config.cookie) /\ config.cookie \in Cookie
      <4>1. task'[t].pc = "client" /\ task'[t].cookie = config.cookie
        BY <1>1, <3>2, Stage DEF Stages
      <4> QED
        BY <2>1, <2>2, <4>1 DEF ClientMade, At
    <3>3. Done(t) \/ (GoOnFor(t, "client", config.cookie) /\ config.cookie \in Cookie)
      BY <1>1, <1>8 DEF Configure, Wanted, GoOnFor, Types, Values, Config
    <3> QED
      BY <3>1, <3>2, <3>3
  <2>4. WrapperServed'
    BY <2>2 DEF WrapperServed
  <2>5. ~At(t, "p115", {"share"}) /\ ~At(t, "p115", Excused)
    BY <2>1 DEF At, Excused
  <2> QED
    BY <2>1, <2>3, <2>4, <2>5, OwnStepKeeps
<1>9. CASE MakeClient(t)
  <2> DEFINE n == Len(client) + 1
  <2>0. PICK v \in Clients :
          /\ v.cookie = task[t].cookie /\ (v.ready => v.open)
          /\ client' = Append(client, v)
          /\ wrapper' = n
    BY <1>9, ClientMakes
  <2>1. /\ task[t].pc = "client" /\ client' = Append(client, v) /\ v \in Clients
        /\ wrapper' = n /\ revived' = revived /\ config' = config /\ current' = current
        /\ GoOnWith(t, "share", n)
    BY <1>9, <2>0 DEF MakeClient, GoOnWith, world, observed, servers
  <2>2. /\ v.cookie = task[t].cookie /\ (v.ready => v.open)
        /\ n \in Nat /\ n # 0 /\ "share" \in Stages
    BY <1>1, <2>0 DEF Stages
  <2>3. /\ Len(client') = n /\ client'[n] = v
        /\ \A c \in 1 .. Len(client) : client'[c] = client[c]
    BY <1>1, <2>1, OneMore
  <2>4. task'[t].pc = "share" /\ task'[t].svc = "p115" /\ task'[t].of = n
    <3> HIDE DEF n
    <3> QED
      BY <1>1, <2>1, <2>2, Stage
  <2>5. wrapper = 0 /\ task[t].cookie = config.cookie
    BY <1>1, <2>1 DEF ClientMade, At
  <2>6. OpenOnes'
    <3>1. ASSUME NEW c \in 1 .. n, client'[c].open
          PROVE  c \in {n} \union revived
      <4>1. CASE c = n
        BY <4>1
      <4>2. CASE c # n
        <5>1. c \in 1 .. Len(client) /\ client[c].open
          BY <1>1, <2>3, <3>1, <4>2
        <5> QED
          BY <2>5, <5>1 DEF OneAccount, OpenOnes
      <4> QED
        BY <4>1, <4>2
    <3> QED
      BY <2>1, <2>3, <3>1 DEF OpenOnes
  <2>7. At(t, "p115", {"share"})' /\ Making({"share"})'
    <3>1. At(t, "p115", {"share"})'
      BY <2>4 DEF At
    <3> QED
      BY <3>1, StageSets, OneMaking
  <2>8. WrapperShared'
    BY <2>1, <2>2, <2>3, <2>7 DEF WrapperShared
  <2>9. WrapperCookie'
    BY <2>1, <2>2, <2>3, <2>5 DEF WrapperCookie
  <2>10. current'["p115"] = 0
    BY <1>1, <2>1 DEF Orderly, Restarting, At
  <2>11. WrapperServed'
    BY <2>10 DEF WrapperServed
  <2>12. ClientMade(t)'
    BY <2>1, <2>4 DEF ClientMade, At
  <2>13. \A u \in Task : ClientMade(u)'
    BY <2>12, OthersMade
  <2> QED
    BY <2>6, <2>8, <2>9, <2>11, <2>13 DEF OneAccount
<1>10. CASE Share(t)
  <2>1. /\ task[t].pc = "share" /\ api' = task[t].of /\ scheduler' = task[t].of
        /\ client' = client /\ wrapper' = wrapper /\ revived' = revived /\ config' = config
        /\ UNCHANGED servers /\ GoOn(t, "probe") /\ "probe" \in Stages
    BY <1>10 DEF Share, world, observed, Stages
  <2>2. task'[t].pc = "probe" /\ task'[t].svc = "p115" /\ task'[t].of = task[t].of
    BY <1>1, <2>1, Stage
  <2>3. task[t].of = wrapper
    BY <1>1, <2>1 DEF ClientMade, At
  <2>4. OpenOnes' /\ WrapperShared'
    BY <2>1, <2>3 DEF OneAccount, OpenOnes, WrapperShared
  <2>5. ~Making(Excused)
    <3>1. ~At(t, "p115", Excused)
      BY <2>1 DEF At, Excused
    <3> QED
      BY <3>1, StageSets, OneMaking
  <2>6. WrapperCookie' /\ WrapperServed'
    BY <2>1, <2>5 DEF OneAccount, WrapperCookie, WrapperServed, servers, Excused
  <2>7. ClientMade(t)'
    BY <2>1, <2>2, <2>3 DEF ClientMade, At
  <2>8. \A u \in Task : ClientMade(u)'
    BY <2>7, OthersMade
  <2> QED
    BY <2>4, <2>6, <2>8 DEF OneAccount
<1>11. CASE Probe(t)
  <2>1. task[t].pc = "probe" /\ SameClients /\ current' = current /\ (Done(t) \/ GoOn(t, "spawn"))
    BY <1>11 DEF Probe, SameClients, world, observed
  <2>2. task[t].of = wrapper /\ wrapper' = wrapper
    BY <1>1, <2>1 DEF ClientMade, At, SameClients, clients
  <2>3. ClientMade(t)'
    <3>1. CASE Done(t)
      BY <1>1, <1>2, <3>1, Stage
    <3>2. CASE GoOn(t, "spawn")
      <4>1. task'[t].pc = "spawn" /\ task'[t].of = task[t].of
        BY <1>1, <3>2, Stage DEF Stages
      <4> QED
        BY <2>2, <4>1 DEF ClientMade, At
    <3> QED
      BY <2>1, <3>1, <3>2
  <2>4. WrapperServed'
    BY <1>1, <2>1, GrowingKeeps, ServedKept
  <2>5. ~At(t, "p115", {"share"}) /\ ~At(t, "p115", Excused)
    BY <2>1 DEF At, Excused
  <2> QED
    BY <2>1, <2>3, <2>4, <2>5, OwnStepKeeps
<1>12. CASE Spawn(t)
  <2> DEFINE v == [svc |-> task[t].svc, phase |-> "starting", leave |-> FALSE, client |-> task[t].of]
             n == Len(server) + 1
  <2>1. /\ v \in Servers /\ server' = Append(server, v) /\ server \in Seq(Servers)
        /\ current' = [current EXCEPT !["p115"] = n] /\ Done(t)
        /\ task[t].pc = "spawn" /\ SameClients
    BY <1>12, Spawns DEF Spawn, Types, ServerTypes, SameClients, world, observed
  <2>2. v.client = task[t].of
    OBVIOUS
  <2> HIDE DEF v
  <2>3. current'["p115"] = n /\ server'[n] = v
    BY <1>1, <2>1, OneMore
  <2>4. task[t].of = wrapper /\ wrapper' = wrapper
    BY <1>1, <2>1 DEF ClientMade, At, SameClients, clients
  <2>5. WrapperServed'
    BY <2>2, <2>3, <2>4 DEF WrapperServed
  <2>6. ClientMade(t)'
    BY <1>1, <1>2, <2>1, Stage
  <2>7. ~At(t, "p115", {"share"}) /\ ~At(t, "p115", Excused)
    BY <2>1 DEF At, Excused
  <2> QED
    BY <2>1, <2>5, <2>6, <2>7, OwnStepKeeps
<1> QED
  BY <1>3, <1>4, <1>5, <1>6, <1>7, <1>8, <1>9, <1>10, <1>11, <1>12 DEF Step

\* A request on the redirect service by one thread while no other works on it.
LEMMA RequestAccount ==
    ASSUME Types, Types', [Next]_vars, OneAccount, "p115" \notin disturbed', NEW t \in Task, Request(t)
    PROVE  OneAccount'
<1>1. /\ "p115" \in Service /\ client \in Seq(Clients) /\ Len(client) \in Nat
      /\ wrapper \in 0 .. Len(client) /\ revived \subseteq 1 .. Len(client)
  BY Numbers DEF Service, Types, ClientTypes
<1>2. UNCHANGED servers
  BY DEF Request, SetCookie, RestartEmby, Restore, QrLogin
<1>3. ServerKept
  BY <1>2 DEF ServerKept, servers
\* When the request is about the redirect service, nobody else is.
<1>4. ASSUME NEW v \in Work, Asks(t, v), v.svc = "p115", v.pc \in {"stop", "persist"}
      PROVE  \A u \in Task : u # t => task'[u] = task[u] /\ ~At(u, "p115", Active)
  <2>1. "p115" \in Touches(task'[t]) /\ \A u \in Task : u # t => task'[u] = task[u]
    BY <1>4 DEF Asks, Working, Touches
  <2>2. \A u \in Task : "p115" \notin Touches(task[u])
    BY <1>1, <2>1, AskedAlone
  <2>3. \A u \in Task : At(u, "p115", Active) => "p115" \in Touches(task[u])
    BY DEF At, Active, Touches
  <2> QED
    BY <2>1, <2>2, <2>3
<1>5. CASE SetCookie(t) \/ RestartEmby(t) \/ Restore(t)
  <2>1. PICK v \in Work : Asks(t, v) /\ v.pc = "stop" /\ (v.svc = "p115" \/ config' = config)
    BY <1>5, RestartAsked
  <2>2. UNCHANGED clients /\ revived' = revived
    BY <1>5 DEF SetCookie, RestartEmby, Restore
  <2>3. task'[t] = v /\ task[t].pc = "idle" /\ \A u \in Task : u # t => task'[u] = task[u]
    BY <2>1, IdleWork DEF Asks, Working
  <2>4. CASE config' = config
    <3>1. SameClients
      BY <2>2, <2>4 DEF SameClients
    <3>2. \A u \in Task : At(u, "p115", {"persist", "configure", "client", "share", "probe", "spawn"})'
                              => task'[u] = task[u]
      BY <2>1, <2>3 DEF At
    <3>3. \A u \in Task : At(u, "p115", {"persist", "stop", "join", "clear", "close", "share"})
                              => task'[u] = task[u]
      BY <2>3 DEF At
    <3> QED
      BY <1>3, <3>1, <3>2, <3>3, ClientElsewhere
  <2>5. CASE v.svc = "p115"
    <3>1. \A u \in Task : u # t => task'[u] = task[u] /\ ~At(u, "p115", Active)
      BY <1>4, <2>1, <2>5
    <3>2. ~At(t, "p115", {"share"}) /\ At(t, "p115", Excused)' /\ ClientMade(t)'
      BY <2>1, <2>3, <2>5 DEF At, Excused, ClientMade
    <3>3. ~Making({"share"}) /\ Making(Excused)'
      BY <3>1, <3>2, StageSets, OneMaking
    <3>4. OpenOnes' /\ WrapperShared' /\ WrapperServed'
      BY <1>2, <2>2, <3>3 DEF OneAccount, OpenOnes, WrapperShared, WrapperServed, clients, servers
    <3>5. WrapperCookie'
      BY <3>3 DEF WrapperCookie, Excused
    <3>6. \A u \in Task : ClientMade(u)'
      BY <3>1, <3>2, OthersMade
    <3> QED
      BY <3>4, <3>5, <3>6 DEF OneAccount
  <2> QED
    BY <2>1, <2>4, <2>5
<1>6. CASE QrLogin(t)
  <2>1. PICK v \in Work :
              /\ Asks(t, v) /\ v.pc = "persist" /\ v.svc = "p115"
              /\ v.cookie \in Cookie /\ config' = config
              /\ api \in 1 .. Len(client)
              /\ \E c \in Clients :
                    /\ c.cookie = v.cookie /\ (c.ready => c.open)
                    /\ client' = [client EXCEPT ![api] = c]
              /\ revived' = IF api = wrapper THEN revived ELSE revived \union {api}
    BY <1>6, LoginAsked
  <2>2. wrapper' = wrapper /\ api' = api /\ scheduler' = scheduler
    BY <1>6 DEF QrLogin
  <2>3. task'[t] = v /\ task[t].pc = "idle"
    BY <2>1, IdleWork DEF Asks, Working
  <2>4. \A u \in Task : u # t => task'[u] = task[u] /\ ~At(u, "p115", Active)
    BY <1>4, <2>1
  <2>5. ~At(t, "p115", {"share"}) /\ At(t, "p115", Excused)' /\ ~At(t, "p115", {"share"})'
    BY <2>1, <2>3 DEF At, Excused
  <2>6. ~Making({"share"}) /\ Making(Excused)' /\ ~Making({"share"})'
    BY <2>4, <2>5, StageSets, OneMaking
  <2>7. wrapper # 0 => api = wrapper /\ scheduler = wrapper
    BY <2>6 DEF OneAccount, WrapperShared
  <2>8. PICK k \in Clients :
          /\ k.cookie = v.cookie /\ (k.ready => k.open)
          /\ client' = [client EXCEPT ![api] = k]
    BY <2>1
  <2>9. client' = [client EXCEPT ![api] = k]
    BY <2>8
  <2>10. /\ Len(client') = Len(client) /\ client'[api] = k
         /\ \A c \in 1 .. Len(client) : c # api => client'[c] = client[c]
    BY <1>1, <2>1, <2>8, <2>9, ClientSet
  <2>11. OpenOnes'
    <3>1. ASSUME NEW c \in 1 .. Len(client), client'[c].open
          PROVE  c \in {wrapper} \union revived'
      <4>1. CASE c = api
        BY <2>1, <4>1
      <4>2. CASE c # api
        BY <2>1, <2>10, <3>1, <4>2 DEF OneAccount, OpenOnes
      <4> QED
        BY <4>1, <4>2
    <3> QED
      BY <2>2, <2>10, <3>1 DEF OpenOnes
  <2>12. WrapperShared'
    BY <2>2, <2>7, <2>8, <2>10 DEF WrapperShared
  <2>13. WrapperCookie'
    BY <2>6 DEF WrapperCookie, Excused
  <2>14. WrapperServed'
    BY <1>2, <2>2 DEF OneAccount, WrapperServed, servers
  <2>15. ClientMade(t)'
    BY <2>1, <2>2, <2>3, <2>7, <2>8, <2>10 DEF ClientMade, At
  <2>16. \A u \in Task : ClientMade(u)'
    BY <2>4, <2>15, OthersMade
  <2> QED
    BY <2>11, <2>12, <2>13, <2>14, <2>16 DEF OneAccount
<1> QED
  BY <1>5, <1>6 DEF Request

\* A step of the other service's restart.
LEMMA OtherStepAccount ==
    ASSUME Types, Types', [Next]_vars, OneAccount, NEW t \in Task, Step(t), task[t].svc # "p115"
    PROVE  OneAccount'
<1>1. /\ Untouched("p115") /\ \A u \in Task : u # t => task'[u] = task[u]
      /\ ~At(t, "p115", {"persist"} \union Busy)'
  BY OtherStep DEF Service
<1>2. SameClients
  <2>1. Fits(t)
    BY DEF Types, TaskTypes
  <2>2. ~Persist(t) /\ ~Close(t) /\ ~MakeClient(t) /\ ~Share(t)
    BY <2>1 DEF Fits, Persist, Close, MakeClient, Share
  <2> QED
    BY <2>2 DEF Step, Stop, Join, Clear, Configure, Probe, Spawn, SameClients, world, observed
<1>3. ServerKept
  BY <1>1, GrowingKeeps DEF Untouched
<1>4. \A u \in Task : At(u, "p115", {"persist", "configure", "client", "share", "probe", "spawn"})'
                         => task'[u] = task[u]
  BY <1>1 DEF At, Busy
<1>5. \A u \in Task : At(u, "p115", {"persist", "stop", "join", "clear", "close", "share"})
                         => task'[u] = task[u]
  BY <1>1 DEF At
<1> QED
  BY <1>2, <1>3, <1>4, <1>5, ClientElsewhere

LEMMA ClientInvHolds ==
    ASSUME Types, Types', OneWorker, ServiceInv, ClientInv, [Next]_vars
    PROVE  ClientInv'
<1> SUFFICES ASSUME "p115" \notin disturbed' PROVE OneAccount'
  BY DEF ClientInv, OneAccount
<1>1. "p115" \notin disturbed /\ "p115" \in Service
  BY DisturbedStays DEF Service
<1>2. OneAccount /\ Orderly("p115")
  BY <1>1 DEF ClientInv, OneAccount, ServiceInv, Orderly
<1>3. ASSUME UNCHANGED clients, revived' = revived, config'.cookie = config.cookie,
             task' = task, current' = current
      PROVE  OneAccount'
  <2>1. SameClients /\ ServerKept
    BY <1>3, GrowingKeeps DEF SameClients
  <2> QED
    BY <1>2, <1>3, <2>1, ClientElsewhere
<1>4. CASE SetEnabled
  <2>1. config'.cookie = config.cookie
    <3>1. PICK s \in Switched, b \in BOOLEAN : config' = [config EXCEPT !.on[s] = b]
      BY <1>4 DEF SetEnabled
    <3> QED
      BY <3>1 DEF Types, Values, Config
  <2> QED
    BY <1>3, <1>4, <2>1 DEF SetEnabled, servers, observed
<1>5. ASSUME NEW t \in Task, Request(t)
      PROVE  OneAccount'
  BY <1>2, <1>5, RequestAccount
<1>6. ASSUME NEW t \in Task, Step(t)
      PROVE  OneAccount'
  <2>1. CASE task[t].svc = "p115"
    <3>1. \A u \in Task : u # t => task'[u] = task[u] /\ ~At(u, "p115", Active)
      BY <1>1, <1>6, <2>1, Sole
    <3> QED
      BY <1>2, <1>6, <2>1, <3>1, OwnStepAccount
  <2>2. CASE task[t].svc # "p115"
    BY <1>2, <1>6, <2>2, OtherStepAccount
  <2> QED
    BY <2>1, <2>2
<1>7. CASE Uvicorn
  BY <1>3, <1>7 DEF Uvicorn, Bind, BindFails, Leave, Becomes, world, observed
<1>8. CASE \E s \in Contested : TakePort(s) \/ FreePort(s)
  BY <1>3, <1>8 DEF TakePort, FreePort, servers, observed
<1>9. CASE UNCHANGED vars
  BY <1>3, <1>9 DEF vars, servers, world, observed
<1> QED
  BY <1>4, <1>5, <1>6, <1>7, <1>8, <1>9 DEF Next

LEMMA InitClientInv == Init => ClientInv
<1> SUFFICES ASSUME Init PROVE OneAccount
  BY DEF ClientInv, OneAccount
<1>1. client = <<>> /\ Len(client) = 0 /\ wrapper = 0 /\ \A t \in Task : task[t].pc \in {"idle", "stop"}
  BY BootWork DEF Init
<1> QED
  BY <1>1 DEF OneAccount, OpenOnes, WrapperShared, WrapperCookie, WrapperServed, ClientMade, At

LEMMA InvHolds == Spec => []Inv
<1>1. Init => Inv
  BY InitTypes, InitOneWorker, InitServiceInv, InitClientInv DEF Inv
<1>2. Inv /\ [Next]_vars => Inv'
  BY TypesHold, OneWorkerHolds, ServiceInvHolds, ClientInvHolds DEF Inv
<1> QED
  BY <1>1, <1>2, PTL DEF Spec

\* Nobody is at work on the redirect service once its restarts are over.
LEMMA QuietMakesNothing ==
    ASSUME Quiet("p115"), Inv
    PROVE  OneAccount /\ \A stages \in SUBSET Active : ~Making(stages)
<1>1. \A t \in Task : ~At(t, "p115", Active)
  BY DEF Quiet, At, Active, Touches
<1> QED
  BY <1>1 DEF Quiet, Inv, ClientInv, OneAccount, Making, At

\* After any sequence of cookie changes, restores and QR logins that do not cut
\* across each other, the routes, the scheduler and the server hold main's
\* client, whose cookie is the saved one, and whose connections are open when
\* its is_ready says so (main.py:201, p115_client_wrapper.py:136).
THEOREM EveryoneOneClient == Spec => []OneClient
<1>1. Inv => OneClient
  <2> SUFFICES ASSUME Inv, Quiet("p115"), wrapper # 0
               PROVE  /\ api = wrapper /\ scheduler = wrapper
                      /\ client[wrapper].cookie = config.cookie
                      /\ client[wrapper].ready => client[wrapper].open
                      /\ status["p115"] => server[current["p115"]].client = wrapper
    BY DEF OneClient
  <2>1. OneAccount /\ ~Making({"share"}) /\ ~Making(Excused)
    BY QuietMakesNothing, StageSets
  <2>2. api = wrapper /\ scheduler = wrapper /\ (client[wrapper].ready => client[wrapper].open)
    BY <2>1 DEF OneAccount, WrapperShared
  <2>3. client[wrapper].cookie = config.cookie
    BY <2>1 DEF OneAccount, WrapperCookie, Excused
  <2>4. status["p115"] => current["p115"] # 0
    BY DEF Inv, ServiceInv, CurrentServes, Quiet, Service
  <2>5. status["p115"] => server[current["p115"]].client = wrapper
    BY <2>1, <2>4 DEF OneAccount, WrapperServed
  <2> QED
    BY <2>2, <2>3, <2>5
<1> QED
  BY <1>1, InvHolds, PTL

\* However often the cookie changes, no client's connections stay open but
\* main's, except those of one a QR login opened after main had let it go.
THEOREM ClientsAreClosed == Spec => []NoClientLeft
<1>1. Inv => NoClientLeft
  <2> SUFFICES ASSUME Inv, Quiet("p115"), NEW c \in DOMAIN client, client[c].open
               PROVE  c \in {wrapper} \union revived
    BY DEF NoClientLeft
  <2>1. OpenOnes /\ DOMAIN client = 1 .. Len(client)
    BY QuietMakesNothing, Numbers DEF OneAccount, Inv, Types
  <2> QED
    BY <2>1 DEF OpenOnes
<1> QED
  BY <1>1, InvHolds, PTL
=============================================================================

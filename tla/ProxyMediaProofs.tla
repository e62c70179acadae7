--------------------------- MODULE ProxyMediaProofs ---------------------------
(***************************************************************************)
(* What ProxyMedia promises, for any number of requests, films, versions,  *)
(* users and players, any times to live and any size of the cache.         *)
(***************************************************************************)
EXTENDS ProxyMedia, TLAPS

Stream == [kind: {"stream"}, item: Item, source: Source \union {None},
           device: Device, apiKey: BOOLEAN]
Info == [kind: {"info"}, item: Item, device: Device, user: User \union {None}]

Kept == [to: Redirect, left: 1..UrlTtl]
Remembrance == [sources: SUBSET Source, seen: 0..StrmTtl, left: 1..StrmTtl]
UserEntry == [user: User, left: 1..UserTtl]

PC == {"idle", "queued", "query", "strm", "resolve", "proxy", "info", "direct"}

\* All waits for the answers to one path together.
Waits == Attempts * Timeout

CacheTypes ==
    /\ urlCache \in [CacheKey -> Kept \union {None}]
    /\ strmCache \in [Item -> Remembrance \union {None}]
    /\ userCache \in [Device \X Item -> UserEntry \union {None}]
    /\ owner \in [CacheKey -> Request \union {None}]

SlotTypes ==
    /\ pc \in [Request -> PC]
    /\ ask \in [Request -> Ask \union {None}]
    /\ key \in [Request -> CacheKey \union {None}]
    /\ path \in [Request -> Address \union {None}]
    /\ todo \in [Request -> SUBSET Source]
    /\ attempt \in [Request -> 1..Attempts]
    /\ waiting \in [Request -> 0..Timeout]
    /\ answer \in [Request -> Redirect \union {None}]
    /\ asked \in 0..MaxAsk

\* What a request has at hand at each place.
Stages ==
    \A r \in Request :
        /\ pc[r] = "queued" \/ InBody(r) => ask[r] \in Stream
        /\ pc[r] \in {"info", "direct"} => ask[r] \in Info
        /\ InBody(r) => key[r] \in CacheKey /\ key[r] # None
        /\ key[r] # None => pc[r] \in {"queued", "proxy"} \/ InBody(r)
        /\ pc[r] = "resolve" => path[r] \in Address
        /\ path[r] # None => pc[r] = "resolve"
        /\ todo[r] # {} => pc[r] = "direct"
        /\ attempt[r] # 1 => pc[r] \in {"resolve", "direct"}

\* How old what is held can be: each cache adds the time the entry has been in
\* it, each wait the time it has lasted.
Ages ==
    /\ \A i \in Item : strmCache[i] # None => strmCache[i].seen + strmCache[i].left = StrmTtl
    /\ \A r \in Request : pc[r] = "resolve" =>
         path[r].seen < StrmTtl + (attempt[r] - 1) * Timeout + waiting[r]
    /\ \A k \in CacheKey : urlCache[k] # None =>
         LET to == urlCache[k].to
         IN  /\ to.age + urlCache[k].left = Keep(to.resolved)
             /\ to.path.seen < StrmTtl + Waits + to.age

\* An address that is right for a film, a version and a player.
Right(p, item, source, device) ==
    p.item = item /\ p.device = device /\ (source \in {None, p.source} \/ p.guessed)

Fits ==
    /\ \A r \in Request :
         /\ key[r] # None =>
              key[r][1] = ask[r].item /\ key[r][2] = ask[r].source /\ key[r][4] = ask[r].device
         /\ pc[r] = "resolve" => Right(path[r], ask[r].item, ask[r].source, ask[r].device)
    /\ \A k \in CacheKey : urlCache[k] # None => Right(urlCache[k].to.path, k[1], k[2], k[4])

Inv == CacheTypes /\ SlotTypes /\ Stages /\ ResolvedOnce /\ Ages /\ Fits /\ AnswersFresh

-----------------------------------------------------------------------------
(* Numbers *)

LEMMA Numbers ==
    /\ UrlTtl \in Nat \ {0} /\ ShortTtl \in Nat \ {0} /\ StrmTtl \in Nat \ {0}
    /\ UserTtl \in Nat \ {0} /\ Attempts \in Nat \ {0} /\ Timeout \in Nat \ {0}
    /\ ShortTtl <= UrlTtl /\ MaxAsk \in Nat
    /\ Waits \in Nat /\ MaxSeen = StrmTtl + Waits + UrlTtl
BY ProxyAssumption DEF Waits, MaxSeen

LEMMA KeepBounds ==
    ASSUME NEW b \in BOOLEAN
    PROVE  Keep(b) \in 1..UrlTtl /\ Keep(b) = (IF b THEN UrlTtl ELSE ShortTtl)
BY Numbers DEF Keep

\* One more attempt is one more Timeout, and they never exceed all waits.
LEMMA WaitsOfAttempt ==
    ASSUME NEW n \in 1..Attempts
    PROVE  /\ (n - 1) * Timeout \in Nat
           /\ (n - 1) * Timeout + Timeout = n * Timeout
           /\ (n - 1) * Timeout + Timeout <= Waits
<1>0. Attempts \in Nat /\ Timeout \in Nat /\ n \in Nat
  BY Numbers
<1>1. (n - 1) * Timeout + Timeout = n * Timeout
  BY <1>0
<1>2. n * Timeout <= Attempts * Timeout
  <2>1. PICK d \in Nat : Attempts = n + d
    <3>1. Attempts - n \in Nat /\ Attempts = n + (Attempts - n)
      BY <1>0
    <3> QED BY <3>1
  <2>2. (n + d) * Timeout = n * Timeout + d * Timeout
    BY <1>0
  <2>3. d * Timeout \in Nat /\ n * Timeout \in Nat
    BY <1>0
  <2> QED BY <1>0, <2>1, <2>2, <2>3
<1>3. (n - 1) * Timeout \in Nat
  BY <1>0
<1> QED BY <1>1, <1>2, <1>3 DEF Waits

-----------------------------------------------------------------------------
(* One moment later *)

LEMMA LaterAddress ==
    ASSUME NEW a \in Address, a.seen < MaxSeen
    PROVE  /\ Later(a) \in Address /\ Later(a).seen = a.seen + 1
           /\ Later(a).item = a.item /\ Later(a).source = a.source
           /\ Later(a).device = a.device /\ Later(a).guessed = a.guessed
BY Numbers DEF Later, Address

Older(e) == Aged([e EXCEPT !.to.age = e.to.age + 1, !.to.path = Later(e.to.path)])

LEMMA OlderEntry ==
    ASSUME NEW e \in Kept, e.to.path.seen < MaxSeen, e.to.age < UrlTtl
    PROVE  \/ Older(e) = None
           \/ /\ Older(e) \in Kept /\ Older(e).left = e.left - 1
              /\ Older(e).to.age = e.to.age + 1 /\ Older(e).to.resolved = e.to.resolved
              /\ Older(e).to.path = Later(e.to.path)
<1> DEFINE p == Later(e.to.path)
           to == [path |-> p, resolved |-> e.to.resolved, age |-> e.to.age + 1]
           f == [e EXCEPT !.to.age = e.to.age + 1, !.to.path = p]
<1>1. p \in Address
  BY LaterAddress DEF Kept, Redirect
<1>2. to \in Redirect
  BY <1>1, Numbers DEF Redirect, Kept
<1>3. f = [to |-> to, left |-> e.left]
  <2> DEFINE young == [e.to EXCEPT !.age = e.to.age + 1]
             g == [e EXCEPT !.to = young]
  <2>1. f = [g EXCEPT !.to.path = p]
    OBVIOUS
  <2>2. g = [to |-> young, left |-> e.left]
    BY DEF Kept
  <2>3. e.to = [path |-> e.to.path, resolved |-> e.to.resolved, age |-> e.to.age]
    BY DEF Kept, Redirect
  <2>4. young = [path |-> e.to.path, resolved |-> e.to.resolved, age |-> e.to.age + 1]
    BY <2>3
  <2> HIDE DEF young, p, g
  <2>5. [young EXCEPT !.path = p] = to
    BY <2>4
  <2> HIDE DEF to
  <2>6. g.to = young
    BY <2>2
  <2>7. [g EXCEPT !.to.path = p] = [g EXCEPT !.to = to]
    BY <2>5, <2>6
  <2> QED BY <2>1, <2>2, <2>7
<1> HIDE DEF to, p
<1>4. f \in Kept /\ f.left = e.left /\ f.to = to
  BY <1>2, <1>3 DEF Kept
<1> HIDE DEF f
<1>5. Older(e) = Aged(f)
  BY DEF Older, f, p
<1>6. CASE f.left > 1
  <2>1. Aged(f) = [f EXCEPT !.left = f.left - 1]
    BY <1>6 DEF Aged
  <2>2. [f EXCEPT !.left = f.left - 1] = [to |-> f.to, left |-> f.left - 1]
    BY <1>4 DEF Kept
  <2>3. f.left - 1 \in 1..UrlTtl /\ f.to \in Redirect
    BY <1>4, <1>6, Numbers DEF Kept
  <2>4. Aged(f) \in Kept /\ Aged(f).left = f.left - 1 /\ Aged(f).to = f.to
    BY <2>1, <2>2, <2>3 DEF Kept
  <2>5. to.path = p /\ to.age = e.to.age + 1 /\ to.resolved = e.to.resolved
    BY DEF to
  <2> QED BY <1>4, <1>5, <2>4, <2>5 DEF p
<1>7. CASE ~(f.left > 1)
  BY <1>5, <1>7 DEF Aged
<1> QED BY <1>6, <1>7

LEMMA OlderRemembrance ==
    ASSUME NEW e \in Remembrance, e.seen < StrmTtl
    PROVE  \/ Aged(Later(e)) = None
           \/ /\ Aged(Later(e)) \in Remembrance
              /\ Aged(Later(e)).seen = e.seen + 1 /\ Aged(Later(e)).left = e.left - 1
<1>1. Later(e) = [sources |-> e.sources, seen |-> e.seen + 1, left |-> e.left]
  BY DEF Later, Remembrance
<1>2. CASE Later(e).left > 1
  <2>1. Aged(Later(e)) = [sources |-> e.sources, seen |-> e.seen + 1, left |-> e.left - 1]
    BY <1>1, <1>2 DEF Aged
  <2>2. e.seen + 1 \in 0..StrmTtl /\ e.left - 1 \in 1..StrmTtl /\ e.sources \in SUBSET Source
    BY <1>1, <1>2, Numbers DEF Remembrance
  <2> QED BY <2>1, <2>2 DEF Remembrance
<1>3. CASE ~(Later(e).left > 1)
  BY <1>3 DEF Aged
<1> QED BY <1>2, <1>3

LEMMA OlderUser ==
    ASSUME NEW e \in UserEntry
    PROVE  Aged(e) \in UserEntry \union {None}
BY Numbers DEF Aged, UserEntry

-----------------------------------------------------------------------------
(* Types and places *)

Typed == CacheTypes /\ SlotTypes /\ Stages

LEMMA InitTyped == Init => Typed
BY Numbers DEF Init, KeyLock!Init, Typed, CacheTypes, SlotTypes, Stages, InBody, PC

LEMMA ClearTyped ==
    ASSUME SlotTypes, Stages, NEW r \in Request, Clear(r), asked' = asked,
           answer' \in [Request -> Redirect \union {None}]
    PROVE  SlotTypes' /\ Stages'
<1>0. 1 \in 1..Attempts /\ 0 \in 0..Timeout
  BY Numbers
<1>1. SlotTypes'
  <2>1. pc' \in [Request -> PC] /\ ask' \in [Request -> Ask \union {None}]
    BY DEF SlotTypes, Clear, PC
  <2>2. /\ key' \in [Request -> CacheKey \union {None}]
        /\ path' \in [Request -> Address \union {None}]
    BY DEF SlotTypes, Clear
  <2>3. /\ todo' \in [Request -> SUBSET Source] /\ attempt' \in [Request -> 1..Attempts]
        /\ waiting' \in [Request -> 0..Timeout]
    BY <1>0 DEF SlotTypes, Clear
  <2> QED BY <2>1, <2>2, <2>3 DEF SlotTypes
<1>2. Stages'
  BY DEF SlotTypes, Stages, Clear, InBody
<1> QED BY <1>1, <1>2

\* What a request is for fits in what it may ask for.
LEMMA AskKinds ==
    /\ Stream \subseteq Ask /\ Info \subseteq Ask
    /\ \A a \in Ask : a.kind # "info" => a \in Stream
    /\ \A a \in Ask : a.kind = "info" => a \in Info
BY DEF Ask, Stream, Info

LEMMA KeyOfTyped ==
    ASSUME CacheTypes, NEW r \in Request, ask[r] \in Stream
    PROVE  /\ KeyOf(r, UserOf(r)) \in CacheKey
           /\ KeyOf(r, UserOf(r))[1] = ask[r].item /\ KeyOf(r, UserOf(r))[2] = ask[r].source
           /\ KeyOf(r, UserOf(r))[4] = ask[r].device
<1>1. ask[r].item \in Item /\ ask[r].source \in Source \union {None} /\ ask[r].device \in Device
  BY DEF Stream
<1>2. UserOf(r) \in User \union {None}
  BY <1>1 DEF UserOf, CacheTypes, UserEntry
<1> QED BY <1>1, <1>2 DEF KeyOf, CacheKey

\* A path as it is found: no older than the source it comes from.
LEMMA ResolvingTyped ==
    ASSUME Typed, NEW r \in Request, NEW s \in Source, NEW seen \in 0..StrmTtl,
           pc[r] \in {"query", "strm"}, Resolving(r, s, seen)
    PROVE  /\ Typed'
           /\ path'[r].seen = seen
           /\ Right(path'[r], ask[r].item, ask[r].source, ask[r].device)
<1> DEFINE p == [item |-> ask[r].item, source |-> s, device |-> ask[r].device,
                 seen |-> seen, guessed |-> ask[r].source \notin {None, s}]
<1>1. ask[r].item \in Item /\ ask[r].device \in Device
  BY DEF Typed, Stages, InBody, Stream
<1>2. seen \in 0..MaxSeen
  BY Numbers
<1>3. (ask[r].source \notin {None, s}) \in BOOLEAN
  OBVIOUS
<1>4. p \in Address
  BY <1>1, <1>2, <1>3 DEF Address
<1>5. p.seen = seen /\ Right(p, ask[r].item, ask[r].source, ask[r].device)
  BY DEF Right
<1>6. path' = [path EXCEPT ![r] = p]
  BY DEF Resolving
<1> HIDE DEF p
<1>7. CacheTypes'
  BY DEF Resolving, caches, Typed, CacheTypes
<1>8. SlotTypes'
  BY <1>4, <1>6, Numbers DEF Resolving, Typed, SlotTypes, PC
<1>9. Stages'
  BY <1>4, <1>6 DEF Resolving, Typed, SlotTypes, Stages, InBody
<1> QED BY <1>4, <1>5, <1>6, <1>7, <1>8, <1>9 DEF Typed, SlotTypes

LEMMA PutTyped ==
    ASSUME CacheTypes, NEW k \in CacheKey, NEW e \in Kept, PutUrl(k, e)
    PROVE  /\ urlCache' \in [CacheKey -> Kept \union {None}]
           /\ \A j \in CacheKey : urlCache'[j] = urlCache[j] \/ urlCache'[j] = None
                                  \/ (j = k /\ urlCache'[j] = e)
BY DEF PutUrl, Entry, CacheTypes

LEMMA ResolveTyped ==
    ASSUME Inv, NEW r \in Request, NEW resolved \in BOOLEAN, Resolve(r, resolved)
    PROVE  LET to == [path |-> path[r], resolved |-> resolved, age |-> 0]
               e == [to |-> to, left |-> Keep(resolved)]
           IN  /\ key[r] \in CacheKey
               /\ to \in Redirect /\ e \in Kept
<1>1. path[r] \in Address /\ key[r] \in CacheKey
  BY DEF Resolve, Inv, Stages, InBody
<1>2. 0 \in 0..UrlTtl /\ Keep(resolved) \in 1..UrlTtl
  BY Numbers, KeepBounds
<1> QED BY <1>1, <1>2 DEF Redirect, Kept

\* The path that is being resolved, and what the caches hold, before a moment
\* passes.
LEMMA YoungPath ==
    ASSUME Inv, NEW r \in Request, pc[r] = "resolve"
    PROVE  path[r].seen < StrmTtl + Waits /\ path[r].seen < MaxSeen
<1>1. attempt[r] \in 1..Attempts /\ waiting[r] \in 0..Timeout /\ path[r].seen \in Nat
  BY Numbers DEF Inv, SlotTypes, Stages, Address
<1>2. path[r].seen < StrmTtl + (attempt[r] - 1) * Timeout + waiting[r]
  BY DEF Inv, Ages
<1> DEFINE before == (attempt[r] - 1) * Timeout
<1>3. before \in Nat /\ before + Timeout <= Waits
  BY <1>1, WaitsOfAttempt
<1> HIDE DEF before
<1> QED BY <1>1, <1>2, <1>3, Numbers DEF before

LEMMA YoungEntries ==
    ASSUME Inv
    PROVE  /\ \A k \in CacheKey : urlCache[k] # None =>
                urlCache[k] \in Kept /\ urlCache[k].to.path.seen < MaxSeen
                /\ urlCache[k].to.age < UrlTtl /\ urlCache[k].to.age < Keep(urlCache[k].to.resolved)
           /\ \A i \in Item : strmCache[i] # None =>
                strmCache[i] \in Remembrance /\ strmCache[i].seen < StrmTtl
<1>1. ASSUME NEW k \in CacheKey, urlCache[k] # None
      PROVE  urlCache[k] \in Kept /\ urlCache[k].to.path.seen < MaxSeen
             /\ urlCache[k].to.age < UrlTtl /\ urlCache[k].to.age < Keep(urlCache[k].to.resolved)
  <2>1. urlCache[k] \in Kept
    BY <1>1 DEF Inv, CacheTypes
  <2>2. /\ urlCache[k].left \in 1..UrlTtl /\ urlCache[k].to.age \in 0..UrlTtl
        /\ urlCache[k].to.resolved \in BOOLEAN /\ urlCache[k].to.path.seen \in Nat
    BY <2>1, Numbers DEF Kept, Redirect, Address
  <2>3. /\ urlCache[k].to.age + urlCache[k].left = Keep(urlCache[k].to.resolved)
        /\ urlCache[k].to.path.seen < StrmTtl + Waits + urlCache[k].to.age
    BY <1>1 DEF Inv, Ages
  <2>4. Keep(urlCache[k].to.resolved) \in 1..UrlTtl
    BY <2>2, KeepBounds
  <2> QED BY <2>1, <2>2, <2>3, <2>4, Numbers
<1>2. ASSUME NEW i \in Item, strmCache[i] # None
      PROVE  strmCache[i] \in Remembrance /\ strmCache[i].seen < StrmTtl
  <2>1. strmCache[i] \in Remembrance
    BY <1>2 DEF Inv, CacheTypes
  <2>2. strmCache[i].seen \in Nat /\ strmCache[i].left \in 1..StrmTtl
    BY <2>1, Numbers DEF Remembrance
  <2> QED BY <1>2, <2>1, <2>2, Numbers DEF Inv, Ages
<1> QED BY <1>1, <1>2

\* What a moment makes of the caches, entry by entry.
LEMMA TickCaches ==
    ASSUME Inv, Tick
    PROVE  /\ urlCache' \in [CacheKey -> Kept \union {None}]
           /\ strmCache' \in [Item -> Remembrance \union {None}]
           /\ userCache' \in [Device \X Item -> UserEntry \union {None}]
           /\ \A k \in CacheKey : urlCache'[k] # None =>
                /\ urlCache[k] # None /\ urlCache'[k] = Older(urlCache[k])
           /\ \A i \in Item : strmCache'[i] # None =>
                /\ strmCache[i] # None /\ strmCache'[i] = Aged(Later(strmCache[i]))
<1>1. urlCache' = [k \in CacheKey |-> IF urlCache[k] = None THEN None ELSE Older(urlCache[k])]
  BY DEF Tick, Older
<1>2. \A k \in CacheKey : urlCache[k] # None => Older(urlCache[k]) \in Kept \union {None}
  BY YoungEntries, OlderEntry
<1>3. strmCache' = [i \in Item |->
           IF strmCache[i] = None THEN None ELSE Aged(Later(strmCache[i]))]
  BY DEF Tick
<1>4. \A i \in Item : strmCache[i] # None =>
        Aged(Later(strmCache[i])) \in Remembrance \union {None}
  BY YoungEntries, OlderRemembrance
<1>5. userCache' = [k \in Device \X Item |->
           IF userCache[k] = None THEN None ELSE Aged(userCache[k])]
  BY DEF Tick
<1>6. \A k \in Device \X Item : userCache[k] # None => Aged(userCache[k]) \in UserEntry \union {None}
  BY OlderUser DEF Inv, CacheTypes
<1> QED BY <1>1, <1>2, <1>3, <1>4, <1>5, <1>6

LEMMA StepTyped == Inv /\ [Next]_vars => Typed'
<1> SUFFICES ASSUME Inv, [Next]_vars PROVE Typed'
  OBVIOUS
<1> USE DEF Inv, Typed
<1>u. CASE UNCHANGED vars
  BY <1>u DEF vars, caches, request, CacheTypes, SlotTypes, Stages, InBody
<1>1. ASSUME NEW r \in Request, NEW a \in Ask, Arrive(r, a) PROVE Typed'
  <2>1. SlotTypes'
    BY <1>1, Numbers DEF Arrive, SlotTypes, PC
  <2>2. Stages'
    BY <1>1, AskKinds DEF Arrive, SlotTypes, Stages, InBody
  <2> QED BY <1>1, <2>1, <2>2 DEF Arrive, caches, CacheTypes
<1>2. ASSUME NEW r \in Request, ArriveOther(r) PROVE Typed'
  <2>1. SlotTypes'
    BY <1>2, Numbers DEF ArriveOther, SlotTypes, PC
  <2>2. Stages'
    BY <1>2 DEF ArriveOther, SlotTypes, Stages, InBody
  <2> QED BY <1>2, <2>1, <2>2 DEF ArriveOther, caches, CacheTypes
<1>3. ASSUME NEW r \in Request, LookUpUser(r) PROVE Typed'
  <2>1. KeyOf(r, UserOf(r)) \in CacheKey
    BY <1>3, KeyOfTyped DEF LookUpUser, Stages
  <2>2. SlotTypes'
    BY <1>3, <2>1 DEF LookUpUser, SlotTypes
  <2>3. Stages'
    BY <1>3, <2>1 DEF LookUpUser, SlotTypes, Stages, InBody
  <2> QED BY <1>3, <2>2, <2>3 DEF LookUpUser, caches, CacheTypes
<1>4. ASSUME NEW r \in Request, Hit(r) PROVE Typed'
  <2>1. urlCache[key[r]].to \in Redirect
    BY <1>4 DEF Hit, CacheTypes, SlotTypes, Kept
  <2>2. answer' \in [Request -> Redirect \union {None}]
    BY <1>4, <2>1 DEF Hit, SlotTypes
  <2> QED BY <1>4, <2>2, ClearTyped DEF Hit, caches, CacheTypes
<1>5. ASSUME NEW r \in Request, Miss(r) PROVE Typed'
  <2>1. /\ pc[r] = "queued" /\ pc' = [pc EXCEPT ![r] = pc'[r]] /\ pc'[r] \in {"query", "strm"}
        /\ key[r] \in CacheKey /\ key[r] # None /\ owner' = [owner EXCEPT ![key[r]] = r]
        /\ UNCHANGED <<caches, ask, key, path, todo, attempt, waiting, answer, asked>>
    BY <1>5 DEF Miss, EnterKey, KeyLock!Acquire, SlotTypes
  <2>2. SlotTypes'
    BY <2>1 DEF SlotTypes, PC
  <2>3. Stages'
    BY <2>1 DEF SlotTypes, Stages, InBody
  <2> QED BY <2>1, <2>2, <2>3 DEF caches, CacheTypes
<1>6. ASSUME NEW r \in Request, NEW known \in SUBSET Source, Query(r, known) PROVE Typed'
  <2>1. ASSUME NEW s \in known, Resolving(r, s, 0) PROVE Typed'
    <3>1. 0 \in 0..StrmTtl
      BY Numbers
    <3> QED BY <1>6, <2>1, <3>1, ResolvingTyped DEF Query
  <2>2. CASE /\ pc' = [pc EXCEPT ![r] = "strm"] /\ waiting' = [waiting EXCEPT ![r] = 0]
             /\ UNCHANGED <<caches, owner, ask, key, path, todo, attempt, answer, asked>>
    <3>1. SlotTypes'
      BY <2>2, Numbers DEF SlotTypes, PC
    <3>2. Stages'
      BY <1>6, <2>2 DEF Query, SlotTypes, Stages, InBody
    <3> QED BY <2>2, <3>1, <3>2 DEF caches, CacheTypes
  <2> QED BY <1>6, <2>1, <2>2 DEF Query
<1>7. ASSUME NEW r \in Request, FromStrmCache(r) PROVE Typed'
  <2>1. ASSUME NEW s \in Remembered(r), Resolving(r, s, strmCache[ask[r].item].seen)
        PROVE  Typed'
    <3>1. strmCache[ask[r].item] \in Remembrance /\ s \in Source
      BY <1>7, <2>1 DEF FromStrmCache, Remembered, CacheTypes, Remembrance, Stages, InBody, Stream
    <3>2. strmCache[ask[r].item].seen \in 0..StrmTtl
      BY <3>1 DEF Remembrance
    <3> QED BY <1>7, <2>1, <3>1, <3>2, ResolvingTyped DEF FromStrmCache
  <2>2. CASE /\ KeyLock!Release(r, key[r]) /\ pc' = [pc EXCEPT ![r] = "proxy"]
             /\ UNCHANGED <<caches, ask, key, path, todo, attempt, waiting, answer, asked>>
    <3>1. SlotTypes'
      BY <2>2 DEF SlotTypes, PC
    <3>2. Stages'
      BY <1>7, <2>2 DEF FromStrmCache, SlotTypes, Stages, InBody
    <3> QED BY <2>2, <3>1, <3>2 DEF KeyLock!Release, caches, CacheTypes
  <2> QED BY <1>7, <2>1, <2>2 DEF FromStrmCache
<1>8. ASSUME NEW r \in Request, NEW resolved \in BOOLEAN, Resolve(r, resolved) PROVE Typed'
  <2> DEFINE to == [path |-> path[r], resolved |-> resolved, age |-> 0]
             e == [to |-> to, left |-> Keep(resolved)]
  <2>1. key[r] \in CacheKey /\ to \in Redirect /\ e \in Kept
    BY <1>8, ResolveTyped
  <2>2. /\ PutUrl(key[r], e) /\ answer' = [answer EXCEPT ![r] = to]
        /\ Clear(r) /\ KeyLock!Release(r, key[r])
        /\ UNCHANGED <<strmCache, userCache, asked>>
    BY <1>8 DEF Resolve
  <2> HIDE DEF to, e
  <2>3. answer' \in [Request -> Redirect \union {None}]
    BY <2>1, <2>2 DEF SlotTypes
  <2>4. CacheTypes'
    BY <2>1, <2>2, PutTyped DEF KeyLock!Release, CacheTypes
  <2> QED BY <2>2, <2>3, <2>4, ClearTyped
<1>9. ASSUME NEW r \in Request, Retry(r) PROVE Typed'
  <2>1. attempt[r] + 1 \in 1..Attempts
    BY <1>9, Numbers DEF Retry, SlotTypes
  <2>2. SlotTypes'
    BY <1>9, <2>1, Numbers DEF Retry, SlotTypes
  <2>3. Stages'
    BY <1>9 DEF Retry, SlotTypes, Stages, InBody
  <2> QED BY <1>9, <2>2, <2>3 DEF Retry, caches, CacheTypes
<1>10. ASSUME NEW r \in Request, Proxy(r) \/ InfoPassed(r) PROVE Typed'
  <2>1. answer' \in [Request -> Redirect \union {None}]
    BY <1>10 DEF Proxy, InfoPassed, SlotTypes
  <2> QED BY <1>10, <2>1, ClearTyped DEF Proxy, InfoPassed, caches, CacheTypes
<1>11. ASSUME NEW r \in Request, NEW known \in SUBSET Source, InfoAnswered(r, known)
       PROVE  Typed'
  <2> DEFINE e == [sources |-> known, seen |-> 0, left |-> StrmTtl]
  <2>1. e \in Remembrance
    BY Numbers DEF Remembrance
  <2>2. /\ strmCache' = strmCache \/ strmCache' = [strmCache EXCEPT ![ask[r].item] = e]
        /\ UNCHANGED <<urlCache, userCache, owner>>
    BY <1>11 DEF InfoAnswered, Entry
  <2> HIDE DEF e
  <2>3. CacheTypes'
    BY <2>1, <2>2 DEF CacheTypes
  <2>4. SlotTypes'
    BY <1>11, Numbers DEF InfoAnswered, SlotTypes, PC
  <2>5. Stages'
    BY <1>11 DEF InfoAnswered, SlotTypes, Stages, InBody
  <2> QED BY <2>3, <2>4, <2>5
<1>12. ASSUME NEW r \in Request, NEW s \in Source, ResolveOne(r, s) PROVE Typed'
  <2>1. SlotTypes'
    BY <1>12, Numbers DEF ResolveOne, SlotTypes
  <2>2. Stages'
    BY <1>12 DEF ResolveOne, SlotTypes, Stages, InBody
  <2> QED BY <1>12, <2>1, <2>2 DEF ResolveOne, caches, CacheTypes
<1>13. ASSUME NEW r \in Request, RememberUser(r) PROVE Typed'
  <2>1. ask[r] \in Info /\ ask[r].user \in User \union {None}
    BY <1>13 DEF RememberUser, Stages, Info
  <2>2. ask[r].user # None => [user |-> ask[r].user, left |-> UserTtl] \in UserEntry
    BY <2>1, Numbers DEF UserEntry
  <2>3. CacheTypes'
    BY <1>13, <2>2 DEF RememberUser, Entry, CacheTypes
  <2>4. answer' \in [Request -> Redirect \union {None}]
    BY <1>13 DEF RememberUser, SlotTypes
  <2> QED BY <1>13, <2>3, <2>4, ClearTyped DEF RememberUser
<1>14. CASE Tick
  <2>1. /\ waiting' = [r \in Request |-> IF Awaits(r) THEN waiting[r] + 1 ELSE 0]
        /\ \A r \in Request : Awaits(r) => waiting[r] < Timeout
        /\ path' = [r \in Request |-> IF path[r] = None THEN None ELSE Later(path[r])]
        /\ answer' = [r \in Request |-> None]
        /\ UNCHANGED <<owner, pc, ask, key, todo, attempt, asked>>
    BY <1>14 DEF Tick
  <2>2. waiting' \in [Request -> 0..Timeout]
    BY <2>1, Numbers DEF SlotTypes
  <2>3. \A r \in Request : path[r] # None => path[r] \in Address /\ path[r].seen < MaxSeen
    <3> SUFFICES ASSUME NEW r \in Request, path[r] # None
                 PROVE  path[r] \in Address /\ path[r].seen < MaxSeen
      OBVIOUS
    <3>1. pc[r] = "resolve" /\ path[r] \in Address
      BY DEF Stages
    <3> QED BY <3>1, YoungPath
  <2>4. path' \in [Request -> Address \union {None}]
    BY <2>1, <2>3, LaterAddress
  <2>5. SlotTypes'
    BY <2>1, <2>2, <2>4 DEF SlotTypes
  <2>6. Stages'
    BY <2>1, <2>3, LaterAddress DEF SlotTypes, Stages, InBody
  <2>7. CacheTypes'
    BY <1>14, TickCaches DEF Tick, CacheTypes
  <2> QED BY <2>5, <2>6, <2>7
<1> QED
  BY <1>u, <1>1, <1>2, <1>3, <1>4, <1>5, <1>6, <1>7, <1>8, <1>9, <1>10, <1>11, <1>12, <1>13,
     <1>14 DEF Next, Proceed

-----------------------------------------------------------------------------
(* One request at a time resolves a key *)

\* A step outside of the key lock that puts nothing into the cache.
LEMMA Aside ==
    ASSUME Typed, ResolvedOnce, NEW r \in Request, owner' = owner,
           ~InBody(r), ~InBody(r)',
           \A q \in Request \ {r} : pc'[q] = pc[q] /\ key'[q] = key[q],
           \A k \in CacheKey : urlCache[k] = None => urlCache'[k] = None
    PROVE  ResolvedOnce'
<1>1. \A q \in Request : InBody(q)' => q # r /\ InBody(q) /\ key'[q] = key[q] /\ key[q] \in CacheKey
  BY DEF InBody, Typed, Stages
<1>2. \A k \in CacheKey : owner[k] # None => owner[k] \in Request /\ owner[k] # r
  BY DEF ResolvedOnce, Typed, CacheTypes
<1>3. \A q \in Request : q # r /\ InBody(q) => InBody(q)'
  BY DEF InBody
<1>4. \A q \in Request : InBody(q)' => owner'[key'[q]] = q /\ urlCache'[key'[q]] = None
  BY <1>1 DEF ResolvedOnce
<1>5. \A k \in CacheKey : owner'[k] # None => InBody(owner[k])' /\ key'[owner'[k]] = k
  <2> SUFFICES ASSUME NEW k \in CacheKey, owner'[k] # None
               PROVE  InBody(owner[k])' /\ key'[owner'[k]] = k
    OBVIOUS
  <2>1. PICK q \in Request : q = owner[k] /\ q # r
    BY <1>2
  <2>2. InBody(q) /\ key[q] = k
    BY <2>1 DEF ResolvedOnce
  <2>3. pc'[q] = pc[q] /\ key'[q] = key[q]
    BY <2>1
  <2> QED BY <2>1, <2>2, <2>3 DEF InBody
<1> QED BY <1>4, <1>5 DEF ResolvedOnce

\* A request that stays within the key lock.
LEMMA Within ==
    ASSUME Typed, ResolvedOnce, NEW r \in Request, UNCHANGED <<urlCache, owner, key>>,
           InBody(r), InBody(r)', \A q \in Request \ {r} : pc'[q] = pc[q]
    PROVE  ResolvedOnce'
<1>1. \A q \in Request : InBody(q)' <=> InBody(q)
  BY DEF InBody
<1>2. \A k \in CacheKey : owner[k] # None => owner[k] \in Request
  BY DEF Typed, CacheTypes
<1>3. \A k \in CacheKey : owner'[k] # None => InBody(owner[k])'
  <2> SUFFICES ASSUME NEW k \in CacheKey, owner'[k] # None PROVE InBody(owner[k])'
    OBVIOUS
  <2>1. PICK q \in Request : q = owner[k]
    BY <1>2
  <2> QED BY <1>1, <2>1 DEF ResolvedOnce, InBody
<1> QED BY <1>1, <1>3 DEF ResolvedOnce

\* A request that leaves the key lock; what it puts into the cache is for its key.
LEMMA Leaves ==
    ASSUME Typed, ResolvedOnce, NEW r \in Request, InBody(r), ~InBody(r)',
           owner' = [owner EXCEPT ![key[r]] = None],
           \A q \in Request \ {r} : pc'[q] = pc[q] /\ key'[q] = key[q],
           \A k \in CacheKey \ {key[r]} : urlCache[k] = None => urlCache'[k] = None
    PROVE  ResolvedOnce'
<1>1. \A q \in Request : InBody(q)' =>
        q # r /\ InBody(q) /\ key'[q] = key[q] /\ key[q] \in CacheKey /\ key[q] # key[r]
  BY DEF InBody, Typed, Stages, ResolvedOnce
<1>2. \A k \in CacheKey \ {key[r]} : owner[k] # None => owner[k] \in Request /\ owner[k] # r
  BY DEF ResolvedOnce, Typed, CacheTypes
<1>3. \A k \in CacheKey : owner'[k] = IF k = key[r] THEN None ELSE owner[k]
  BY DEF Typed, CacheTypes
<1>4. \A q \in Request : InBody(q)' => owner'[key'[q]] = q /\ urlCache'[key'[q]] = None
  BY <1>1, <1>3 DEF ResolvedOnce
<1>5. ASSUME NEW k \in CacheKey, owner'[k] # None
      PROVE  InBody(owner[k])' /\ key'[owner'[k]] = k
  <2>1. PICK q \in Request : q = owner[k] /\ q # r /\ owner'[k] = q
    BY <1>2, <1>3, <1>5
  <2>2. InBody(q) /\ key[q] = k
    BY <1>5, <2>1 DEF ResolvedOnce
  <2>3. pc'[q] = pc[q] /\ key'[q] = key[q]
    BY <2>1
  <2> QED BY <2>1, <2>2, <2>3 DEF InBody
<1> QED BY <1>4, <1>5 DEF ResolvedOnce

LEMMA StepOnce == Inv /\ [Next]_vars => ResolvedOnce'
<1> SUFFICES ASSUME Inv, [Next]_vars PROVE ResolvedOnce'
  OBVIOUS
<1>t. Typed /\ ResolvedOnce /\ pc \in [Request -> PC] /\ key \in [Request -> CacheKey \union {None}]
  BY DEF Inv, Typed, SlotTypes
<1>u. CASE UNCHANGED <<pc, key, owner, urlCache>>
  BY <1>t, <1>u DEF ResolvedOnce, InBody
<1>1. ASSUME NEW r \in Request, ArriveOther(r) \/ \E a \in Ask : Arrive(r, a)
      PROVE  ResolvedOnce'
  BY <1>t, <1>1, Aside DEF Arrive, ArriveOther, InBody, caches
<1>2. ASSUME NEW r \in Request, LookUpUser(r) PROVE ResolvedOnce'
  BY <1>t, <1>2, Aside DEF LookUpUser, InBody, caches
<1>3. ASSUME NEW r \in Request, Hit(r) \/ Proxy(r) \/ InfoPassed(r) \/ RememberUser(r)
      PROVE  ResolvedOnce'
  BY <1>t, <1>3, Aside DEF Hit, Proxy, InfoPassed, RememberUser, Clear, InBody, caches
<1>4. ASSUME NEW r \in Request, Miss(r) PROVE ResolvedOnce'
  <2>1. /\ pc[r] = "queued" /\ key[r] \in CacheKey /\ owner[key[r]] = None
        /\ owner' = [owner EXCEPT ![key[r]] = r] /\ urlCache[key[r]] = None
        /\ InBody(r)' /\ \A q \in Request \ {r} : pc'[q] = pc[q]
        /\ UNCHANGED <<urlCache, key>>
    BY <1>t, <1>4 DEF Miss, EnterKey, KeyLock!Acquire, InBody, caches
  <2>2. \A k \in CacheKey : owner'[k] = IF k = key[r] THEN r ELSE owner[k]
    BY <1>t, <2>1 DEF Typed, CacheTypes
  <2>3. \A q \in Request : InBody(q)' => owner'[key'[q]] = q /\ urlCache'[key'[q]] = None
    <3> SUFFICES ASSUME NEW q \in Request, InBody(q)'
                 PROVE  owner'[key'[q]] = q /\ urlCache'[key'[q]] = None
      OBVIOUS
    <3>1. CASE q = r
      BY <2>1, <2>2, <3>1
    <3>2. CASE q # r
      <4>1. InBody(q) /\ key[q] \in CacheKey
        BY <1>t, <2>1, <3>2 DEF InBody, Typed, Stages
      <4>2. owner[key[q]] = q /\ urlCache[key[q]] = None
        BY <1>t, <4>1 DEF ResolvedOnce
      <4>3. key[q] # key[r]
        BY <2>1, <4>2, ProxyAssumption
      <4> QED BY <2>1, <2>2, <4>1, <4>2, <4>3
    <3> QED BY <3>1, <3>2
  <2>4. ASSUME NEW k \in CacheKey, owner'[k] # None
        PROVE  InBody(owner[k])' /\ key'[owner'[k]] = k
    <3>1. CASE k = key[r]
      BY <2>1, <2>2, <3>1
    <3>2. CASE k # key[r]
      <4>1. PICK q \in Request : q = owner[k] /\ owner'[k] = q
        BY <1>t, <2>2, <2>4, <3>2 DEF Typed, CacheTypes
      <4>2. InBody(q) /\ key[q] = k
        BY <1>t, <2>4, <4>1 DEF ResolvedOnce
      <4>3. q # r
        BY <2>1, <4>2 DEF InBody
      <4> QED BY <2>1, <4>1, <4>2, <4>3 DEF InBody
    <3> QED BY <3>1, <3>2
  <2> QED BY <2>3, <2>4 DEF ResolvedOnce
<1>5. ASSUME NEW r \in Request, NEW known \in SUBSET Source, Query(r, known) PROVE ResolvedOnce'
  <2>1. /\ pc[r] = "query" /\ pc' = [pc EXCEPT ![r] = pc'[r]] /\ pc'[r] \in {"resolve", "strm"}
        /\ UNCHANGED <<urlCache, owner, key>>
    BY <1>t, <1>5 DEF Query, Resolving, caches
  <2> QED BY <1>t, <2>1, Within DEF InBody
<1>6. ASSUME NEW r \in Request, FromStrmCache(r) PROVE ResolvedOnce'
  <2>1. CASE /\ pc' = [pc EXCEPT ![r] = "resolve"] /\ UNCHANGED <<urlCache, owner, key>>
    BY <1>t, <1>6, <2>1, Within DEF FromStrmCache, InBody
  <2>2. CASE /\ pc' = [pc EXCEPT ![r] = "proxy"] /\ UNCHANGED <<urlCache, key>>
             /\ KeyLock!Release(r, key[r])
    BY <1>t, <1>6, <2>2, Leaves DEF FromStrmCache, InBody, KeyLock!Release
  <2> QED BY <1>6, <2>1, <2>2 DEF FromStrmCache, Resolving, caches
<1>7. ASSUME NEW r \in Request, NEW resolved \in BOOLEAN, Resolve(r, resolved)
      PROVE  ResolvedOnce'
  <2> DEFINE e == [to |-> [path |-> path[r], resolved |-> resolved, age |-> 0],
                   left |-> Keep(resolved)]
  <2>1. e \in Kept /\ key[r] \in CacheKey
    BY <1>7, ResolveTyped
  <2>2. PutUrl(key[r], e) /\ Clear(r) /\ pc[r] = "resolve" /\ KeyLock!Release(r, key[r])
    BY <1>7 DEF Resolve
  <2> HIDE DEF e
  <2>3. \A k \in CacheKey \ {key[r]} : urlCache[k] = None => urlCache'[k] = None
    BY <1>t, <2>1, <2>2, PutTyped DEF Typed
  <2> QED BY <1>t, <2>2, <2>3, Leaves DEF Clear, InBody, KeyLock!Release
<1>8. ASSUME NEW r \in Request, NEW known \in SUBSET Source, InfoAnswered(r, known)
      PROVE  ResolvedOnce'
  BY <1>t, <1>8, Aside DEF InfoAnswered, InBody
<1>9. CASE Tick
  <2>1. UNCHANGED <<pc, key, owner>>
    BY <1>9 DEF Tick
  <2>2. \A k \in CacheKey : urlCache[k] = None => urlCache'[k] = None
    BY <1>9, TickCaches
  <2>3. \A q \in Request : InBody(q)' <=> InBody(q)
    BY <2>1 DEF InBody
  <2>4. \A q \in Request : InBody(q) => key[q] \in CacheKey
    BY <1>t DEF Typed, Stages
  <2>5. \A k \in CacheKey : owner[k] # None => InBody(owner[k])' /\ key'[owner[k]] = k
    BY <1>t, <2>1 DEF ResolvedOnce, InBody
  <2> QED BY <1>t, <2>1, <2>2, <2>3, <2>4, <2>5 DEF ResolvedOnce
<1>10. ASSUME NEW r \in Request, Retry(r) \/ \E s \in Source : ResolveOne(r, s)
       PROVE  ResolvedOnce'
  BY <1>u, <1>10 DEF Retry, ResolveOne, caches
<1>11. CASE UNCHANGED vars
  BY <1>u, <1>11 DEF vars, caches, request
<1> QED
  BY <1>1, <1>2, <1>3, <1>4, <1>5, <1>6, <1>7, <1>8, <1>9, <1>10, <1>11 DEF Next, Proceed

-----------------------------------------------------------------------------
(* How old what is held can be *)

\* A path that has just been found is young enough to be resolved.
LEMMA FoundYoung ==
    ASSUME Inv, Typed', NEW r \in Request, NEW s \in Source, NEW seen \in 0..StrmTtl,
           seen < StrmTtl, pc[r] \in {"query", "strm"}, Resolving(r, s, seen)
    PROVE  Ages'
<1>1. UNCHANGED caches /\ path'[r].seen = seen /\ attempt' = attempt
      /\ waiting' = [waiting EXCEPT ![r] = 0]
      /\ \A q \in Request \ {r} : pc'[q] = pc[q] /\ path'[q] = path[q]
  BY ResolvingTyped DEF Resolving, Typed, Inv, SlotTypes
<1>2. attempt[r] = 1
  BY DEF Inv, Stages
<1>3. (1 - 1) * Timeout = 0 /\ StrmTtl + 0 + 0 = StrmTtl
  BY Numbers
<1>4. waiting'[r] = 0
  BY <1>1 DEF Inv, SlotTypes
<1>5. path'[r].seen < StrmTtl + (attempt'[r] - 1) * Timeout + waiting'[r]
  BY <1>1, <1>2, <1>3, <1>4
<1>6. \A q \in Request \ {r} : waiting'[q] = waiting[q]
  BY <1>1 DEF Inv, SlotTypes
<1> QED BY <1>1, <1>5, <1>6 DEF Ages, Inv, caches

LEMMA StepAges == Inv /\ [Next]_vars => Ages'
<1> SUFFICES ASSUME Inv, [Next]_vars PROVE Ages'
  OBVIOUS
<1>t. Typed /\ Typed' /\ Ages
  BY StepTyped DEF Inv, Typed
<1>u. CASE /\ UNCHANGED <<urlCache, strmCache>>
           /\ \A r \in Request : pc'[r] = "resolve" =>
                pc[r] = "resolve" /\ path'[r] = path[r] /\ attempt'[r] = attempt[r]
                /\ waiting'[r] = waiting[r]
  BY <1>t, <1>u DEF Ages
<1>1. ASSUME NEW r \in Request, ArriveOther(r) \/ \E a \in Ask : Arrive(r, a) PROVE Ages'
  BY <1>t, <1>u, <1>1 DEF Arrive, ArriveOther, caches, Typed, SlotTypes
<1>2. ASSUME NEW r \in Request, LookUpUser(r) \/ Miss(r) PROVE Ages'
  BY <1>t, <1>u, <1>2 DEF LookUpUser, Miss, caches, Typed, SlotTypes
<1>3. ASSUME NEW r \in Request, Hit(r) \/ Proxy(r) \/ InfoPassed(r) \/ RememberUser(r)
      PROVE  Ages'
  BY <1>t, <1>u, <1>3 DEF Hit, Proxy, InfoPassed, RememberUser, Clear, caches, Typed, SlotTypes
<1>4. ASSUME NEW r \in Request, NEW known \in SUBSET Source, Query(r, known) PROVE Ages'
  <2>1. ASSUME NEW s \in known, Resolving(r, s, 0) PROVE Ages'
    BY <1>t, <1>4, <2>1, Numbers, FoundYoung DEF Query
  <2>2. CASE /\ pc' = [pc EXCEPT ![r] = "strm"] /\ waiting' = [waiting EXCEPT ![r] = 0]
             /\ UNCHANGED <<caches, path, attempt>>
    BY <1>t, <1>u, <2>2 DEF caches, Typed, SlotTypes
  <2> QED BY <1>4, <2>1, <2>2 DEF Query
<1>5. ASSUME NEW r \in Request, FromStrmCache(r) PROVE Ages'
  <2>1. ASSUME NEW s \in Remembered(r), Resolving(r, s, strmCache[ask[r].item].seen)
        PROVE  Ages'
    <3>1. /\ ask[r].item \in Item /\ strmCache[ask[r].item] # None /\ pc[r] = "strm"
          /\ s \in Remembered(r)
      BY <1>t, <1>5, <2>1 DEF FromStrmCache, Remembered, Typed, Stages, InBody, Stream
    <3>2. strmCache[ask[r].item] \in Remembrance /\ strmCache[ask[r].item].seen < StrmTtl
      BY <3>1, YoungEntries
    <3>3. s \in Source
      BY <3>1, <3>2 DEF Remembered, Remembrance
    <3>4. strmCache[ask[r].item].seen \in 0..StrmTtl
      BY <3>2 DEF Remembrance
    <3> QED BY <1>t, <2>1, <3>1, <3>2, <3>3, <3>4, FoundYoung
  <2>2. CASE /\ pc' = [pc EXCEPT ![r] = "proxy"]
             /\ UNCHANGED <<caches, path, attempt, waiting>>
    BY <1>t, <1>u, <2>2 DEF caches, Typed, SlotTypes
  <2> QED BY <1>5, <2>1, <2>2 DEF FromStrmCache
<1>6. ASSUME NEW r \in Request, NEW resolved \in BOOLEAN, Resolve(r, resolved) PROVE Ages'
  <2> DEFINE to == [path |-> path[r], resolved |-> resolved, age |-> 0]
             e == [to |-> to, left |-> Keep(resolved)]
  <2>1. key[r] \in CacheKey /\ to \in Redirect /\ e \in Kept
    BY <1>6, ResolveTyped
  <2>2. PutUrl(key[r], e) /\ Clear(r) /\ pc[r] = "resolve" /\ UNCHANGED strmCache
    BY <1>6 DEF Resolve
  <2>3. /\ e.to.age + e.left = Keep(e.to.resolved)
        /\ e.to.path.seen < StrmTtl + Waits + e.to.age
    <3>1. Keep(resolved) \in Nat /\ path[r].seen < StrmTtl + Waits
      BY <2>2, KeepBounds, YoungPath, Numbers
    <3>2. 0 + Keep(resolved) = Keep(resolved) /\ StrmTtl + Waits + 0 = StrmTtl + Waits
      BY <3>1, Numbers
    <3> QED BY <3>1, <3>2
  <2> HIDE DEF to, e
  <2>4. \A k \in CacheKey : urlCache'[k] = urlCache[k] \/ urlCache'[k] = None \/ urlCache'[k] = e
    BY <1>t, <2>1, <2>2, PutTyped DEF Typed
  <2>5. \A q \in Request : pc'[q] = "resolve" =>
          pc[q] = "resolve" /\ path'[q] = path[q] /\ attempt'[q] = attempt[q]
          /\ waiting'[q] = waiting[q]
    BY <1>t, <2>2 DEF Clear, Typed, SlotTypes
  <2>6. \A k \in CacheKey : urlCache'[k] # None =>
          /\ urlCache'[k].to.age + urlCache'[k].left = Keep(urlCache'[k].to.resolved)
          /\ urlCache'[k].to.path.seen < StrmTtl + Waits + urlCache'[k].to.age
    BY <1>t, <2>3, <2>4 DEF Ages
  <2> QED BY <1>t, <2>2, <2>5, <2>6 DEF Ages
<1>7. ASSUME NEW r \in Request, Retry(r) PROVE Ages'
  <2>1. CASE pc[r] # "resolve"
    BY <1>t, <1>u, <1>7, <2>1 DEF Retry, caches, Typed, SlotTypes
  <2>2. CASE pc[r] = "resolve"
    <3> DEFINE before == (attempt[r] - 1) * Timeout
               now == (attempt'[r] - 1) * Timeout
    <3>1. /\ attempt[r] \in 1..Attempts /\ attempt'[r] = attempt[r] + 1 /\ waiting'[r] = 0
          /\ waiting[r] \in 0..Timeout /\ path'[r] = path[r] /\ path[r].seen \in Nat
      BY <1>t, <1>7, <2>2, Numbers DEF Retry, Typed, SlotTypes, Stages, Address
    <3>2. path[r].seen < StrmTtl + before + waiting[r]
      BY <1>t, <2>2 DEF Ages
    <3>3. attempt'[r] - 1 = attempt[r]
      BY <3>1, Numbers
    <3>4. before \in Nat /\ before + Timeout = now
      BY <3>1, <3>3, WaitsOfAttempt
    <3> HIDE DEF before, now
    <3>5. path'[r].seen < StrmTtl + now + waiting'[r]
      BY <3>1, <3>2, <3>4, Numbers
    <3>6. /\ \A q \in Request \ {r} : waiting'[q] = waiting[q] /\ attempt'[q] = attempt[q]
          /\ UNCHANGED <<urlCache, strmCache, pc, path>>
      BY <1>t, <1>7 DEF Retry, caches, Typed, SlotTypes
    <3> QED BY <1>t, <3>5, <3>6 DEF Ages, now
  <2> QED BY <2>1, <2>2
<1>8. ASSUME NEW r \in Request, NEW known \in SUBSET Source, InfoAnswered(r, known) PROVE Ages'
  <2> DEFINE e == [sources |-> known, seen |-> 0, left |-> StrmTtl]
  <2>1. e.seen + e.left = StrmTtl
    BY Numbers
  <2>2. strmCache' = strmCache \/ strmCache' = [strmCache EXCEPT ![ask[r].item] = e]
    BY <1>8 DEF InfoAnswered, Entry
  <2> HIDE DEF e
  <2>3. \A i \in Item : strmCache'[i] = strmCache[i] \/ strmCache'[i] = e
    BY <1>t, <2>2 DEF Typed, CacheTypes
  <2>4. UNCHANGED urlCache /\ \A q \in Request : pc'[q] = "resolve" =>
          pc[q] = "resolve" /\ path'[q] = path[q] /\ attempt'[q] = attempt[q]
          /\ waiting'[q] = waiting[q]
    BY <1>t, <1>8 DEF InfoAnswered, Typed, SlotTypes
  <2> QED BY <1>t, <2>1, <2>3, <2>4 DEF Ages
<1>9. ASSUME NEW r \in Request, NEW s \in Source, ResolveOne(r, s) PROVE Ages'
  BY <1>t, <1>u, <1>9 DEF ResolveOne, caches, Typed, SlotTypes
<1>10. CASE Tick
  <2>1. ASSUME NEW i \in Item, strmCache'[i] # None
        PROVE  strmCache'[i].seen + strmCache'[i].left = StrmTtl
    <3>1. strmCache[i] # None /\ strmCache'[i] = Aged(Later(strmCache[i]))
      BY <1>10, <2>1, TickCaches
    <3>2. strmCache[i] \in Remembrance /\ strmCache[i].seen < StrmTtl
      BY <3>1, YoungEntries
    <3>3. strmCache'[i].seen = strmCache[i].seen + 1 /\ strmCache'[i].left = strmCache[i].left - 1
      BY <2>1, <3>1, <3>2, OlderRemembrance
    <3>4. strmCache[i].seen \in Nat /\ strmCache[i].left \in Nat
      BY <3>2, Numbers DEF Remembrance
    <3>5. strmCache[i].seen + strmCache[i].left = StrmTtl
      BY <1>t, <3>1 DEF Ages
    <3> QED BY <3>3, <3>4, <3>5, Numbers
  <2>2. ASSUME NEW r \in Request, pc'[r] = "resolve"
        PROVE  path'[r].seen < StrmTtl + (attempt'[r] - 1) * Timeout + waiting'[r]
    <3> DEFINE before == (attempt[r] - 1) * Timeout
    <3>1. pc[r] = "resolve" /\ path[r] \in Address /\ attempt' = attempt
      BY <1>t, <1>10, <2>2 DEF Tick, Typed, Stages
    <3>2. /\ waiting[r] \in Nat /\ waiting'[r] = waiting[r] + 1
          /\ path'[r] = (IF path[r] = None THEN None ELSE Later(path[r]))
          /\ attempt[r] \in 1..Attempts /\ path[r].seen \in Nat
      <4>1. waiting[r] \in Nat /\ attempt[r] \in 1..Attempts
        BY <1>t, Numbers DEF Typed, SlotTypes
      <4>2. path[r].seen \in Nat
        BY <3>1, Numbers DEF Address
      <4>3. /\ waiting'[r] = waiting[r] + 1
            /\ path'[r] = (IF path[r] = None THEN None ELSE Later(path[r]))
        BY <1>10, <3>1 DEF Tick, Awaits
      <4> QED BY <4>1, <4>2, <4>3
    <3>3. path'[r].seen \in {path[r].seen, path[r].seen + 1}
      BY <3>1, <3>2, YoungPath, LaterAddress
    <3>4. path[r].seen < StrmTtl + before + waiting[r]
      BY <1>t, <3>1 DEF Ages
    <3>5. before \in Nat
      BY <3>2, WaitsOfAttempt
    <3> HIDE DEF before
    <3>6. path'[r].seen < StrmTtl + before + waiting'[r]
      BY <3>2, <3>3, <3>4, <3>5, Numbers
    <3> QED BY <3>1, <3>6 DEF before
  <2>3. ASSUME NEW k \in CacheKey, urlCache'[k] # None
        PROVE  /\ urlCache'[k].to.age + urlCache'[k].left = Keep(urlCache'[k].to.resolved)
               /\ urlCache'[k].to.path.seen < StrmTtl + Waits + urlCache'[k].to.age
    <3> DEFINE e == urlCache[k]
               f == urlCache'[k]
    <3>1. e # None /\ f = Older(e)
      BY <1>10, <2>3, TickCaches
    <3>2. e \in Kept /\ e.to.path.seen < MaxSeen /\ e.to.age < UrlTtl
      BY <3>1, YoungEntries
    <3>3. /\ e.to.age + e.left = Keep(e.to.resolved)
          /\ e.to.path.seen < StrmTtl + Waits + e.to.age
      BY <1>t, <3>1 DEF Ages
    <3>4. f # None
      BY <2>3
    <3> HIDE DEF e, f
    <3>5. /\ f.left = e.left - 1 /\ f.to.age = e.to.age + 1 /\ f.to.resolved = e.to.resolved
          /\ f.to.path = Later(e.to.path)
      BY <3>1, <3>2, <3>4, OlderEntry
    <3>6. /\ e.left \in Nat /\ e.to.age \in Nat /\ e.to.path.seen \in Nat
          /\ e.to.path \in Address /\ e.to.resolved \in BOOLEAN
      BY <3>2, Numbers DEF Kept, Redirect, Address
    <3>7. f.to.path.seen = e.to.path.seen + 1
      BY <3>2, <3>5, <3>6, LaterAddress
    <3>8. Keep(e.to.resolved) \in Nat
      BY <3>6, KeepBounds, Numbers
    <3>9. f.to.age + f.left = Keep(f.to.resolved)
      BY <3>3, <3>5, <3>6, <3>8
    <3>10. f.to.path.seen < StrmTtl + Waits + f.to.age
      BY <3>3, <3>5, <3>6, <3>7, Numbers
    <3> QED BY <3>9, <3>10 DEF f
  <2> QED BY <2>1, <2>2, <2>3 DEF Ages
<1>11. CASE UNCHANGED vars
  BY <1>u, <1>11 DEF vars, caches, request
<1> QED
  BY <1>1, <1>2, <1>3, <1>4, <1>5, <1>6, <1>7, <1>8, <1>9, <1>10, <1>11 DEF Next, Proceed

-----------------------------------------------------------------------------
(* Whom an address is for *)

\* The request part of Fits, for one request.
Suits(r) ==
    /\ key[r] # None =>
         key[r][1] = ask[r].item /\ key[r][2] = ask[r].source /\ key[r][4] = ask[r].device
    /\ pc[r] = "resolve" => Right(path[r], ask[r].item, ask[r].source, ask[r].device)

LEMMA FoundFits ==
    ASSUME Inv, Typed', NEW r \in Request, NEW s \in Source, NEW seen \in 0..StrmTtl,
           pc[r] \in {"query", "strm"}, Resolving(r, s, seen)
    PROVE  Fits'
<1>1. UNCHANGED <<caches, key, ask>>
      /\ \A q \in Request \ {r} : pc'[q] = pc[q] /\ path'[q] = path[q]
  BY DEF Resolving, Inv, SlotTypes
<1>2. Right(path'[r], ask[r].item, ask[r].source, ask[r].device)
  BY ResolvingTyped DEF Inv, Typed
<1>3. Suits(r)'
  BY <1>1, <1>2 DEF Suits, Fits, Inv
<1>4. \A q \in Request \ {r} : Suits(q)'
  BY <1>1 DEF Suits, Fits, Inv
<1>5. \A q \in Request : Suits(q)'
  BY <1>3, <1>4
<1>6. \A k \in CacheKey : urlCache'[k] # None => Right(urlCache'[k].to.path, k[1], k[2], k[4])
  BY <1>1 DEF Inv, Fits, caches
<1> QED BY <1>5, <1>6 DEF Fits, Suits

LEMMA StepFits == Inv /\ [Next]_vars => Fits'
<1> SUFFICES ASSUME Inv, [Next]_vars PROVE Fits'
  OBVIOUS
<1>t. Typed /\ Typed' /\ Fits
  BY StepTyped DEF Inv, Typed
<1>u. CASE /\ UNCHANGED urlCache
           /\ \A r \in Request :
                /\ key'[r] = None \/ (key'[r] = key[r] /\ ask'[r] = ask[r])
                /\ pc'[r] = "resolve" =>
                     pc[r] = "resolve" /\ path'[r] = path[r] /\ ask'[r] = ask[r]
  <2>1. ASSUME NEW r \in Request PROVE Suits(r)'
    BY <1>t, <1>u DEF Fits, Suits
  <2> QED BY <1>t, <1>u, <2>1 DEF Fits, Suits
<1>1. ASSUME NEW r \in Request, ArriveOther(r) \/ \E a \in Ask : Arrive(r, a) PROVE Fits'
  <2>1. key[r] = None
    BY <1>t, <1>1 DEF Arrive, ArriveOther, Typed, Stages, InBody
  <2> QED BY <1>t, <1>u, <1>1, <2>1 DEF Arrive, ArriveOther, caches, Typed, SlotTypes
<1>2. ASSUME NEW r \in Request, LookUpUser(r) PROVE Fits'
  <2> DEFINE k == KeyOf(r, UserOf(r))
  <2>1. k[1] = ask[r].item /\ k[2] = ask[r].source /\ k[4] = ask[r].device
    BY <1>t, <1>2, KeyOfTyped DEF LookUpUser, Typed, Stages
  <2>2. key' = [key EXCEPT ![r] = k] /\ UNCHANGED <<urlCache, pc, ask, path>> /\ pc[r] = "queued"
    BY <1>2 DEF LookUpUser, caches
  <2> HIDE DEF k
  <2>3. ASSUME NEW q \in Request PROVE Suits(q)'
    BY <1>t, <2>1, <2>2 DEF Fits, Suits, Typed, SlotTypes
  <2> QED BY <1>t, <2>2, <2>3 DEF Fits, Suits
<1>3. ASSUME NEW r \in Request, Hit(r) \/ Proxy(r) \/ InfoPassed(r) \/ RememberUser(r)
      PROVE  Fits'
  BY <1>t, <1>u, <1>3 DEF Hit, Proxy, InfoPassed, RememberUser, Clear, caches, Typed, SlotTypes
<1>4. ASSUME NEW r \in Request, Miss(r) PROVE Fits'
  BY <1>t, <1>u, <1>4 DEF Miss, caches, Typed, SlotTypes
<1>5. ASSUME NEW r \in Request, NEW known \in SUBSET Source, Query(r, known) PROVE Fits'
  <2>1. ASSUME NEW s \in known, Resolving(r, s, 0) PROVE Fits'
    BY <1>t, <1>5, <2>1, Numbers, FoundFits DEF Query
  <2>2. CASE pc' = [pc EXCEPT ![r] = "strm"] /\ UNCHANGED <<caches, path, ask, key>>
    BY <1>t, <1>u, <2>2 DEF caches, Typed, SlotTypes
  <2> QED BY <1>5, <2>1, <2>2 DEF Query
<1>6. ASSUME NEW r \in Request, FromStrmCache(r) PROVE Fits'
  <2>1. ASSUME NEW s \in Remembered(r), Resolving(r, s, strmCache[ask[r].item].seen)
        PROVE  Fits'
    <3>1. /\ ask[r].item \in Item /\ strmCache[ask[r].item] # None /\ pc[r] = "strm"
          /\ s \in Remembered(r)
      BY <1>t, <1>6, <2>1 DEF FromStrmCache, Remembered, Typed, Stages, InBody, Stream
    <3>2. strmCache[ask[r].item] \in Remembrance
      BY <3>1, YoungEntries
    <3>3. s \in Source /\ strmCache[ask[r].item].seen \in 0..StrmTtl
      BY <3>1, <3>2 DEF Remembered, Remembrance
    <3> QED BY <1>t, <2>1, <3>1, <3>3, FoundFits
  <2>2. CASE pc' = [pc EXCEPT ![r] = "proxy"] /\ UNCHANGED <<caches, path, ask, key>>
    BY <1>t, <1>u, <2>2 DEF caches, Typed, SlotTypes
  <2> QED BY <1>6, <2>1, <2>2 DEF FromStrmCache
<1>7. ASSUME NEW r \in Request, NEW resolved \in BOOLEAN, Resolve(r, resolved) PROVE Fits'
  <2> DEFINE e == [to |-> [path |-> path[r], resolved |-> resolved, age |-> 0],
                   left |-> Keep(resolved)]
  <2>1. e \in Kept /\ key[r] \in CacheKey
    BY <1>7, ResolveTyped
  <2>2. PutUrl(key[r], e) /\ Clear(r) /\ pc[r] = "resolve" /\ InBody(r)
    BY <1>7 DEF Resolve, InBody
  <2>3. e.to.path = path[r]
    OBVIOUS
  <2> HIDE DEF e
  <2>5. key[r] # None
    BY <1>t, <2>2 DEF Typed, Stages
  <2>6. Right(e.to.path, key[r][1], key[r][2], key[r][4])
    BY <1>t, <2>2, <2>3, <2>5 DEF Fits
  <2>7. \A k \in CacheKey : urlCache'[k] # None => Right(urlCache'[k].to.path, k[1], k[2], k[4])
    BY <1>t, <2>1, <2>2, <2>6, PutTyped DEF Fits, Typed
  <2>8. ASSUME NEW q \in Request PROVE Suits(q)'
    BY <1>t, <2>2 DEF Clear, Fits, Suits, Typed, SlotTypes
  <2> QED BY <2>7, <2>8 DEF Fits, Suits
<1>8. ASSUME NEW r \in Request, Retry(r) \/ \E s \in Source : ResolveOne(r, s) PROVE Fits'
  BY <1>t, <1>u, <1>8 DEF Retry, ResolveOne, caches
<1>9. ASSUME NEW r \in Request, NEW known \in SUBSET Source, InfoAnswered(r, known) PROVE Fits'
  BY <1>t, <1>u, <1>9 DEF InfoAnswered, Typed, SlotTypes
<1>10. CASE Tick
  <2>1. ASSUME NEW q \in Request PROVE Suits(q)'
    <3>1. UNCHANGED <<pc, key, ask>>
          /\ path'[q] = (IF path[q] = None THEN None ELSE Later(path[q]))
      BY <1>10 DEF Tick
    <3>2. CASE pc[q] # "resolve"
      BY <1>t, <3>1, <3>2 DEF Fits, Suits
    <3>3. CASE pc[q] = "resolve"
      <4>1. path[q] \in Address /\ path[q].seen < MaxSeen
        BY <1>t, <3>3, YoungPath DEF Typed, Stages
      <4>2. Right(path'[q], ask[q].item, ask[q].source, ask[q].device)
        BY <1>t, <3>1, <3>3, <4>1, LaterAddress DEF Fits, Right
      <4> QED BY <1>t, <3>1, <4>2 DEF Fits, Suits
    <3> QED BY <3>2, <3>3
  <2>2. ASSUME NEW k \in CacheKey, urlCache'[k] # None
        PROVE  Right(urlCache'[k].to.path, k[1], k[2], k[4])
    <3>1. urlCache[k] # None /\ urlCache'[k] = Older(urlCache[k])
      BY <1>10, <2>2, TickCaches
    <3>2. /\ urlCache[k] \in Kept /\ urlCache[k].to.path.seen < MaxSeen
          /\ urlCache[k].to.age < UrlTtl
      BY <3>1, YoungEntries
    <3>3. urlCache'[k].to.path = Later(urlCache[k].to.path)
      BY <2>2, <3>1, <3>2, OlderEntry
    <3>4. urlCache[k].to.path \in Address
      BY <3>2 DEF Kept, Redirect
    <3> QED BY <1>t, <3>1, <3>2, <3>3, <3>4, LaterAddress DEF Fits, Right
  <2> QED BY <2>1, <2>2 DEF Fits, Suits
<1>11. CASE UNCHANGED vars
  BY <1>u, <1>11 DEF vars, caches, request
<1> QED
  BY <1>1, <1>2, <1>3, <1>4, <1>5, <1>6, <1>7, <1>8, <1>9, <1>10, <1>11 DEF Next, Proceed

-----------------------------------------------------------------------------
(* What the players are told *)

LEMMA InitInv == Init => Inv
<1> SUFFICES ASSUME Init PROVE Inv
  OBVIOUS
<1>1. Typed
  BY InitTyped
<1>2. ResolvedOnce /\ Ages /\ Fits /\ AnswersFresh
  BY DEF Init, KeyLock!Init, ResolvedOnce, InBody, Ages, Fits, AnswersFresh
<1> QED BY <1>1, <1>2 DEF Typed, Inv

\* What a stored address says is told to the player that finds it.
LEMMA HitTold ==
    ASSUME Inv, NEW r \in Request, Hit(r)
    PROVE  LET to == urlCache[key[r]].to
           IN  /\ answer' = [answer EXCEPT ![r] = to]
               /\ to.path.seen < MaxSeen
               /\ to.age < (IF to.resolved THEN UrlTtl ELSE ShortTtl)
               /\ Right(to.path, ask[r].item, ask[r].source, ask[r].device)
<1>1. key[r] # None /\ key[r] \in CacheKey /\ urlCache[key[r]] # None
  BY DEF Hit, Inv, SlotTypes
<1>2. /\ urlCache[key[r]] \in Kept /\ urlCache[key[r]].to.path.seen < MaxSeen
      /\ urlCache[key[r]].to.age < Keep(urlCache[key[r]].to.resolved)
  BY <1>1, YoungEntries
<1>3. urlCache[key[r]].to.resolved \in BOOLEAN
  BY <1>2 DEF Kept, Redirect
<1>4. Right(urlCache[key[r]].to.path, ask[r].item, ask[r].source, ask[r].device)
  BY <1>1 DEF Inv, Fits
<1> QED BY <1>2, <1>3, <1>4, KeepBounds DEF Hit

\* And what has just been resolved.
LEMMA ResolveTold ==
    ASSUME Inv, NEW r \in Request, NEW resolved \in BOOLEAN, Resolve(r, resolved)
    PROVE  LET to == [path |-> path[r], resolved |-> resolved, age |-> 0]
           IN  /\ answer' = [answer EXCEPT ![r] = to]
               /\ to.path.seen < MaxSeen
               /\ to.age < (IF to.resolved THEN UrlTtl ELSE ShortTtl)
               /\ Right(to.path, ask[r].item, ask[r].source, ask[r].device)
<1>1. pc[r] = "resolve" /\ answer' = [answer EXCEPT ![r] = [path |-> path[r],
                                      resolved |-> resolved, age |-> 0]]
  BY DEF Resolve
<1>2. path[r].seen < MaxSeen /\ Right(path[r], ask[r].item, ask[r].source, ask[r].device)
  BY <1>1, YoungPath DEF Inv, Fits
<1> QED BY <1>1, <1>2, Numbers

\* Every other step leaves a player's last answer alone or takes it back.
LEMMA NothingTold ==
    ASSUME Inv, [Next]_vars, NEW r \in Request, ~Hit(r),
           ~\E resolved \in BOOLEAN : Resolve(r, resolved)
    PROVE  answer'[r] = answer[r] \/ answer'[r] = None
<1> USE DEF Inv, SlotTypes
<1>1. ASSUME NEW q \in Request, Hit(q) \/ \E resolved \in BOOLEAN : Resolve(q, resolved)
      PROVE  answer'[r] = answer[r]
  BY <1>1 DEF Hit, Resolve
<1>2. ASSUME NEW q \in Request, ArriveOther(q) \/ \E a \in Ask : Arrive(q, a)
      PROVE  answer'[r] = answer[r] \/ answer'[r] = None
  BY <1>2 DEF Arrive, ArriveOther
<1>3. ASSUME NEW q \in Request,
             LookUpUser(q) \/ Miss(q) \/ FromStrmCache(q) \/ Retry(q) \/ Proxy(q)
      PROVE  answer' = answer
  BY <1>3 DEF LookUpUser, Miss, FromStrmCache, Resolving, Retry, Proxy
<1>4. ASSUME NEW q \in Request,
             InfoPassed(q) \/ RememberUser(q) \/ \E s \in Source : ResolveOne(q, s)
      PROVE  answer' = answer
  BY <1>4 DEF InfoPassed, RememberUser, ResolveOne
<1>5. ASSUME NEW q \in Request, NEW known \in SUBSET Source,
             Query(q, known) \/ InfoAnswered(q, known)
      PROVE  answer' = answer
  BY <1>5 DEF Query, Resolving, InfoAnswered
<1>6. CASE Tick
  BY <1>6 DEF Tick
<1>7. CASE UNCHANGED vars
  BY <1>7 DEF vars
<1> QED BY <1>1, <1>2, <1>3, <1>4, <1>5, <1>6, <1>7 DEF Next, Proceed

LEMMA StepFresh == Inv /\ [Next]_vars => AnswersFresh'
<1> SUFFICES ASSUME Inv, [Next]_vars, NEW r \in Request, answer'[r] # None
             PROVE  /\ answer'[r].path.seen < MaxSeen
                    /\ answer'[r].age < (IF answer'[r].resolved THEN UrlTtl ELSE ShortTtl)
  BY DEF AnswersFresh
<1>1. CASE Hit(r)
  BY <1>1, HitTold DEF Inv, SlotTypes
<1>2. CASE \E resolved \in BOOLEAN : Resolve(r, resolved)
  BY <1>2, ResolveTold DEF Inv, SlotTypes
<1>3. CASE ~Hit(r) /\ ~\E resolved \in BOOLEAN : Resolve(r, resolved)
  <2>1. answer'[r] = answer[r]
    BY <1>3, NothingTold
  <2> QED BY <2>1 DEF Inv, AnswersFresh
<1> QED BY <1>1, <1>2, <1>3

LEMMA InvHolds == Spec => []Inv
<1>1. Inv /\ [Next]_vars => Inv'
  BY StepTyped, StepOnce, StepAges, StepFits, StepFresh DEF Inv, Typed
<1> QED BY <1>1, InitInv, PTL DEF Spec

-----------------------------------------------------------------------------

\* The caches, the locks and the slots of the requests hold what the code puts
\* there, for any number of films, players and requests.
THEOREM ProxyTypes == Spec => []TypeOK
<1>1. Inv => TypeOK
  BY DEF Inv, CacheTypes, SlotTypes, TypeOK, Kept, Remembrance, UserEntry, PC
<1> QED BY <1>1, InvHolds, PTL

\* However many players ask for the same film at once, one request asks Emby
\* and the 302 service, with the key and an empty cache; the key is never left
\* with a request that is over (_try_media_response, AsyncKeyLock).
THEOREM KeysResolveOnce == Spec => []ResolvedOnce
<1>1. Inv => ResolvedOnce
  BY DEF Inv
<1> QED BY <1>1, InvHolds, PTL

\* No player is sent to an address older than its time to live, nor to a path
\* that Emby named longer ago than the caches and the waits on the way from
\* there add up to, whatever the times and the number of attempts.
THEOREM AddressesFresh == Spec => []AnswersFresh
<1>1. Inv => AnswersFresh
  BY DEF Inv
<1> QED BY <1>1, InvHolds, PTL

\* Every 302 is for the film, the player and, unless it was guessed, the version
\* of the request it answers, whether it comes from a cache or was just resolved.
THEOREM AddressesOwn == Spec => OwnAddress
<1> DEFINE Own(r) ==
      answer[r] = None /\ answer'[r] # None =>
          LET p == answer'[r].path
          IN  /\ p.item = ask[r].item /\ p.device = ask[r].device
              /\ ask[r].source \in {None, p.source} \/ p.guessed
<1>1. Inv /\ [Next]_vars => [\A r \in Request : Own(r)]_vars
  <2> SUFFICES ASSUME Inv, [Next]_vars, NEW r \in Request, answer[r] = None,
                      answer'[r] # None
               PROVE  Right(answer'[r].path, ask[r].item, ask[r].source, ask[r].device)
    BY DEF Right
  <2>1. CASE Hit(r)
    BY <2>1, HitTold DEF Inv, SlotTypes
  <2>2. CASE \E resolved \in BOOLEAN : Resolve(r, resolved)
    BY <2>2, ResolveTold DEF Inv, SlotTypes
  <2>3. CASE ~Hit(r) /\ ~\E resolved \in BOOLEAN : Resolve(r, resolved)
    BY <2>3, NothingTold
  <2> QED BY <2>1, <2>2, <2>3
<1> QED BY <1>1, InvHolds, PTL DEF Spec, OwnAddress

\* The keys are left as the mutex says that module KeyLock is proved to
\* implement: one request after the other, whether its request ends with an
\* address, with the path itself or in the proxy (_try_media_response).
THEOREM StreamsExclude == Spec => KeyLock!Spec
<1>1. Init => KeyLock!Init
  BY DEF Init
<1>2. Inv /\ [Next]_vars => [KeyLock!Next]_owner
  <2> SUFFICES ASSUME Inv, [Next]_vars PROVE KeyLock!Next \/ UNCHANGED owner
    OBVIOUS
  <2>1. ASSUME NEW r \in Request, Miss(r) PROVE KeyLock!Next
    <3>1. key[r] \in CacheKey
      BY <2>1 DEF Miss, Inv, Typed, SlotTypes
    <3> QED BY <2>1, <3>1 DEF Miss, EnterKey, KeyLock!Next
  <2>2. ASSUME NEW r \in Request, pc[r] \in {"strm", "resolve"}, KeyLock!Release(r, key[r])
        PROVE  KeyLock!Next
    <3>1. key[r] \in CacheKey
      BY <2>2 DEF Inv, Typed, Stages, InBody
    <3> QED BY <2>2, <3>1 DEF KeyLock!Next
  <2>3. ASSUME NEW r \in Request, FromStrmCache(r) PROVE KeyLock!Next \/ UNCHANGED owner
    BY <2>2, <2>3 DEF FromStrmCache, Resolving
  <2>4. ASSUME NEW r \in Request, NEW resolved \in BOOLEAN, Resolve(r, resolved)
        PROVE  KeyLock!Next
    BY <2>2, <2>4 DEF Resolve
  <2>5. ASSUME NEW r \in Request, NEW known \in SUBSET Source,
               Query(r, known) \/ InfoAnswered(r, known)
        PROVE  UNCHANGED owner
    BY <2>5 DEF Query, Resolving, InfoAnswered
  <2>6. ASSUME NEW r \in Request,
               \/ LookUpUser(r) \/ Hit(r) \/ Retry(r) \/ Proxy(r) \/ InfoPassed(r)
               \/ RememberUser(r) \/ ArriveOther(r) \/ \E a \in Ask : Arrive(r, a)
               \/ \E s \in Source : ResolveOne(r, s)
        PROVE  UNCHANGED owner
    BY <2>6 DEF LookUpUser, Hit, Retry, Proxy, InfoPassed, RememberUser, ArriveOther,
                Arrive, ResolveOne
  <2>7. CASE Tick \/ UNCHANGED vars
    BY <2>7 DEF Tick, vars
  <2> QED BY <2>1, <2>3, <2>4, <2>5, <2>6, <2>7 DEF Next, Proceed
<1> QED BY <1>1, <1>2, InvHolds, PTL DEF Spec, KeyLock!Spec

=============================================================================

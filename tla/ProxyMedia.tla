----------------------------- MODULE ProxyMedia -----------------------------
(***************************************************************************)
(* The Emby proxy (proxy_app.py) on the way of a film to its player:       *)
(* PlaybackInfo answers are rewritten and their sources remembered         *)
(* (_playback_info_strm_direct_play), then the player asks for the stream  *)
(* and is sent on with a 302 (_handle_media, _try_media_response), through *)
(* three caches that are filled at different times, or proxied.            *)
(*                                                                         *)
(* Requests interleave at every await.  Those with the same cache key      *)
(* exclude each other (AsyncKeyLock, here the mutex KeyMutex that module   *)
(* KeyLock is shown to implement).  Emby, the 302 service and the players  *)
(* are external.  Times are ages, or what is left of a time to live.       *)
(***************************************************************************)
EXTENDS Naturals, FiniteSets

CONSTANTS
    Request,        \* slots for concurrent requests
    Item, Source,   \* films and the versions of a film (MediaSourceId)
    User, Device,   \* Emby users; what tells players apart: address and headers
    None,
    RedirectMode,   \* redirect_mode
    UrlTtl,         \* PLAYBACK_URL_CACHE_TTL_SECONDS
    ShortTtl,       \* how long an address that was not resolved is kept
    StrmTtl,        \* PLAYBACK_STRM_CACHE_TTL_SECONDS
    UserTtl,        \* PLAYBACK_USER_CACHE_TTL_SECONDS
    MaxSize,        \* PLAYBACK_URL_CACHE_MAX_SIZE
    Attempts,       \* Len(REDIRECT_RESOLVE_TIMEOUTS)
    Timeout,        \* the longest wait for one answer
    MaxAsk          \* bound on the number of requests

ASSUME ProxyAssumption ==
    /\ RedirectMode \in BOOLEAN
    /\ {UrlTtl, ShortTtl, StrmTtl, UserTtl, MaxSize, Attempts, Timeout} \subseteq Nat \ {0}
    /\ ShortTtl <= UrlTtl /\ MaxAsk \in Nat
    /\ None \notin Request \union Source \union User

\* item_id, MediaSourceId, user_id and _header_hash
CacheKey == Item \X (Source \union {None}) \X (User \union {None}) \X Device

VARIABLES
    urlCache,   \* playback_url_cache
    strmCache,  \* strm_source_cache
    userCache,  \* playback_user_cache
    owner,      \* owner[k]: who holds the key lock of k
    pc,
    ask,        \* what a request asks for
    key,        \* cache_key
    path,       \* http_path: the source it belongs to and where it comes from
    todo,       \* sources whose paths PlaybackInfo has still to resolve
    attempt,    \* attempt, in _resolve_redirect
    waiting,    \* how long the current await has lasted
    answer,     \* observed: the 302 given at this moment
    asked       \* number of requests so far

caches  == <<urlCache, strmCache, userCache>>
request == <<pc, ask, key, path, todo, attempt, waiting>>
vars    == <<caches, owner, request, answer, asked>>

KeyLock == INSTANCE KeyMutex WITH Task <- Request, Key <- CacheKey

\* device: whose headers it is resolved with; seen: time since Emby named the
\* path; guessed: of another version than the one asked for.
MaxSeen == StrmTtl + Attempts * Timeout + UrlTtl
Address == [item: Item, source: Source, device: Device, seen: 0..MaxSeen, guessed: BOOLEAN]

\* A 302: to an address of 115 or, not resolved, to the path itself; age: time
\* since it was resolved.
Redirect == [path: Address, resolved: BOOLEAN, age: 0..UrlTtl]

Ask == [kind: {"stream"}, item: Item, source: Source \union {None},
        device: Device, apiKey: BOOLEAN]
       \union [kind: {"info"}, item: Item, device: Device, user: User \union {None}]

TypeOK ==
    /\ urlCache \in [CacheKey -> [to: Redirect, left: 1..UrlTtl] \union {None}]
    /\ strmCache \in [Item -> [sources: SUBSET Source, seen: 0..StrmTtl, left: 1..StrmTtl]
                              \union {None}]
    /\ userCache \in [Device \X Item -> [user: User, left: 1..UserTtl] \union {None}]
    /\ owner \in [CacheKey -> Request \union {None}]
    /\ pc \in [Request -> {"idle", "queued", "query", "strm", "resolve", "proxy",
                           "info", "direct"}]
    /\ ask \in [Request -> Ask \union {None}]
    /\ key \in [Request -> CacheKey \union {None}]
    /\ path \in [Request -> Address \union {None}]
    /\ todo \in [Request -> SUBSET Source]
    /\ attempt \in [Request -> 1..Attempts]
    /\ waiting \in [Request -> 0..Timeout]
    /\ answer \in [Request -> Redirect \union {None}]
    /\ asked \in 0..MaxAsk

-----------------------------------------------------------------------------
(* AsyncTtlCache, without the entries that are over *)

Entry(c, k, e) == [c EXCEPT ![k] = e]

\* put: above the size, the entry unused for longest goes, here any other one.
PutUrl(k, e) ==
    LET others == {j \in CacheKey \ {k} : urlCache[j] # None}
    IN  IF Cardinality(others) < MaxSize
        THEN urlCache' = Entry(urlCache, k, e)
        ELSE \E j \in others : urlCache' = Entry(Entry(urlCache, j, None), k, e)

\* Mutant of Aged: no entry is ever over.
AgedNever(c) == c

\* An entry one moment later.
Aged(c) == IF c.left > 1 THEN [c EXCEPT !.left = c.left - 1] ELSE None

-----------------------------------------------------------------------------
(* A stream request *)

\* Mutant of KeyOf: MediaSourceId is left out.
KeyOfItem(r, user) == <<ask[r].item, None, user, ask[r].device>>

KeyOf(r, user) == <<ask[r].item, ask[r].source, user, ask[r].device>>

\* The user is known from the player's last PlaybackInfo for this film.
UserOf(r) ==
    LET e == userCache[<<ask[r].device, ask[r].item>>]
    IN  IF e = None THEN None ELSE e.user

Arrive(r, a) ==
    /\ pc[r] = "idle" /\ asked < MaxAsk
    /\ asked' = asked + 1
    /\ ask' = [ask EXCEPT ![r] = a]
    /\ answer' = [answer EXCEPT ![r] = None]
    /\ pc' = [pc EXCEPT ![r] = IF a.kind = "info" THEN "info"
                               ELSE IF RedirectMode THEN "queued" ELSE "proxy"]
    /\ UNCHANGED <<caches, owner, key, path, todo, attempt, waiting>>

\* The names under an item that are no media (NON_MEDIA_NAMES), and all other
\* paths, go to Emby at once.
ArriveOther(r) ==
    /\ pc[r] = "idle" /\ asked < MaxAsk
    /\ asked' = asked + 1
    /\ answer' = [answer EXCEPT ![r] = None]
    /\ pc' = [pc EXCEPT ![r] = "proxy"]
    /\ UNCHANGED <<caches, owner, ask, key, path, todo, attempt, waiting>>

LookUpUser(r) ==
    /\ pc[r] = "queued" /\ key[r] = None
    /\ key' = [key EXCEPT ![r] = KeyOf(r, UserOf(r))]
    /\ UNCHANGED <<caches, owner, pc, ask, path, todo, attempt, waiting, answer, asked>>

\* Mutant of EnterKey: no lock, as before the stampede was dealt with.
EnterKeyFreely(r) == owner' = [owner EXCEPT ![key[r]] = r]

EnterKey(r) == KeyLock!Acquire(r, key[r])

\* The state of a slot after its request.
Clear(r) ==
    /\ pc' = [pc EXCEPT ![r] = "idle"]
    /\ ask' = [ask EXCEPT ![r] = None]
    /\ key' = [key EXCEPT ![r] = None]
    /\ path' = [path EXCEPT ![r] = None]
    /\ todo' = [todo EXCEPT ![r] = {}]
    /\ attempt' = [attempt EXCEPT ![r] = 1]
    /\ waiting' = [waiting EXCEPT ![r] = 0]

Hit(r) ==
    /\ pc[r] = "queued" /\ key[r] # None /\ owner[key[r]] = None
    /\ urlCache[key[r]] # None
    /\ answer' = [answer EXCEPT ![r] = urlCache[key[r]].to]
    /\ Clear(r)
    /\ UNCHANGED <<caches, owner, asked>>

Miss(r) ==
    /\ pc[r] = "queued" /\ key[r] # None
    /\ EnterKey(r)
    /\ urlCache[key[r]] = None
    /\ pc' = [pc EXCEPT ![r] = IF ask[r].apiKey THEN "query" ELSE "strm"]
    /\ UNCHANGED <<caches, ask, key, path, todo, attempt, waiting, answer, asked>>

Resolving(r, s, seen) ==
    /\ path' = [path EXCEPT ![r] =
           [item |-> ask[r].item, source |-> s, device |-> ask[r].device, seen |-> seen,
            guessed |-> ask[r].source \notin {None, s}]]
    /\ pc' = [pc EXCEPT ![r] = "resolve"]
    /\ waiting' = [waiting EXCEPT ![r] = 0]
    /\ UNCHANGED <<caches, owner, ask, key, todo, attempt, answer, asked>>

\* Emby answers PlaybackInfo with the sources that have a URL, after the pin
\* rules; no answer counts as none.  The first that fits is taken.
Query(r, known) ==
    LET fits == {s \in known : ask[r].source \in {None, s}}
    IN  /\ pc[r] = "query"
        /\ \/ \E s \in fits : Resolving(r, s, 0)
           \/ /\ fits = {}
              /\ pc' = [pc EXCEPT ![r] = "strm"]
              /\ waiting' = [waiting EXCEPT ![r] = 0]
              /\ UNCHANGED <<caches, owner, ask, key, path, todo, attempt, answer, asked>>

\* The remembered sources: the one asked for or, if it is not there, the first.
Remembered(r) ==
    LET e == strmCache[ask[r].item]
    IN  IF e = None THEN {}
        ELSE IF ask[r].source \in e.sources THEN {ask[r].source} ELSE e.sources

FromStrmCache(r) ==
    /\ pc[r] = "strm"
    /\ \/ \E s \in Remembered(r) : Resolving(r, s, strmCache[ask[r].item].seen)
       \/ /\ Remembered(r) = {}
          /\ KeyLock!Release(r, key[r])
          /\ pc' = [pc EXCEPT ![r] = "proxy"]
          /\ UNCHANGED <<caches, ask, key, path, todo, attempt, waiting, answer, asked>>

\* Mutant of Keep: an address is kept for the same time, resolved or not.
KeepAlike(resolved) == UrlTtl

Keep(resolved) == IF resolved THEN UrlTtl ELSE ShortTtl

\* _resolve_redirect ends, with an address of 115 or with the path itself; the
\* address is stored and the player sent there.
Resolve(r, resolved) ==
    LET to == [path |-> path[r], resolved |-> resolved, age |-> 0]
    IN  /\ pc[r] = "resolve"
        /\ PutUrl(key[r], [to |-> to, left |-> Keep(resolved)])
        /\ answer' = [answer EXCEPT ![r] = to]
        /\ KeyLock!Release(r, key[r])
        /\ Clear(r)
        /\ UNCHANGED <<strmCache, userCache, asked>>

\* A HEAD request is not answered in time and tried again.
Retry(r) ==
    /\ (pc[r] # "resolve" => todo[r] # {}) /\ attempt[r] < Attempts
    /\ attempt' = [attempt EXCEPT ![r] = attempt[r] + 1]
    /\ waiting' = [waiting EXCEPT ![r] = 0]
    /\ UNCHANGED <<caches, owner, pc, ask, key, path, todo, answer, asked>>

\* _reverse_proxy: 204 if the player went before its body was read, 502 if Emby
\* does not answer, else the answer of Emby, a page with scripts in it.
Proxy(r) ==
    /\ pc[r] = "proxy"
    /\ Clear(r)
    /\ UNCHANGED <<caches, owner, answer, asked>>

-----------------------------------------------------------------------------
(* A PlaybackInfo request *)

\* Passed on as it is: HEAD, not 200, not JSON, neither STRM nor a pinned path;
\* or 204 or 502 as in Proxy.
InfoPassed(r) ==
    /\ pc[r] = "info"
    /\ Clear(r)
    /\ UNCHANGED <<caches, owner, answer, asked>>

\* The sources that have a URL are remembered before they are resolved.
InfoAnswered(r, known) ==
    /\ pc[r] = "info"
    /\ strmCache' =
           IF known = {} THEN strmCache
           ELSE Entry(strmCache, ask[r].item,
                      [sources |-> known, seen |-> 0, left |-> StrmTtl])
    /\ todo' = [todo EXCEPT ![r] = IF RedirectMode THEN known ELSE {}]
    /\ pc' = [pc EXCEPT ![r] = "direct"]
    /\ waiting' = [waiting EXCEPT ![r] = 0]
    /\ UNCHANGED <<urlCache, userCache, owner, ask, key, path, attempt, answer, asked>>

ResolveOne(r, s) ==
    /\ pc[r] = "direct" /\ s \in todo[r]
    /\ todo' = [todo EXCEPT ![r] = todo[r] \ {s}]
    /\ attempt' = [attempt EXCEPT ![r] = 1]
    /\ waiting' = [waiting EXCEPT ![r] = 0]
    /\ UNCHANGED <<caches, owner, pc, ask, key, path, answer, asked>>

RememberUser(r) ==
    /\ pc[r] = "direct" /\ todo[r] = {}
    /\ userCache' =
           IF ask[r].user = None THEN userCache
           ELSE Entry(userCache, <<ask[r].device, ask[r].item>>,
                      [user |-> ask[r].user, left |-> UserTtl])
    /\ Clear(r)
    /\ UNCHANGED <<urlCache, strmCache, owner, answer, asked>>

-----------------------------------------------------------------------------

Awaits(r) == pc[r] \in {"query", "resolve"} \/ todo[r] # {}

Later(a) == [a EXCEPT !.seen = a.seen + 1]

\* A moment passes; no await outlasts its timeout, and what is not awaited is
\* done at once.
Tick ==
    /\ \A r \in Request : pc[r] # "strm" /\ (Awaits(r) => waiting[r] < Timeout)
    /\ waiting' = [r \in Request |-> IF Awaits(r) THEN waiting[r] + 1 ELSE 0]
    /\ path' = [r \in Request |-> IF path[r] = None THEN None ELSE Later(path[r])]
    /\ urlCache' = [k \in CacheKey |->
           IF urlCache[k] = None THEN None
           ELSE Aged([urlCache[k] EXCEPT !.to.age = urlCache[k].to.age + 1,
                                         !.to.path = Later(urlCache[k].to.path)])]
    /\ strmCache' = [i \in Item |->
           IF strmCache[i] = None THEN None ELSE Aged(Later(strmCache[i]))]
    /\ userCache' = [k \in Device \X Item |->
           IF userCache[k] = None THEN None ELSE Aged(userCache[k])]
    /\ answer' = [r \in Request |-> None]
    /\ UNCHANGED <<owner, pc, ask, key, todo, attempt, asked>>

Proceed(r) ==
    \/ LookUpUser(r) \/ Hit(r) \/ Miss(r) \/ FromStrmCache(r) \/ Retry(r) \/ Proxy(r)
    \/ InfoPassed(r) \/ RememberUser(r)
    \/ \E known \in SUBSET Source : Query(r, known) \/ InfoAnswered(r, known)
    \/ \E resolved \in BOOLEAN : Resolve(r, resolved)
    \/ \E s \in Source : ResolveOne(r, s)

Init ==
    /\ urlCache = [k \in CacheKey |-> None]
    /\ strmCache = [i \in Item |-> None]
    /\ userCache = [k \in Device \X Item |-> None]
    /\ KeyLock!Init
    /\ pc = [r \in Request |-> "idle"]
    /\ ask = [r \in Request |-> None]
    /\ key = [r \in Request |-> None]
    /\ path = [r \in Request |-> None]
    /\ todo = [r \in Request |-> {}]
    /\ attempt = [r \in Request |-> 1]
    /\ waiting = [r \in Request |-> 0]
    /\ answer = [r \in Request |-> None]
    /\ asked = 0

Next ==
    \/ \E r \in Request : Proceed(r) \/ ArriveOther(r) \/ \E a \in Ask : Arrive(r, a)
    \/ Tick

Spec == Init /\ [][Next]_vars

-----------------------------------------------------------------------------
(* Properties *)

InBody(r) == pc[r] \in {"query", "strm", "resolve"}

\* A player is sent to an address that was resolved for its film with its own
\* headers, as 115 ties an address to the user agent, and to the version it
\* asked for; to another one only if, when the address was resolved, Emby had
\* not named the version and the remembered sources did not hold it
\* (proxy_app.py:748-753, 783-802, 812-815).
OwnAddress ==
    [][\A r \in Request : answer[r] = None /\ answer'[r] # None =>
           LET p == answer'[r].path
           IN  /\ p.item = ask[r].item /\ p.device = ask[r].device
               /\ ask[r].source \in {None, p.source} \/ p.guessed]_vars

\* Requests for the same key resolve it once: while one of them asks Emby and
\* the 302 service it holds the key, the cache has nothing for it, and it
\* leaves the key whichever way it ends (proxy_app.py:757-822;
\* CHANGELOG.md:258).
ResolvedOnce ==
    /\ \A r \in Request : InBody(r) => owner[key[r]] = r /\ urlCache[key[r]] = None
    /\ \A k \in CacheKey : owner[k] # None => InBody(owner[k]) /\ key[owner[k]] = k

\* Three caches and up to Attempts waits lie between Emby's word and the
\* player; together they keep an address no longer than MaxSeen, an address of
\* 115 no longer than UrlTtl, and a failed attempt no longer than ShortTtl
\* (DEVELOPER_GUIDE.md:163).
AnswersFresh ==
    \A r \in Request : answer[r] # None =>
        /\ answer[r].path.seen < MaxSeen
        /\ answer[r].age < (IF answer[r].resolved THEN UrlTtl ELSE ShortTtl)
=============================================================================

-------------------------- MODULE RedirectService --------------------------
(***************************************************************************)
(* RedirectService._do_redirect (redirect_service.py): a request for a     *)
(* pickcode and a user agent is answered with a 302 to a download address  *)
(* of 115, from the cache or freshly fetched.  With same_playback, a file  *)
(* that somebody plays already is first copied on the drive and the        *)
(* address of the copy is given; the copy is deleted afterwards.           *)
(*                                                                         *)
(* Requests with the same cache key exclude each other (AsyncKeyLock, here *)
(* as the mutex KeyMutex that module KeyLock is shown to implement); those *)
(* with different keys interleave at every await.  115 is external: its    *)
(* folder of copies, its addresses and their lifetimes are modelled from   *)
(* how p115_client_wrapper.py uses them.                                   *)
(***************************************************************************)
EXTENDS Naturals

CONSTANTS
    Request,        \* slots for concurrent requests
    Pickcode,       \* files of the library
    Agent,          \* user agents
    None, Failed,
    SamePlayback,   \* p115.same_playback
    Ttl,            \* CACHE_TTL_DEFAULT
    Lifetime,       \* how long a fresh address may be good for
    Fault,          \* calls to 115 that may fail: "copy", "list", "fetch",
                    \* "delete"; "refuse": fs_copy answers with state False
    MaxTime,        \* bound on the clock
    MaxAsk,         \* bound on the number of requests
    MaxCopy         \* bound on the number of copies

\* Copies, numbered in the order in which they are made.
Copy == 1..MaxCopy

ASSUME RedirectAssumption ==
    /\ SamePlayback \in BOOLEAN
    /\ Ttl \in Nat /\ Lifetime \subseteq Nat /\ MaxTime \in Nat /\ MaxAsk \in Nat
    /\ MaxCopy \in Nat
    /\ Fault \subseteq {"copy", "refuse", "list", "fetch", "delete"}
    /\ Pickcode \intersect Copy = {}
    /\ {None, Failed} \intersect (Pickcode \union Copy \union Request) = {}

CacheKey == Pickcode \X Agent

\* An address, with the file it was made for, the film that file holds and the
\* time it is good until.
Url == [source: Pickcode \union Copy, film: Pickcode, until: Nat]

VARIABLES
    now,        \* the clock
    owner,      \* owner[k]: who holds the key lock of k
    cache,      \* cache[k]: [url, expiry], or None
    pc, ask,    \* where a request is and what it asks for
    source,     \* post_pickcode
    fetched,    \* result of get_download_url_with_ua
    folder,     \* the copies on the drive
    film,       \* film[c]: the file c is a copy of, or None before it exists
    pending,    \* _pending_cleanup: copies that will be deleted
    asked,      \* number of requests so far
    answer,     \* observed: the film the last answer leads to, or Failed (502)
    made,       \* observed: the copy this request has made
    abandoned,  \* observed: copies that a failing call kept from being found
                \* or deleted
    borrowed    \* observed: copies taken by a request that has made none

request  == <<pc, ask, source, fetched>>
drive    == <<folder, film>>
observed == <<answer, made, abandoned, borrowed>>
vars     == <<now, owner, cache, request, drive, pending, asked, observed>>

KeyLock == INSTANCE KeyMutex WITH Task <- Request, Key <- CacheKey

PC == {"idle", "queued", "copy", "list", "fetch", "store"}

TypeOK ==
    /\ now \in 0..MaxTime
    /\ owner \in [CacheKey -> Request \union {None}]
    /\ cache \in [CacheKey -> [url: Url, expiry: Nat] \union {None}]
    /\ pc \in [Request -> PC]
    /\ ask \in [Request -> CacheKey \union {None}]
    /\ source \in [Request -> Pickcode \union Copy \union {None}]
    /\ fetched \in [Request -> Url \union {None}]
    /\ folder \subseteq Copy
    /\ film \in [Copy -> Pickcode \union {None}]
    /\ pending \subseteq Copy
    /\ asked \in 0..MaxAsk
    /\ answer \in [Request -> Pickcode \union {Failed, None}]
    /\ made \in [Request -> Copy \union {None}]
    /\ abandoned \subseteq Copy
    /\ borrowed \subseteq Copy

Film(s) == IF s \in Copy THEN film[s] ELSE s

-----------------------------------------------------------------------------
(* AsyncTtlCache: an entry is given out before its expiry, counted up to   *)
(* it, and dropped when it is found to be over.                            *)

\* Mutant of Live: an entry is given out at its expiry still.
LiveAtExpiry(k) == cache[k] # None /\ now <= cache[k].expiry

Live(k) == cache[k] # None /\ now < cache[k].expiry

Stale(k) == cache[k] # None /\ cache[k].expiry < now

\* count_prefix, after get has dropped the request's own entry.
OtherAgents(k) ==
    {j \in CacheKey : j # k /\ j[1] = k[1] /\ cache[j] # None /\ ~Stale(j)}

Dropped(k) == [j \in CacheKey |-> IF j = k \/ Stale(j) THEN None ELSE cache[j]]

-----------------------------------------------------------------------------
(* One request *)

Ask(r, k) ==
    /\ pc[r] = "idle"
    /\ asked < MaxAsk
    /\ asked' = asked + 1
    /\ pc' = [pc EXCEPT ![r] = "queued"]
    /\ ask' = [ask EXCEPT ![r] = k]
    /\ answer' = [answer EXCEPT ![r] = None]
    /\ UNCHANGED <<now, owner, cache, source, fetched, drive, pending, made,
                   abandoned, borrowed>>

\* The lock is taken and left in one turn.
Hit(r) ==
    /\ pc[r] = "queued"
    /\ owner[ask[r]] = None
    /\ Live(ask[r])
    /\ pc' = [pc EXCEPT ![r] = "idle"]
    /\ answer' = [answer EXCEPT ![r] = cache[ask[r]].url.film]
    /\ UNCHANGED <<now, owner, cache, ask, source, fetched, drive, pending,
                   asked, made, abandoned, borrowed>>

\* Whether somebody else plays the file is looked up once, here.
Miss(r) ==
    /\ pc[r] = "queued"
    /\ KeyLock!Acquire(r, ask[r])
    /\ ~Live(ask[r])
    /\ cache' = IF SamePlayback THEN Dropped(ask[r])
                ELSE [cache EXCEPT ![ask[r]] = None]
    /\ source' = [source EXCEPT ![r] = ask[r][1]]
    /\ pc' = [pc EXCEPT ![r] = IF SamePlayback /\ OtherAgents(ask[r]) # {}
                               THEN "copy" ELSE "fetch"]
    /\ UNCHANGED <<now, ask, fetched, drive, pending, asked, observed>>

\* copy_pickcode: first fs_copy ...
CopyFile(r) ==
    /\ pc[r] = "copy"
    /\ \E c \in Copy :
          /\ film[c] = None /\ \A d \in 1..(c - 1) : film[d] # None
          /\ film' = [film EXCEPT ![c] = ask[r][1]]
          /\ folder' = folder \union {c}
          /\ made' = [made EXCEPT ![r] = c]
    /\ pc' = [pc EXCEPT ![r] = "list"]
    /\ UNCHANGED <<now, owner, cache, ask, source, fetched, pending, asked,
                   answer, abandoned, borrowed>>

\* The answer of fs_copy is not looked at: a copy that 115 refuses without an
\* exception is looked for all the same.
CopyRefused(r) ==
    /\ pc[r] = "copy"
    /\ "refuse" \in Fault
    /\ pc' = [pc EXCEPT ![r] = "list"]
    /\ UNCHANGED <<now, owner, cache, ask, source, fetched, drive, pending,
                   asked, observed>>

\* Mutant of Newest: the listing is read in the wrong order.
Oldest(c) == c \in folder /\ \A d \in folder : c <= d

\* c comes first in a listing of the folder by time, descending.
Newest(c) == c \in folder /\ \A d \in folder : d <= c

\* ... then the newest file of the folder is taken for the copy, whoever made
\* it.  When the listing fails, or is empty after all retries, the original is
\* used.
ListFolder(r) ==
    /\ pc[r] = "list"
    /\ \/ \E c \in Copy :
             /\ Newest(c)
             /\ source' = [source EXCEPT ![r] = c]
             /\ borrowed' = IF made[r] = None THEN borrowed \union {c}
                            ELSE borrowed
             /\ UNCHANGED abandoned
       \/ /\ folder = {} \/ "list" \in Fault
          /\ abandoned' = abandoned \union ({made[r]} \ {None})
          /\ UNCHANGED <<source, borrowed>>
    /\ pc' = [pc EXCEPT ![r] = "fetch"]
    /\ UNCHANGED <<now, owner, cache, ask, fetched, drive, pending, asked,
                   answer, made>>

\* No folder, or fs_copy raises: the original is used.
CopyFails(r) ==
    /\ pc[r] = "copy"
    /\ "copy" \in Fault
    /\ pc' = [pc EXCEPT ![r] = "fetch"]
    /\ UNCHANGED <<now, owner, cache, ask, source, fetched, drive, pending,
                   asked, observed>>

\* get_download_url_with_ua, in a worker thread: an address, or None after
\* the last retry, which is certain for a file that is gone.
Fetch(r) ==
    LET there == source[r] \in Copy => source[r] \in folder
    IN  /\ pc[r] = "fetch"
        /\ \/ /\ there
              /\ \E life \in Lifetime :
                    fetched' = [fetched EXCEPT ![r] =
                      [source |-> source[r], film |-> Film(source[r]),
                       until |-> now + life]]
           \/ /\ "fetch" \in Fault \/ ~there
              /\ fetched' = [fetched EXCEPT ![r] = None]
        /\ pc' = [pc EXCEPT ![r] = "store"]
        /\ UNCHANGED <<now, owner, cache, ask, source, drive, pending, asked,
                       observed>>

\* Mutant of TtlFor: an entry always lives for the default time.
TtlDefault(u) == Ttl

\* How long the address may be given to others.
TtlFor(u) ==
    LET left == IF u.until > now THEN u.until - now ELSE 0
    IN  IF left < Ttl THEN left ELSE Ttl

\* Mutant of Scheduled: a copy is cleaned up only if an address was found.
ScheduledOnSuccess(r) ==
    IF source[r] # ask[r][1] /\ fetched[r] # None THEN pending \union {source[r]}
    ELSE pending

\* _schedule_copy_cleanup, whether or not an address was found.
Scheduled(r) ==
    IF source[r] # ask[r][1] THEN pending \union {source[r]} ELSE pending

\* Mutant of LeaveKey: the early return of the 502 keeps the lock.
LeaveKeyOnSuccess(r) ==
    IF fetched[r] = None THEN UNCHANGED owner ELSE KeyLock!Release(r, ask[r])

\* The "async with" of the key lock ends, whatever is returned.
LeaveKey(r) == KeyLock!Release(r, ask[r])

\* Back on the event loop: schedule the clean-up, store, answer, leave the key.
Store(r) ==
    LET u == fetched[r]
        k == ask[r]
    IN  /\ pc[r] = "store"
        /\ pending' = Scheduled(r)
        /\ cache' = IF u # None /\ TtlFor(u) > 0
                    THEN [j \in CacheKey |->
                            IF j = k THEN [url |-> u, expiry |-> now + TtlFor(u)]
                            ELSE IF Stale(j) THEN None ELSE cache[j]]
                    ELSE cache
        /\ answer' = [answer EXCEPT ![r] = IF u = None THEN Failed ELSE u.film]
        /\ LeaveKey(r)
        /\ pc' = [pc EXCEPT ![r] = "idle"]
        /\ source' = [source EXCEPT ![r] = None]
        /\ fetched' = [fetched EXCEPT ![r] = None]
        /\ made' = [made EXCEPT ![r] = None]
        /\ UNCHANGED <<now, ask, drive, asked, abandoned, borrowed>>

-----------------------------------------------------------------------------

\* The task of _schedule_copy_cleanup, some time later; a copy that cannot be
\* deleted is not tried again.
CleanUp(c) ==
    /\ c \in pending
    /\ pending' = pending \ {c}
    /\ \/ /\ folder' = folder \ {c}
          /\ UNCHANGED abandoned
       \/ /\ "delete" \in Fault
          /\ abandoned' = abandoned \union {c}
          /\ UNCHANGED folder
    /\ UNCHANGED <<now, owner, cache, request, film, asked, answer, made,
                   borrowed>>

Tick ==
    /\ now < MaxTime
    /\ now' = now + 1
    /\ UNCHANGED <<owner, cache, request, drive, pending, asked, observed>>

Init ==
    /\ now = 0
    /\ KeyLock!Init
    /\ cache = [k \in CacheKey |-> None]
    /\ pc = [r \in Request |-> "idle"]
    /\ ask = [r \in Request |-> None]
    /\ source = [r \in Request |-> None]
    /\ fetched = [r \in Request |-> None]
    /\ folder = {}
    /\ film = [c \in Copy |-> None]
    /\ pending = {}
    /\ asked = 0
    /\ answer = [r \in Request |-> None]
    /\ made = [r \in Request |-> None]
    /\ abandoned = {}
    /\ borrowed = {}

Proceed(r) ==
    \/ Hit(r) \/ Miss(r) \/ CopyFile(r) \/ CopyRefused(r) \/ CopyFails(r)
    \/ ListFolder(r) \/ Fetch(r) \/ Store(r)

Next ==
    \/ \E r \in Request : Proceed(r) \/ \E k \in CacheKey : Ask(r, k)
    \/ \E c \in Copy : CleanUp(c)
    \/ Tick

Spec == Init /\ [][Next]_vars

\* The event loop and its worker threads go on; the key lock serves every
\* waiter (EveryWaiterServed of KeyLock), hence SF.
FairSpec == Spec /\ \A r \in Request : SF_vars(Proceed(r))

-----------------------------------------------------------------------------
(* Properties *)

Busy(r) == pc[r] \notin {"idle", "queued"}

\* No entry that is still given out holds an address that has run out: the
\* margin is computed when the entry is stored, after a call of unknown length.
NoDeadAddress ==
    \A k \in CacheKey : Live(k) => now < cache[k].url.until

\* The copy that is played, and deleted afterwards, is the one this request
\* has made, and it is on the drive while its address is fetched: no request
\* takes, or deletes, a copy of another.  A copy taken by a request that 115
\* refused its own (borrowed) is left out: it may go while it is played.
OwnCopy ==
    \A r \in Request :
        pc[r] = "fetch" /\ source[r] \in Copy /\ source[r] \notin borrowed =>
            source[r] = made[r] /\ source[r] \in folder

\* Copies are used and deleted, whatever happens in between: when no request is
\* on and no clean-up is due, only those are left that a failing call hid.
NoCopyLeft ==
    (\A r \in Request : ~Busy(r)) /\ pending = {} => folder \subseteq abandoned

\* An address leads to the film that was asked for, when no copy is refused.
RightFilm ==
    \A r \in Request : answer[r] \in Pickcode => answer[r] = ask[r][1]

\* Every request is answered.
EveryRequestAnswered ==
    \A r \in Request : pc[r] # "idle" ~> pc[r] = "idle"

=============================================================================

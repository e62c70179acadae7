--------------------------- MODULE RedirectProofs ---------------------------
(***************************************************************************)
(* Proofs about RedirectService, for any number of requests, files, agents *)
(* and copies and with every call to 115 that may fail.                    *)
(*                                                                         *)
(* Type correctness is not inductive on its own: that a request stores an  *)
(* address of some film needs the copies in the folder to hold one, and    *)
(* that only copies are cleaned up needs what post_pickcode may be at each *)
(* place of the request.  Stages adds that.                                *)
(***************************************************************************)
EXTENDS RedirectService, TLAPS

\* What a request has at hand at each place.
Stages ==
    /\ \A c \in folder : film[c] \in Pickcode
    /\ \A r \in Request :
         /\ pc[r] # "idle" => ask[r] \in CacheKey
         /\ pc[r] \in {"copy", "list"} => source[r] = ask[r][1]
         /\ pc[r] \in {"fetch", "store"} =>
              source[r] \in Copy \/ source[r] = ask[r][1]

TypeInv == TypeOK /\ Stages

\* An entry of the cache ends before its address does.
CacheMargin ==
    \A k \in CacheKey :
        cache[k] # None => cache[k].expiry <= cache[k].url.until

-----------------------------------------------------------------------------

LEMMA NoneIsNoUrl == None \notin Copy /\ None \notin Pickcode /\ Failed \notin Copy
BY RedirectAssumption

\* The lifetime of an entry is a number, at most what the address has left.
LEMMA TtlBounded ==
    ASSUME NEW u \in Url, now \in Nat
    PROVE  /\ TtlFor(u) \in Nat
           /\ TtlFor(u) > 0 => now + TtlFor(u) <= u.until
BY RedirectAssumption DEF TtlFor, Url

LEMMA InitType == Init => TypeInv
BY RedirectAssumption DEF Init, TypeInv, TypeOK, Stages, PC, KeyLock!Init, Copy

LEMMA StepType == TypeInv /\ [Next]_vars => TypeInv'
<1> SUFFICES ASSUME TypeInv, [Next]_vars PROVE TypeInv'
  OBVIOUS
<1> USE DEF TypeInv, TypeOK
<1>u. CASE UNCHANGED vars
  BY <1>u DEF vars, request, drive, observed, Stages
<1>1. ASSUME NEW r \in Request, NEW k \in CacheKey, Ask(r, k) PROVE TypeInv'
  <2>1. TypeOK'
    BY <1>1, RedirectAssumption DEF Ask, drive, PC
  <2>2. Stages'
    BY <1>1 DEF Ask, drive, Stages
  <2> QED BY <2>1, <2>2
<1>2. ASSUME NEW r \in Request, Hit(r) PROVE TypeInv'
  <2>0. ask[r] \in CacheKey /\ cache[ask[r]] \in [url: Url, expiry: Nat]
    BY <1>2 DEF Hit, Live, Stages
  <2>1. cache[ask[r]].url.film \in Pickcode
    BY <2>0 DEF Url
  <2>2. TypeOK'
    BY <1>2, <2>1 DEF Hit, drive, PC
  <2>3. Stages'
    BY <1>2 DEF Hit, drive, Stages
  <2> QED BY <2>2, <2>3
<1>3. ASSUME NEW r \in Request, Miss(r) PROVE TypeInv'
  <2>0. ask[r] \in CacheKey /\ ask[r][1] \in Pickcode
    BY <1>3 DEF Miss, Stages, CacheKey
  <2>1. cache' \in [CacheKey -> [url: Url, expiry: Nat] \union {None}]
    BY <1>3 DEF Miss, Dropped
  <2>2. owner' \in [CacheKey -> Request \union {None}]
    BY <1>3 DEF Miss, KeyLock!Acquire
  <2>3. source' \in [Request -> Pickcode \union Copy \union {None}]
    BY <1>3, <2>0 DEF Miss
  <2>4. pc' \in [Request -> PC]
    BY <1>3 DEF Miss, PC
  <2>5. TypeOK'
    BY <1>3, <2>1, <2>2, <2>3, <2>4 DEF Miss, drive, observed
  <2>6. Stages'
    BY <1>3 DEF Miss, drive, observed, Stages
  <2> QED BY <2>5, <2>6
<1>4. ASSUME NEW r \in Request, CopyFile(r) PROVE TypeInv'
  <2>1. PICK c \in Copy :
          /\ film' = [film EXCEPT ![c] = ask[r][1]]
          /\ folder' = folder \union {c}
          /\ made' = [made EXCEPT ![r] = c]
    BY <1>4 DEF CopyFile
  <2>2. ask[r] \in CacheKey /\ ask[r][1] \in Pickcode
    BY <1>4 DEF CopyFile, Stages, CacheKey
  <2>3. TypeOK'
    BY <1>4, <2>1, <2>2 DEF CopyFile, PC
  <2>4. Stages'
    BY <1>4, <2>1, <2>2 DEF CopyFile, Stages
  <2> QED BY <2>3, <2>4
<1>5. ASSUME NEW r \in Request, ListFolder(r) PROVE TypeInv'
  <2>1. source' \in [Request -> Pickcode \union Copy \union {None}]
    BY <1>5 DEF ListFolder
  <2>2. abandoned' \subseteq Copy /\ borrowed' \subseteq Copy
    BY <1>5 DEF ListFolder
  <2>3. pc' \in [Request -> PC]
    BY <1>5 DEF ListFolder, PC
  <2>4. TypeOK'
    BY <1>5, <2>1, <2>2, <2>3 DEF ListFolder, drive
  <2>5. Stages'
    BY <1>5 DEF ListFolder, drive, Stages
  <2> QED BY <2>4, <2>5
<1>6. ASSUME NEW r \in Request, CopyFails(r) \/ CopyRefused(r) PROVE TypeInv'
  <2>1. TypeOK'
    BY <1>6 DEF CopyFails, CopyRefused, drive, observed, PC
  <2>2. Stages'
    BY <1>6 DEF CopyFails, CopyRefused, drive, observed, Stages
  <2> QED BY <2>1, <2>2
<1>7. ASSUME NEW r \in Request, Fetch(r) PROVE TypeInv'
  <2>1. ASSUME source[r] \in Copy => source[r] \in folder, NEW life \in Lifetime
        PROVE  [source |-> source[r], film |-> Film(source[r]),
                until |-> now + life] \in Url
    <3>1. ask[r][1] \in Pickcode /\ (source[r] \in Copy \/ source[r] = ask[r][1])
      BY <1>7 DEF Fetch, Stages, CacheKey
    <3>2. Film(source[r]) \in Pickcode
      BY <2>1, <3>1 DEF Film, Stages
    <3>3. now + life \in Nat
      BY RedirectAssumption
    <3> QED BY <3>1, <3>2, <3>3 DEF Url
  <2>2. fetched' \in [Request -> Url \union {None}]
    BY <1>7, <2>1 DEF Fetch
  <2>3. pc' \in [Request -> PC]
    BY <1>7 DEF Fetch, PC
  <2>4. TypeOK'
    BY <1>7, <2>2, <2>3 DEF Fetch, drive, observed
  <2>5. Stages'
    BY <1>7 DEF Fetch, drive, observed, Stages
  <2> QED BY <2>4, <2>5
<1>8. ASSUME NEW r \in Request, Store(r) PROVE TypeInv'
  <2>0. /\ ask[r] \in CacheKey /\ ask[r][1] \in Pickcode
        /\ source[r] \in Copy \/ source[r] = ask[r][1]
    BY <1>8 DEF Store, Stages, CacheKey
  <2>1. fetched[r] # None =>
          /\ fetched[r] \in Url /\ fetched[r].film \in Pickcode
          /\ TtlFor(fetched[r]) \in Nat
    BY TtlBounded DEF Url
  <2>2. cache' \in [CacheKey -> [url: Url, expiry: Nat] \union {None}]
    BY <1>8, <2>1 DEF Store
  <2>3. pending' \subseteq Copy
    BY <1>8, <2>0 DEF Store, Scheduled
  <2>4. answer' \in [Request -> Pickcode \union {Failed, None}]
    BY <1>8, <2>1 DEF Store
  <2>5. owner' \in [CacheKey -> Request \union {None}]
    BY <1>8 DEF Store, LeaveKey, KeyLock!Release
  <2>6. /\ pc' \in [Request -> PC]
        /\ source' \in [Request -> Pickcode \union Copy \union {None}]
        /\ fetched' \in [Request -> Url \union {None}]
        /\ made' \in [Request -> Copy \union {None}]
    BY <1>8 DEF Store, PC
  <2>7. TypeOK'
    BY <1>8, <2>2, <2>3, <2>4, <2>5, <2>6 DEF Store, drive
  <2>8. Stages'
    BY <1>8 DEF Store, drive, Stages
  <2> QED BY <2>7, <2>8
<1>9. ASSUME NEW c \in Copy, CleanUp(c) PROVE TypeInv'
  <2>1. TypeOK'
    BY <1>9 DEF CleanUp, request
  <2>2. Stages'
    BY <1>9 DEF CleanUp, request, Stages
  <2> QED BY <2>1, <2>2
<1>10. ASSUME Tick PROVE TypeInv'
  <2>1. TypeOK'
    BY <1>10, RedirectAssumption DEF Tick, request, drive, observed
  <2>2. Stages'
    BY <1>10 DEF Tick, request, drive, observed, Stages
  <2> QED BY <2>1, <2>2
<1> QED
  BY <1>u, <1>1, <1>2, <1>3, <1>4, <1>5, <1>6, <1>7, <1>8, <1>9, <1>10
  DEF Next, Proceed

\* Every variable keeps its type; in particular, the set of files that will be
\* deleted holds copies only, never a file of the library.
THEOREM RedirectTypes == Spec => []TypeOK
<1>1. Spec => []TypeInv
  BY InitType, StepType, PTL DEF Spec
<1> QED
  BY <1>1, PTL DEF TypeInv

-----------------------------------------------------------------------------

\* The cache is only filled by Store, which leaves the margin.
LEMMA StepMargin ==
    TypeOK /\ CacheMargin /\ [Next]_vars => CacheMargin'
<1> SUFFICES ASSUME TypeOK, CacheMargin, [Next]_vars PROVE CacheMargin'
  OBVIOUS
<1>1. ASSUME NEW r \in Request, Store(r) PROVE CacheMargin'
  <2>1. fetched[r] # None /\ TtlFor(fetched[r]) > 0 =>
          now + TtlFor(fetched[r]) <= fetched[r].until
    BY TtlBounded DEF TypeOK
  <2>2. CASE fetched[r] # None /\ TtlFor(fetched[r]) > 0
    <3> SUFFICES ASSUME NEW j \in CacheKey, cache'[j] # None
                 PROVE  cache'[j].expiry <= cache'[j].url.until
      BY DEF CacheMargin
    <3>1. CASE j = ask[r]
      BY <1>1, <2>1, <2>2, <3>1 DEF Store
    <3>2. CASE j # ask[r]
      BY <1>1, <2>2, <3>2 DEF Store, CacheMargin
    <3> QED BY <3>1, <3>2
  <2>3. CASE ~(fetched[r] # None /\ TtlFor(fetched[r]) > 0)
    BY <1>1, <2>3 DEF Store, CacheMargin
  <2> QED BY <2>2, <2>3
<1>2. ASSUME NEW r \in Request, Miss(r) PROVE CacheMargin'
  <2>1. \A k \in CacheKey : cache'[k] = cache[k] \/ cache'[k] = None
    BY <1>2 DEF Miss, Dropped, TypeOK
  <2> QED BY <2>1 DEF CacheMargin
<1>3. CASE UNCHANGED cache
  BY <1>3 DEF CacheMargin
<1>4. (\A r \in Request : ~Store(r) /\ ~Miss(r)) => UNCHANGED cache
  BY DEF Next, Proceed, vars, Ask, Hit, CopyFile, CopyRefused, ListFolder, CopyFails,
         Fetch, CleanUp, Tick
<1> QED
  BY <1>1, <1>2, <1>3, <1>4

\* No cached address is handed out once it has run out, however long the call
\* that fetched it took and whichever requests interleave.
THEOREM AddressesGood == Spec => []NoDeadAddress
<1>1. Init => CacheMargin
  BY DEF Init, CacheMargin
<1>2. Spec => []CacheMargin
  BY <1>1, StepMargin, RedirectTypes, PTL DEF Spec
<1>3. TypeOK /\ CacheMargin => NoDeadAddress
  <2> SUFFICES ASSUME TypeOK, CacheMargin, NEW k \in CacheKey, Live(k)
               PROVE  now < cache[k].url.until
    BY DEF NoDeadAddress
  <2>1. cache[k] \in [url: Url, expiry: Nat] /\ now \in Nat
    BY RedirectAssumption DEF TypeOK, Live
  <2>2. cache[k].url.until \in Nat /\ cache[k].expiry \in Nat
    BY <2>1 DEF Url
  <2> QED BY <2>1, <2>2 DEF Live, CacheMargin
<1> QED
  BY <1>2, <1>3, RedirectTypes, PTL

-----------------------------------------------------------------------------
(***************************************************************************)
(* Copies.  copy_pickcode takes the newest file of the folder for the copy *)
(* it has just made.  That is right as long as nobody else makes a copy    *)
(* between the two requests; then every copy is played by the request that *)
(* made it, and deleted.                                                   *)
(***************************************************************************)

\* No two requests are between copying and listing.
OneCopies == \A r, s \in Request : pc[r] = "list" /\ pc[s] = "list" => r = s

\* Whoever has made a copy and may still have it played.
Uses(r, c) == made[r] = c /\ (pc[r] = "list" \/ source[r] = c)

\* Copies are made in order.
InOrder == \A c, d \in Copy : d < c /\ film[c] # None => film[d] # None

\* A copy belongs to one request, which is the only one to have it deleted,
\* unless a request that was refused its own has taken it (borrowed).
Makers ==
    /\ \A c \in pending \union borrowed : film[c] # None
    /\ \A r \in Request :
         /\ pc[r] \in {"idle", "queued", "copy"} => made[r] = None
         /\ made[r] # None =>
              film[made[r]] # None /\ (made[r] \in pending => made[r] \in borrowed)
         /\ \A s \in Request : made[r] # None /\ made[r] = made[s] => r = s

\* Until it is listed a copy is there and the newest, then it is played.
Copied ==
    \A r \in Request :
        /\ pc[r] = "list" /\ made[r] # None =>
             /\ made[r] \in folder /\ \A d \in folder : d <= made[r]
             /\ made[r] \notin pending \union borrowed
        /\ pc[r] \in {"fetch", "store"} /\ source[r] \in Copy =>
             /\ film[source[r]] # None
             /\ source[r] \notin borrowed => source[r] = made[r] /\ source[r] \in folder

\* No copy is forgotten.
Accounted ==
    \A c \in folder : c \in pending \/ c \in abandoned \/ \E r \in Request : Uses(r, c)

CopyInv == InOrder /\ Makers /\ Copied /\ Accounted

LEMMA InitCopies == Init => CopyInv
BY DEF Init, CopyInv, InOrder, Makers, Copied, Accounted

\* Of two different numbers one is the smaller.
LEMMA NotBelow ==
    \A c, d \in Nat : c # d /\ ~(c < d) => d < c
OBVIOUS

LEMMA StepCopies ==
    TypeInv /\ CopyInv /\ OneCopies /\ OneCopies' /\ [Next]_vars => CopyInv'
<1> SUFFICES ASSUME TypeInv, CopyInv, OneCopies, OneCopies', [Next]_vars PROVE CopyInv'
  OBVIOUS
<1> USE DEF TypeInv, TypeOK
<1>u. CASE UNCHANGED vars
  BY <1>u DEF vars, request, drive, observed, CopyInv, InOrder, Makers, Copied, Accounted, Uses
<1>1. ASSUME NEW r \in Request, NEW k \in CacheKey, Ask(r, k) PROVE CopyInv'
  BY <1>1 DEF Ask, drive, CopyInv, InOrder, Makers, Copied, Accounted, Uses
<1>2. ASSUME NEW r \in Request, Hit(r) PROVE CopyInv'
  BY <1>2 DEF Hit, drive, CopyInv, InOrder, Makers, Copied, Accounted, Uses
<1>3. ASSUME NEW r \in Request, Miss(r) PROVE CopyInv'
  <2>1. /\ pc[r] = "queued" /\ made[r] = None
        /\ pc' = [pc EXCEPT ![r] = pc'[r]] /\ pc'[r] \in {"copy", "fetch"}
        /\ source' = [source EXCEPT ![r] = ask[r][1]] /\ ask[r][1] \notin Copy
        /\ UNCHANGED <<folder, film, pending, made, abandoned, borrowed>>
    BY <1>3, RedirectAssumption DEF Miss, drive, observed, CopyInv, Makers, Stages, CacheKey
  <2>2. InOrder' /\ Makers'
    BY <2>1 DEF CopyInv, InOrder, Makers
  <2>3. Copied'
    BY <2>1 DEF CopyInv, Copied
  <2>4. \A q \in Request, c \in folder : Uses(q, c) => q # r /\ Uses(q, c)'
    BY <2>1, NoneIsNoUrl DEF Uses
  <2>5. Accounted'
    BY <2>1, <2>4 DEF CopyInv, Accounted
  <2> QED BY <2>2, <2>3, <2>5 DEF CopyInv
<1>4. ASSUME NEW r \in Request, CopyFile(r) PROVE CopyInv'
  <2>1. PICK c \in Copy :
          /\ film[c] = None /\ \A d \in 1..(c - 1) : film[d] # None
          /\ film' = [film EXCEPT ![c] = ask[r][1]]
          /\ folder' = folder \union {c}
          /\ made' = [made EXCEPT ![r] = c]
    BY <1>4 DEF CopyFile
  <2>2. /\ pc[r] = "copy" /\ made[r] = None
        /\ pc' = [pc EXCEPT ![r] = "list"]
        /\ UNCHANGED <<source, pending, abandoned, borrowed>>
        /\ ask[r][1] \in Pickcode /\ ask[r][1] # None /\ source[r] \notin Copy
    BY <1>4, RedirectAssumption DEF CopyFile, CopyInv, Makers, Stages, CacheKey
  <2>3. \A d \in Copy : d < c => film[d] # None
    BY <2>1, RedirectAssumption DEF Copy
  <2>4. \A d \in Copy : film[d] # None => d < c
    <3> SUFFICES ASSUME NEW d \in Copy, film[d] # None PROVE d < c
      OBVIOUS
    <3>1. ~(c < d)
      BY <2>1 DEF CopyInv, InOrder
    <3>2. c # d /\ c \in Nat /\ d \in Nat
      BY <2>1, RedirectAssumption DEF Copy
    <3> QED BY <3>1, <3>2, NotBelow, Zenon
  <2>5. InOrder'
    BY <2>1, <2>2, <2>3, <2>4 DEF CopyInv, InOrder
  <2>6. Makers'
    BY <2>1, <2>2 DEF CopyInv, Makers
  <2>7. Copied'
    <3>1. \A d \in folder' : d <= c
      BY <2>1, <2>4, RedirectAssumption DEF Stages, Copy
    <3>2. \A q \in Request : q # r => pc[q] # "list"
      BY <2>2 DEF OneCopies
    <3>3. c \notin pending \union borrowed
      BY <2>1 DEF CopyInv, Makers
    <3>4. \A d \in Copy : film[d] # None => film'[d] # None
      BY <2>1, <2>2
    <3>5. made'[r] = c /\ c \in folder' /\ folder \subseteq folder'
      BY <2>1
    <3>6. \A q \in Request : pc'[q] # "list" \/ q = r
      BY <2>2, <3>2
    <3>7. \A q \in Request : pc'[q] \in {"fetch", "store"} =>
              pc[q] = pc'[q] /\ q # r /\ made'[q] = made[q] /\ source'[q] = source[q]
      BY <2>1, <2>2
    <3> QED BY <2>2, <3>1, <3>3, <3>4, <3>5, <3>6, <3>7 DEF CopyInv, Copied
  <2>8. Accounted'
    BY <2>1, <2>2 DEF CopyInv, Accounted, Uses
  <2> QED BY <2>5, <2>6, <2>7, <2>8 DEF CopyInv
<1>5. ASSUME NEW r \in Request, ListFolder(r) PROVE CopyInv'
  <2>1. /\ pc[r] = "list" /\ pc' = [pc EXCEPT ![r] = "fetch"]
        /\ UNCHANGED <<folder, film, pending, made>>
        /\ source[r] \notin Copy
        /\ \A q \in Request : q # r => pc[q] # "list" /\ source'[q] = source[q]
    BY <1>5, RedirectAssumption DEF ListFolder, drive, Stages, CacheKey, OneCopies
  <2>2. ASSUME NEW c \in Copy, Newest(c), source' = [source EXCEPT ![r] = c],
               borrowed' = IF made[r] = None THEN borrowed \union {c} ELSE borrowed,
               UNCHANGED abandoned
        PROVE  CopyInv'
    <3>1. c \in folder /\ film[c] # None /\ source'[r] = c
      BY <2>2, RedirectAssumption DEF Newest, Stages
    <3>2. \A q \in Request : q # r => pc'[q] = pc[q]
      BY <2>1
    <3>3. Makers'
      BY <2>1, <2>2, <3>1, <3>2 DEF CopyInv, Makers
    <3>4. InOrder'
      BY <2>1 DEF CopyInv, InOrder
    <3>5. made[r] # None => c = made[r]
      <4> SUFFICES ASSUME made[r] # None PROVE c = made[r]
        OBVIOUS
      <4>1. made[r] \in folder /\ c <= made[r]
        BY <2>1, <3>1 DEF CopyInv, Copied
      <4>2. made[r] <= c
        BY <2>2, <4>1 DEF Newest
      <4> QED BY <4>1, <4>2, RedirectAssumption DEF Copy
    <3>6. Copied'
      <4>1. pc'[r] = "fetch" /\ (c \notin borrowed' => c = made[r] /\ c \in folder)
        BY <2>1, <2>2, <3>1, <3>5
      <4>2. borrowed \subseteq borrowed'
        BY <2>2
      <4> QED BY <2>1, <3>1, <3>2, <4>1, <4>2 DEF CopyInv, Copied
    <3>7. Accounted'
      <4>1. \A q \in Request, d \in folder : Uses(q, d) => Uses(q, d)'
        <5> SUFFICES ASSUME NEW q \in Request, NEW d \in folder, Uses(q, d) PROVE Uses(q, d)'
          OBVIOUS
        <5>1. CASE q # r
          BY <2>1, <3>2, <5>1 DEF Uses
        <5>2. CASE q = r
          BY <2>1, <3>1, <3>5, <5>2, NoneIsNoUrl DEF Uses
        <5> QED BY <5>1, <5>2
      <4> QED BY <2>1, <2>2, <4>1 DEF CopyInv, Accounted
    <3> QED BY <3>3, <3>4, <3>6, <3>7 DEF CopyInv
  <2>3. CASE abandoned' = abandoned \union ({made[r]} \ {None}) /\ UNCHANGED <<source, borrowed>>
    <3>1. \A q \in Request : q # r => pc'[q] = pc[q]
      BY <2>1
    <3>2. InOrder' /\ Makers'
      BY <2>1, <2>3, <3>1 DEF CopyInv, InOrder, Makers
    <3>3. Copied'
      BY <2>1, <2>3, <3>1 DEF CopyInv, Copied
    <3>4. \A d \in folder : d # None
      BY NoneIsNoUrl
    <3>5. Accounted'
      BY <2>1, <2>3, <3>1, <3>4 DEF CopyInv, Accounted, Uses
    <3> QED BY <3>2, <3>3, <3>5 DEF CopyInv
  <2> QED BY <1>5, <2>2, <2>3 DEF ListFolder
<1>6. ASSUME NEW r \in Request, CopyFails(r) \/ CopyRefused(r) PROVE CopyInv'
  <2>1. /\ pc[r] = "copy" /\ pc' = [pc EXCEPT ![r] = pc'[r]]
        /\ pc'[r] \in {"list", "fetch"}
        /\ source[r] \notin Copy /\ made[r] = None
        /\ UNCHANGED <<folder, film, source, pending, made, abandoned, borrowed>>
    BY <1>6, RedirectAssumption
    DEF CopyFails, CopyRefused, drive, observed, Stages, CacheKey, CopyInv, Makers
  <2>2. InOrder' /\ Makers'
    BY <2>1 DEF CopyInv, InOrder, Makers
  <2>3. Copied'
    BY <2>1 DEF CopyInv, Copied
  <2>4. Accounted'
    BY <2>1, NoneIsNoUrl DEF CopyInv, Accounted, Uses
  <2> QED BY <2>2, <2>3, <2>4 DEF CopyInv
<1>7. ASSUME NEW r \in Request, Fetch(r) PROVE CopyInv'
  BY <1>7 DEF Fetch, drive, observed, CopyInv, InOrder, Makers, Copied, Accounted, Uses
<1>8. ASSUME NEW r \in Request, Store(r) PROVE CopyInv'
  <2>1. /\ pc[r] = "store" /\ pc' = [pc EXCEPT ![r] = "idle"]
        /\ source' = [source EXCEPT ![r] = None]
        /\ made' = [made EXCEPT ![r] = None]
        /\ UNCHANGED <<folder, film, abandoned, borrowed>>
    BY <1>8 DEF Store, drive
  <2>2. /\ source[r] \in Copy => pending' = pending \union {source[r]} /\ film[source[r]] # None
        /\ source[r] \in Copy /\ source[r] \notin borrowed => made[r] = source[r]
        /\ source[r] \notin Copy => pending' = pending
    BY <1>8, RedirectAssumption DEF Store, Scheduled, Stages, CacheKey, CopyInv, Copied
  <2>3. InOrder'
    BY <2>1 DEF CopyInv, InOrder
  <2>4. Makers'
    BY <2>1, <2>2 DEF CopyInv, Makers
  <2>5. Copied'
    <3>1. \A q \in Request : pc[q] = "list" /\ made[q] # None => q # r /\ made[q] # source[r]
      BY <2>1, <2>2 DEF CopyInv, Makers, Copied
    <3> QED BY <2>1, <2>2, <3>1 DEF CopyInv, Copied
  <2>6. Accounted'
    BY <2>1, <2>2 DEF CopyInv, Accounted, Uses
  <2> QED BY <2>3, <2>4, <2>5, <2>6 DEF CopyInv
<1>9. ASSUME NEW c \in Copy, CleanUp(c) PROVE CopyInv'
  <2>1. /\ c \in pending /\ pending' = pending \ {c} /\ folder' \subseteq folder
        /\ folder \subseteq folder' \union {c}
        /\ c \notin folder' \/ c \in abandoned'
        /\ abandoned \subseteq abandoned'
        /\ UNCHANGED <<pc, source, film, made, borrowed>>
    BY <1>9 DEF CleanUp, request
  <2>2. InOrder' /\ Makers'
    BY <2>1 DEF CopyInv, InOrder, Makers
  <2>3. Copied'
    <3>1. \A q \in Request : pc[q] = "list" /\ made[q] # None => made[q] # c
      BY <2>1 DEF CopyInv, Copied
    <3>2. \A q \in Request : pc[q] \in {"fetch", "store"} /\ source[q] \in Copy
             /\ source[q] \notin borrowed => source[q] # c
      BY <2>1, NoneIsNoUrl DEF CopyInv, Copied, Makers
    <3> QED BY <2>1, <3>1, <3>2 DEF CopyInv, Copied
  <2>4. Accounted'
    BY <2>1 DEF CopyInv, Accounted, Uses
  <2> QED BY <2>2, <2>3, <2>4 DEF CopyInv
<1>10. ASSUME Tick PROVE CopyInv'
  BY <1>10 DEF Tick, request, drive, observed, CopyInv, InOrder, Makers, Copied, Accounted, Uses
<1> QED
  BY <1>u, <1>1, <1>2, <1>3, <1>4, <1>5, <1>6, <1>7, <1>8, <1>9, <1>10
  DEF Next, Proceed

LEMMA CopiesHold == Spec /\ []OneCopies => []CopyInv
<1>1. Spec => []TypeInv
  BY InitType, StepType, PTL DEF Spec
<1> QED BY <1>1, InitCopies, StepCopies, PTL DEF Spec

\* As long as no two requests copy at a time, each plays, and has deleted, the
\* copy it has made, for any number of requests, films and agents: besides a
\* copy that 115 refuses without an exception (OwnCopy leaves out what such a
\* request has taken), the window between fs_copy and the listing is the only
\* way for copies to be mixed up (copy_pickcode, _schedule_copy_cleanup).
THEOREM CopiesOwned == Spec /\ []OneCopies => []OwnCopy
<1>1. CopyInv => OwnCopy
  BY DEF CopyInv, Copied, OwnCopy
<1> QED BY <1>1, CopiesHold, PTL

\* And no copy stays on the drive but those a failing call has hidden, refused
\* copies or not (_schedule_copy_cleanup).
THEOREM CopiesDeleted == Spec /\ []OneCopies => []NoCopyLeft
<1>1. TypeInv /\ CopyInv => NoCopyLeft
  <2> SUFFICES ASSUME TypeInv, CopyInv, \A r \in Request : ~Busy(r), pending = {},
                      NEW c \in folder
               PROVE  c \in abandoned
    BY DEF NoCopyLeft
  <2>1. \A r \in Request : made[r] = None
    BY DEF Busy, CopyInv, Makers, TypeInv, TypeOK, PC
  <2>2. c # None
    BY NoneIsNoUrl DEF TypeInv, TypeOK
  <2> QED BY <2>1, <2>2 DEF CopyInv, Accounted, Uses
<1>2. Spec => []TypeInv
  BY InitType, StepType, PTL DEF Spec
<1> QED BY <1>1, <1>2, CopiesHold, PTL

-----------------------------------------------------------------------------
(***************************************************************************)
(* What an address leads to.  Along the way of a request the film asked    *)
(* for is that of the copy, of the file whose address is fetched, of the   *)
(* address, and of every entry under the key.                              *)
(***************************************************************************)

\* No request has been refused its copy.
Unborrowed ==
    borrowed = {} /\ \A r \in Request : pc[r] = "list" => made[r] \in Copy

Films ==
    /\ \A r \in Request :
         /\ pc[r] = "list" => film[made[r]] = ask[r][1]
         /\ pc[r] \in {"fetch", "store"} => Film(source[r]) = ask[r][1]
         /\ pc[r] = "store" /\ fetched[r] # None => fetched[r].film = ask[r][1]
    /\ \A k \in CacheKey : cache[k] # None => cache[k].url.film = k[1]

LEMMA OriginalFilm == \A p \in Pickcode : p \notin Copy /\ Film(p) = p
BY RedirectAssumption DEF Film

LEMMA StepFilms ==
    TypeInv /\ CopyInv /\ Unborrowed /\ Unborrowed' /\ Films /\ RightFilm /\ [Next]_vars
        => Films' /\ RightFilm'
<1> SUFFICES ASSUME TypeInv, CopyInv, Unborrowed, Unborrowed', Films, RightFilm, [Next]_vars
             PROVE  Films' /\ RightFilm'
  OBVIOUS
<1> USE DEF TypeInv, TypeOK
<1>0. \A r \in Request : pc[r] # "idle" => ask[r] \in CacheKey /\ ask[r][1] \in Pickcode
  BY DEF Stages, CacheKey
<1>n. None \notin Pickcode /\ Failed \notin Pickcode
  BY RedirectAssumption
<1>u. CASE UNCHANGED vars
  BY <1>u DEF vars, request, drive, observed, Films, RightFilm, Film
<1>1. ASSUME NEW r \in Request, NEW k \in CacheKey, Ask(r, k) PROVE Films' /\ RightFilm'
  BY <1>1, <1>n DEF Ask, drive, Films, RightFilm, Film
<1>2. ASSUME NEW r \in Request, Hit(r) PROVE Films' /\ RightFilm'
  <2>1. /\ pc[r] = "queued" /\ pc' = [pc EXCEPT ![r] = "idle"]
        /\ answer' = [answer EXCEPT ![r] = cache[ask[r]].url.film]
        /\ UNCHANGED <<cache, ask, source, fetched, film, made>>
        /\ cache[ask[r]] # None
    BY <1>2 DEF Hit, Live, drive
  <2>2. cache[ask[r]].url.film = ask[r][1]
    BY <1>0, <2>1 DEF Films
  <2> QED BY <2>1, <2>2 DEF Films, RightFilm, Film
<1>3. ASSUME NEW r \in Request, Miss(r) PROVE Films' /\ RightFilm'
  <2>1. /\ pc[r] = "queued" /\ pc' = [pc EXCEPT ![r] = pc'[r]] /\ pc'[r] \in {"copy", "fetch"}
        /\ source' = [source EXCEPT ![r] = ask[r][1]]
        /\ UNCHANGED <<ask, fetched, film, made, answer>>
    BY <1>3 DEF Miss, drive, observed
  <2>2. \A k \in CacheKey : cache'[k] = None \/ cache'[k] = cache[k]
    BY <1>3 DEF Miss, Dropped
  <2>3. ask[r][1] \in Pickcode
    BY <1>0, <2>1
  <2> QED BY <2>1, <2>2, <2>3, OriginalFilm DEF Films, RightFilm, Film
<1>4. ASSUME NEW r \in Request, CopyFile(r) PROVE Films' /\ RightFilm'
  <2>1. PICK c \in Copy :
          /\ film[c] = None /\ film' = [film EXCEPT ![c] = ask[r][1]]
          /\ made' = [made EXCEPT ![r] = c]
    BY <1>4 DEF CopyFile
  <2>2. /\ pc[r] = "copy" /\ pc' = [pc EXCEPT ![r] = "list"]
        /\ UNCHANGED <<cache, ask, source, fetched, answer>>
    BY <1>4 DEF CopyFile
  <2>3. \A q \in Request : pc[q] = "list" => made[q] \in Copy /\ made[q] # c
    BY <2>1, NoneIsNoUrl DEF Unborrowed, CopyInv, Makers
  <2>4. \A q \in Request : pc[q] \in {"fetch", "store"} =>
            source[q] # c /\ Film(source[q])' = Film(source[q])
    BY <2>1, <2>2, NoneIsNoUrl DEF Film, CopyInv, Copied
  <2> QED BY <2>1, <2>2, <2>3, <2>4 DEF Films, RightFilm
<1>5. ASSUME NEW r \in Request, ListFolder(r) PROVE Films' /\ RightFilm'
  <2>1. /\ pc[r] = "list" /\ pc' = [pc EXCEPT ![r] = "fetch"]
        /\ UNCHANGED <<cache, ask, fetched, film, made, answer>>
        /\ made[r] \in Copy /\ made[r] \in folder /\ \A d \in folder : d <= made[r]
        /\ source[r] = ask[r][1] /\ ask[r][1] \in Pickcode
    BY <1>0, <1>5, NoneIsNoUrl DEF ListFolder, drive, Stages, Unborrowed, CopyInv, Copied
  <2>2. \A q \in Request \ {r} : source'[q] = source[q]
    BY <1>5 DEF ListFolder
  <2>3. source'[r] = source[r] \/ source'[r] = made[r]
    BY <1>5, <2>1, RedirectAssumption DEF ListFolder, Newest, Copy
  <2>4. film[made[r]] = ask[r][1]
    BY <2>1 DEF Films
  <2>5. Film(source[r])' = ask[r][1]
    BY <2>1, <2>3, <2>4, OriginalFilm DEF Film
  <2> QED BY <2>1, <2>2, <2>5 DEF Films, RightFilm, Film
<1>6. ASSUME NEW r \in Request, CopyFails(r) PROVE Films' /\ RightFilm'
  <2>1. source[r] = ask[r][1] /\ ask[r][1] \in Pickcode
    BY <1>0, <1>6 DEF CopyFails, Stages
  <2> QED BY <1>6, <2>1, OriginalFilm DEF CopyFails, drive, observed, Films, RightFilm, Film
<1>r. ASSUME NEW r \in Request, CopyRefused(r) PROVE Films' /\ RightFilm'
  <2>1. pc'[r] = "list" /\ made'[r] = None
    BY <1>r DEF CopyRefused, observed, CopyInv, Makers
  <2> QED BY <2>1, NoneIsNoUrl DEF Unborrowed
<1>7. ASSUME NEW r \in Request, Fetch(r) PROVE Films' /\ RightFilm'
  <2>1. /\ pc[r] = "fetch" /\ pc' = [pc EXCEPT ![r] = "store"]
        /\ UNCHANGED <<cache, ask, source, film, made, answer>>
        /\ \A q \in Request \ {r} : fetched'[q] = fetched[q]
    BY <1>7 DEF Fetch, drive, observed
  <2>2. fetched'[r] # None => fetched'[r].film = Film(source[r])
    BY <1>7 DEF Fetch
  <2> QED BY <2>1, <2>2 DEF Films, RightFilm, Film
<1>8. ASSUME NEW r \in Request, Store(r) PROVE Films' /\ RightFilm'
  <2>1. /\ pc[r] = "store" /\ pc' = [pc EXCEPT ![r] = "idle"]
        /\ UNCHANGED <<ask, film>>
        /\ answer' = [answer EXCEPT ![r] = IF fetched[r] = None THEN Failed
                                           ELSE fetched[r].film]
        /\ \A q \in Request \ {r} : /\ source'[q] = source[q] /\ fetched'[q] = fetched[q]
                                    /\ made'[q] = made[q]
    BY <1>8 DEF Store, drive
  <2>2. fetched[r] # None => fetched[r].film = ask[r][1]
    BY <2>1 DEF Films
  <2>3. \A k \in CacheKey :
          \/ cache'[k] = None \/ cache'[k] = cache[k]
          \/ k = ask[r] /\ fetched[r] # None /\ cache'[k].url = fetched[r]
    BY <1>8 DEF Store
  <2>4. \A k \in CacheKey : cache'[k] # None => cache'[k].url.film = k[1]
    BY <2>2, <2>3 DEF Films
  <2>5. RightFilm'
    BY <2>1, <2>2, <1>n DEF RightFilm
  <2> QED BY <2>1, <2>4, <2>5 DEF Films, Film
<1>9. ASSUME NEW c \in Copy, CleanUp(c) PROVE Films' /\ RightFilm'
  BY <1>9 DEF CleanUp, request, Films, RightFilm, Film
<1>10. ASSUME Tick PROVE Films' /\ RightFilm'
  BY <1>10 DEF Tick, request, drive, observed, Films, RightFilm, Film
<1> QED
  BY <1>u, <1>1, <1>2, <1>3, <1>4, <1>5, <1>6, <1>r, <1>7, <1>8, <1>9, <1>10
  DEF Next, Proceed

LEMMA FilmsHold == Spec /\ []OneCopies /\ []Unborrowed => []RightFilm
<1>1. Init => Films /\ RightFilm
  BY RedirectAssumption DEF Init, Films, RightFilm
<1>2. Spec => []TypeInv
  BY InitType, StepType, PTL DEF Spec
<1> QED BY <1>1, <1>2, StepFilms, CopiesHold, PTL DEF Spec

\* As long as no two requests copy at a time and 115 refuses no copy without an
\* exception, nobody is sent to another film, from the cache or not, for any
\* number of requests, films and agents: the window between fs_copy and the
\* listing, and an answer of fs_copy that nobody looks at, are the whole reason
\* why run redirect_films finds one (copy_pickcode, _do_redirect).
THEOREM FilmsRight ==
    ASSUME "refuse" \notin Fault
    PROVE  Spec /\ []OneCopies => []RightFilm
<1>1. Init => Unborrowed
  BY DEF Init, Unborrowed
<1>2. TypeInv /\ Unborrowed /\ [Next]_vars => Unborrowed'
  <2> SUFFICES ASSUME TypeInv, Unborrowed, [Next]_vars PROVE Unborrowed'
    OBVIOUS
  <2>1. ASSUME NEW r \in Request, CopyFile(r) PROVE Unborrowed'
    BY <2>1, RedirectAssumption DEF TypeInv, TypeOK, CopyFile, Unborrowed
  <2>2. ASSUME NEW r \in Request, ListFolder(r) PROVE Unborrowed'
    BY <2>2, NoneIsNoUrl DEF TypeInv, TypeOK, ListFolder, Unborrowed
  <2>3. ASSUME NEW r \in Request,
               Hit(r) \/ Miss(r) \/ CopyFails(r) \/ Fetch(r) \/ Store(r)
        PROVE  Unborrowed'
    BY <2>3 DEF TypeInv, TypeOK, Hit, Miss, CopyFails, Fetch, Store, observed, Unborrowed
  <2>4. ASSUME NEW r \in Request, NEW k \in CacheKey, Ask(r, k) PROVE Unborrowed'
    BY <2>4 DEF TypeInv, TypeOK, Ask, Unborrowed
  <2>5. CASE (\E c \in Copy : CleanUp(c)) \/ Tick \/ UNCHANGED vars
    BY <2>5 DEF CleanUp, Tick, vars, request, observed, Unborrowed
  <2> QED BY <2>1, <2>2, <2>3, <2>4, <2>5 DEF Next, Proceed, CopyRefused
<1>3. Spec => []TypeInv
  BY InitType, StepType, PTL DEF Spec
<1>4. Spec => []Unborrowed
  BY <1>1, <1>2, <1>3, PTL DEF Spec
<1> QED BY <1>4, FilmsHold, PTL

\* Without same_playback no copy is made: everybody gets the film asked for
\* (_do_redirect), whatever fails.
THEOREM FilmsRightWithoutCopies ==
    ASSUME SamePlayback = FALSE
    PROVE  Spec => []RightFilm
<1> DEFINE NoCopies == borrowed = {} /\ \A r \in Request : pc[r] \notin {"copy", "list"}
<1>1. Init => NoCopies
  BY DEF Init
<1>2. TypeInv /\ NoCopies /\ [Next]_vars => NoCopies'
  BY DEF TypeInv, TypeOK, Next, Proceed, vars, request, observed, Ask, Hit, Miss, CopyFile,
         CopyRefused, ListFolder, CopyFails, Fetch, Store, CleanUp, Tick
<1>3. NoCopies => OneCopies /\ Unborrowed
  BY DEF OneCopies, Unborrowed
<1>4. Spec => []TypeInv
  BY InitType, StepType, PTL DEF Spec
<1> HIDE DEF NoCopies
<1>5. Spec => []OneCopies /\ []Unborrowed
  BY <1>1, <1>2, <1>3, <1>4, PTL DEF Spec
<1> QED BY <1>5, FilmsHold, PTL

-----------------------------------------------------------------------------
(***************************************************************************)
(* When copies do not overlap: of one film, with two players, the request  *)
(* that copies needs an entry of the other player, and keeps its own key   *)
(* empty meanwhile.                                                        *)
(***************************************************************************)

Copying(r) == pc[r] \in {"copy", "list"}

\* A request that is busy holds its key, and the cache has nothing for it.
KeyHeld == \A r \in Request : Busy(r) => owner[ask[r]] = r /\ cache[ask[r]] = None

OneCopying == \A r, s \in Request : Copying(r) /\ Copying(s) => r = s

LEMMA StepKeyHeld == TypeInv /\ KeyHeld /\ [Next]_vars => KeyHeld'
<1> SUFFICES ASSUME TypeInv, KeyHeld, [Next]_vars PROVE KeyHeld'
  OBVIOUS
<1> USE DEF TypeInv, TypeOK
<1>u. CASE UNCHANGED vars
  BY <1>u DEF vars, request, KeyHeld, Busy
<1>1. ASSUME NEW r \in Request, NEW k \in CacheKey, Ask(r, k) PROVE KeyHeld'
  BY <1>1 DEF Ask, KeyHeld, Busy
<1>2. ASSUME NEW r \in Request, Hit(r) PROVE KeyHeld'
  BY <1>2 DEF Hit, KeyHeld, Busy
<1>3. ASSUME NEW r \in Request, Miss(r) PROVE KeyHeld'
  <2>1. /\ owner[ask[r]] = None /\ owner' = [owner EXCEPT ![ask[r]] = r]
        /\ ask' = ask /\ ask[r] \in CacheKey /\ pc' = [pc EXCEPT ![r] = pc'[r]]
    BY <1>3 DEF Miss, KeyLock!Acquire, Stages
  <2>2. \A k \in CacheKey : cache[k] = None \/ k = ask[r] => cache'[k] = None
    BY <1>3 DEF Miss, Dropped
  <2>3. \A q \in Request : Busy(q) => ask[q] \in CacheKey
    BY DEF Busy, Stages
  <2>4. None \notin Request
    BY RedirectAssumption
  <2> QED BY <2>1, <2>2, <2>3, <2>4 DEF KeyHeld, Busy
<1>4. ASSUME NEW r \in Request,
             CopyFile(r) \/ CopyRefused(r) \/ ListFolder(r) \/ CopyFails(r) \/ Fetch(r)
      PROVE  KeyHeld'
  BY <1>4 DEF CopyFile, CopyRefused, ListFolder, CopyFails, Fetch, KeyHeld, Busy
<1>5. ASSUME NEW r \in Request, Store(r) PROVE KeyHeld'
  <2>1. /\ Busy(r) /\ pc' = [pc EXCEPT ![r] = "idle"] /\ ask' = ask
        /\ owner' = [owner EXCEPT ![ask[r]] = None]
        /\ \A k \in CacheKey : k # ask[r] /\ cache[k] = None => cache'[k] = None
    BY <1>5 DEF Store, LeaveKey, KeyLock!Release, Busy
  <2>2. \A q \in Request : Busy(q) => ask[q] \in CacheKey
    BY DEF Busy, Stages
  <2> QED BY <2>1, <2>2 DEF KeyHeld, Busy
<1>6. ASSUME NEW c \in Copy, CleanUp(c) PROVE KeyHeld'
  BY <1>6 DEF CleanUp, request, KeyHeld, Busy
<1>7. CASE Tick
  BY <1>7 DEF Tick, request, KeyHeld, Busy
<1> QED
  BY <1>u, <1>1, <1>2, <1>3, <1>4, <1>5, <1>6, <1>7 DEF Next, Proceed

LEMMA StepOneCopying ==
    ASSUME NEW p, NEW a, NEW b, Pickcode = {p}, Agent = {a, b},
           TypeInv, KeyHeld, OneCopying, [Next]_vars
    PROVE  OneCopying'
<1> USE DEF TypeInv, TypeOK
<1>1. ASSUME NEW r \in Request, Miss(r) PROVE OneCopying'
  <2>1. pc' = [pc EXCEPT ![r] = pc'[r]] /\ ask[r] \in CacheKey /\ owner[ask[r]] = None
    BY <1>1 DEF Miss, KeyLock!Acquire, Stages
  <2>2. CASE pc'[r] \notin {"copy", "list"}
    BY <2>1, <2>2 DEF OneCopying, Copying
  <2>3. CASE pc'[r] \in {"copy", "list"}
    <3>1. PICK j \in CacheKey : j # ask[r] /\ cache[j] # None
      BY <1>1, <2>3 DEF Miss, OtherAgents
    <3>2. \A k \in CacheKey : k = j \/ k = ask[r]
      BY <2>1, <3>1 DEF CacheKey
    <3>3. ASSUME NEW q \in Request, q # r PROVE ~Copying(q)
      <4> SUFFICES ASSUME Copying(q) PROVE FALSE
        OBVIOUS
      <4>1. Busy(q) /\ ask[q] \in CacheKey /\ owner[ask[q]] # None
        BY RedirectAssumption DEF Copying, Busy, KeyHeld, Stages
      <4>2. ask[q] = j
        BY <2>1, <3>2, <4>1
      <4> QED BY <3>1, <4>1, <4>2 DEF KeyHeld
    <3> QED BY <2>1, <3>3 DEF OneCopying, Copying
  <2> QED BY <2>2, <2>3
<1>2. (\A r \in Request : ~Miss(r)) => \A r \in Request : Copying(r)' => Copying(r)
  BY DEF Next, Proceed, vars, request, Copying, Ask, Hit, CopyFile, CopyRefused, ListFolder,
         CopyFails, Fetch, Store, CleanUp, Tick
<1> QED BY <1>1, <1>2 DEF OneCopying

\* With one film and two players, however many requests they send, no two
\* requests copy at a time, and so copies are owned and deleted: this is the
\* instance of the run, without its bounds on requests, copies and time.
THEOREM PairNeverOverlaps ==
    ASSUME NEW p, NEW a, NEW b, Pickcode = {p}, Agent = {a, b}
    PROVE  Spec => [](OwnCopy /\ NoCopyLeft)
<1>1. Init => KeyHeld /\ OneCopying
  BY DEF Init, KeyHeld, Busy, OneCopying, Copying
<1>2. Spec => []TypeInv
  BY InitType, StepType, PTL DEF Spec
<1>3. OneCopying => OneCopies
  BY DEF OneCopying, OneCopies, Copying
<1>4. TypeInv /\ KeyHeld /\ OneCopying /\ [Next]_vars => OneCopying'
  BY StepOneCopying
<1>5. Spec => []OneCopies
  BY <1>1, <1>2, <1>3, <1>4, StepKeyHeld, PTL DEF Spec
<1> QED BY <1>5, CopiesOwned, CopiesDeleted, PTL

-----------------------------------------------------------------------------

\* Requests for the same pickcode and user agent exclude each other while they
\* copy, fetch and store, and the key is left whichever way a request ends, a
\* 502 too: with respect to the keys the service is the mutex that module
\* KeyLock is proved to implement (_do_redirect, AsyncKeyLock).
THEOREM RequestsExclude == Spec => KeyLock!Spec
<1>1. Init => KeyLock!Init
  BY DEF Init
<1>2. TypeInv /\ [Next]_vars => [KeyLock!Next]_owner
  <2> SUFFICES ASSUME TypeInv, [Next]_vars PROVE KeyLock!Next \/ UNCHANGED owner
    OBVIOUS
  <2>1. ASSUME NEW r \in Request, Miss(r) \/ Store(r) PROVE KeyLock!Next
    <3>1. ask[r] \in CacheKey
      BY <2>1 DEF Miss, Store, TypeInv, Stages
    <3>2. KeyLock!Acquire(r, ask[r]) \/ KeyLock!Release(r, ask[r])
      BY <2>1 DEF Miss, Store, LeaveKey
    <3> QED BY <3>1, <3>2 DEF KeyLock!Next
  <2>2. (\A r \in Request : ~Miss(r) /\ ~Store(r)) => UNCHANGED owner
    BY DEF Next, Proceed, vars, Ask, Hit, CopyFile, CopyRefused, ListFolder, CopyFails,
           Fetch, CleanUp, Tick
  <2> QED BY <2>1, <2>2
<1>3. Spec => []TypeInv
  BY InitType, StepType, PTL DEF Spec
<1> QED BY <1>1, <1>2, <1>3, PTL DEF Spec, KeyLock!Spec

\* A request that copies, fetches or stores holds its key, and the cache has
\* nothing for it: what another request has stored under the key is neither
\* fetched again nor overwritten, and no two requests for a key are under way.
THEOREM KeysFetchedOnce ==
    Spec => [](KeyHeld /\ \A r, s \in Request :
                             Busy(r) /\ Busy(s) /\ ask[r] = ask[s] => r = s)
<1>1. Init => KeyHeld
  BY DEF Init, KeyHeld, Busy
<1>2. KeyHeld => \A r, s \in Request : Busy(r) /\ Busy(s) /\ ask[r] = ask[s] => r = s
  BY DEF KeyHeld
<1>3. Spec => []TypeInv
  BY InitType, StepType, PTL DEF Spec
<1> QED BY <1>1, <1>2, <1>3, StepKeyHeld, PTL DEF Spec

=============================================================================

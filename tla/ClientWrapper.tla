--------------------------- MODULE ClientWrapper ---------------------------
(***************************************************************************)
(* Download addresses while the 115 account changes: P115ClientWrapper in  *)
(* p115_client_wrapper.py.                                                 *)
(*                                                                         *)
(* A call asks the encrypted API through the HTTP client that the wrapper  *)
(* holds at that moment, several times with growing pauses, and turns to   *)
(* the SDK client when there is no HTTP client to begin with or the API    *)
(* answers 405.  Meanwhile QR logins swap the cookie under a lock the      *)
(* calls do not take: the HTTP client is gone while the new one is made,   *)
(* and the old one is closed under the calls that still use it.  Main      *)
(* closes the wrapper at a restart without the lock.                       *)
(*                                                                         *)
(* An HTTP client is a number, the index of its pool of connections.       *)
(* Calls do not meet each other, so what holds of one holds of many.       *)
(***************************************************************************)
EXTENDS Naturals, Sequences

CONSTANTS
    Caller,     \* calls of get_download_url_with_ua
    Login,      \* threads that finish a QR login
    Cookie,     \* cookies of 115 accounts
    Attempts,   \* len(_DOWNLOAD_RETRY_DELAYS) + 1
    Fault,      \* what may go wrong: "405", "refused", "sdk", "init"
    MaxSwaps,   \* bound: swaps of the cookie
    None

ASSUME WrapperAssumption == /\ Attempts \in Nat \ {0}
                            /\ MaxSwaps \in Nat
                            /\ None \notin Cookie
                            /\ None \notin Login
                            /\ Fault \subseteq {"405", "refused", "sdk", "init"}

VARIABLES
    cookie,   \* _cookie
    sdk,      \* the account of _client, None without one
    http,     \* _http_client, 0 for None
    pool,     \* every HTTP client made so far: its account, and open or not
    lock,     \* who holds _cookie_lock
    swap,     \* the swap under way: its step, and the HTTP client it replaces
    closing,  \* the HTTP client that close() is closing
    call,     \* the calls
    swaps,    \* swaps begun (bound)
    former,   \* observed: the account before the last swap
    raced     \* observed: close() ran into a swap

wrapper == <<cookie, sdk, http, pool>>
swapping == <<lock, swap, swaps, former>>
vars == <<wrapper, swapping, closing, call, raced>>

NoCall == [pc |-> "idle", attempt |-> 0, pool |-> 0, result |-> None,
           accounts |-> {}, harm |-> 0, during |-> 0, lost |-> FALSE]

Active(c) == call[c].pc \notin {"idle", "done"}

-----------------------------------------------------------------------------
(* get_download_url_with_ua.  Observed besides: the accounts the wrapper was *)
(* for during the call, and how much went wrong.                            *)

Ask(c) ==
    /\ ~Active(c)
    /\ call' = [call EXCEPT ![c] =
           [NoCall EXCEPT !.pc = IF http = 0 THEN "sdk" ELSE "try",
                          !.attempt = 1,
                          !.accounts = IF lock = None THEN {cookie} ELSE {cookie, former},
                          !.harm = IF lock = None THEN 0 ELSE 1,
                          !.lost = closing # 0]]
    /\ UNCHANGED <<wrapper, swapping, closing, raced>>

Answered(c, result) == call' = [call EXCEPT ![c].pc = "done", ![c].result = result]

(* Mutant: the last attempt is not made.                                    *)
AfterFailureShort(c) == IF call[c].attempt < Attempts - 1 THEN "pause" ELSE "done"

(* Mutant: one attempt more than there are pauses for.                      *)
AfterFailureLong(c) == IF call[c].attempt <= Attempts THEN "pause" ELSE "done"

(* The next attempt follows after a pause.  When no attempt is left the call *)
(* ends, without asking the SDK.                                            *)
AfterFailure(c) == IF call[c].attempt < Attempts THEN "pause" ELSE "done"

Failed(c, refusals, lost) ==
    call' = [call EXCEPT ![c].pc = AfterFailure(c),
                         ![c].harm = @ + refusals,
                         ![c].lost = @ \/ lost,
                         ![c].during = IF lock = None THEN 0 ELSE swaps]

(* _raw_download_url_encrypted: without an HTTP client the attempt fails.   *)
Post(c) ==
    /\ call[c].pc = "try"
    /\ IF http = 0 THEN Failed(c, 0, sdk = None)
       ELSE call' = [call EXCEPT ![c].pc = "posted", ![c].pool = http]
    /\ UNCHANGED <<wrapper, swapping, closing, raced>>

(* A closed HTTP client fails the request it carries.                       *)
Reply(c) ==
    LET p == pool[call[c].pool] IN
    /\ call[c].pc = "posted"
    /\ \/ p.open /\ Answered(c, p.account)
       \/ ~p.open /\ Failed(c, 0, FALSE)
       \/ p.open /\ "refused" \in Fault /\ Failed(c, 1, FALSE)
       \/ p.open /\ "405" \in Fault /\ call' = [call EXCEPT ![c].pc = "sdk"]
    /\ UNCHANGED <<wrapper, swapping, closing, raced>>

(* Timing: making a client takes less than the shortest pause (0.5 s), so a  *)
(* swap that was under way is over when the pause is.                       *)
Wake(c) ==
    /\ call[c].pc = "pause"
    /\ lock = None \/ swaps # call[c].during
    /\ call' = [call EXCEPT ![c].pc = "try", ![c].attempt = @ + 1]
    /\ UNCHANGED <<wrapper, swapping, closing, raced>>

(* _try_sdk_download_url.                                                   *)
AskSdk(c) ==
    /\ call[c].pc = "sdk"
    /\ \/ sdk # None /\ Answered(c, sdk)
       \/ /\ sdk = None \/ "sdk" \in Fault
          /\ call' = [call EXCEPT ![c].pc = "done", ![c].lost = TRUE]
    /\ UNCHANGED <<wrapper, swapping, closing, raced>>

-----------------------------------------------------------------------------
(* update_cookie, whose lock orders the swaps.  A login that found the       *)
(* wrapper ready may come to it after another one has failed.               *)

Shut(p) == [pool EXCEPT ![p].open = FALSE]

Detach(l) ==
    /\ lock = None
    /\ swaps < MaxSwaps
    /\ lock' = l
    /\ swaps' = swaps + 1
    /\ swap' = [pc |-> "sdk", previous |-> http]
    /\ http' = 0
    /\ cookie' \in Cookie
    /\ former' = cookie
    /\ call' = [c \in Caller |->
           IF Active(c) THEN [call[c] EXCEPT !.accounts = @ \union {cookie'}, !.harm = @ + 1]
           ELSE call[c]]
    /\ raced' = (raced \/ closing # 0)
    /\ UNCHANGED <<sdk, pool, closing>>

(* Mutant: a failure leaves the old SDK client in place.                    *)
InitSdkOrKeep(l) ==
    /\ lock = l
    /\ swap.pc = "sdk"
    /\ \/ /\ sdk' = cookie
          /\ swap' = [swap EXCEPT !.pc = "http"]
       \/ /\ "init" \in Fault
          /\ sdk' = sdk
          /\ swap' = [swap EXCEPT !.pc = "close"]
    /\ UNCHANGED <<cookie, http, pool, lock, swaps, former, closing, call, raced>>

(* _init_client: either client may fail to be made, and then there is none. *)
InitSdk(l) ==
    /\ lock = l
    /\ swap.pc = "sdk"
    /\ \/ /\ sdk' = cookie
          /\ swap' = [swap EXCEPT !.pc = "http"]
       \/ /\ "init" \in Fault
          /\ sdk' = None
          /\ swap' = [swap EXCEPT !.pc = "close"]
    /\ UNCHANGED <<cookie, http, pool, lock, swaps, former, closing, call, raced>>

InitHttp(l) ==
    /\ lock = l
    /\ swap.pc = "http"
    /\ swap' = [swap EXCEPT !.pc = "close"]
    /\ \/ /\ pool' = Append(pool, [account |-> cookie, open |-> TRUE])
          /\ http' = Len(pool) + 1
          /\ UNCHANGED sdk
       \/ /\ "init" \in Fault
          /\ sdk' = None
          /\ UNCHANGED <<pool, http>>
    /\ UNCHANGED <<cookie, lock, swaps, former, closing, call, raced>>

(* Mutant: the old HTTP client is closed only when a new one was made.      *)
ClosePreviousOnSuccess(l) ==
    /\ lock = l
    /\ swap.pc = "close"
    /\ pool' = IF swap.previous = 0 \/ http = 0 THEN pool ELSE Shut(swap.previous)
    /\ lock' = None
    /\ swap' = [pc |-> "none", previous |-> 0]
    /\ UNCHANGED <<cookie, sdk, http, swaps, former, closing, call, raced>>

ClosePrevious(l) ==
    /\ lock = l
    /\ swap.pc = "close"
    /\ pool' = IF swap.previous = 0 THEN pool ELSE Shut(swap.previous)
    /\ lock' = None
    /\ swap' = [pc |-> "none", previous |-> 0]
    /\ UNCHANGED <<cookie, sdk, http, swaps, former, closing, call, raced>>

(* close(), which _stop_p115_redirect calls: the HTTP client is closed, then *)
(* forgotten.                                                               *)
Close ==
    /\ closing = 0
    /\ http # 0
    /\ pool' = Shut(http)
    /\ closing' = http
    /\ call' = [c \in Caller |-> IF Active(c) THEN [call[c] EXCEPT !.lost = TRUE] ELSE call[c]]
    /\ raced' = (raced \/ lock # None)
    /\ UNCHANGED <<cookie, sdk, http, swapping>>

Forget ==
    /\ closing # 0
    /\ http' = 0
    /\ closing' = 0
    /\ UNCHANGED <<cookie, sdk, pool, swapping, call, raced>>

-----------------------------------------------------------------------------
(* The wrapper was made with a cookie that works.                           *)
Init ==
    /\ cookie \in Cookie
    /\ sdk = cookie
    /\ http = 1
    /\ pool = <<[account |-> cookie, open |-> TRUE]>>
    /\ lock = None
    /\ swap = [pc |-> "none", previous |-> 0]
    /\ closing = 0
    /\ call = [c \in Caller |-> NoCall]
    /\ swaps = 0
    /\ former = cookie
    /\ raced = FALSE

Next ==
    \/ \E c \in Caller : Ask(c) \/ Post(c) \/ Reply(c) \/ Wake(c) \/ AskSdk(c)
    \/ \E l \in Login : Detach(l) \/ InitSdk(l) \/ InitHttp(l) \/ ClosePrevious(l)
    \/ Close
    \/ Forget

Spec == Init /\ [][Next]_vars

-----------------------------------------------------------------------------
(* The HTTP client in use is one of those made and the lock is held exactly  *)
(* while a swap is under way (the fields of P115ClientWrapper).             *)
TypeOK ==
    /\ cookie \in Cookie /\ former \in Cookie
    /\ sdk \in Cookie \union {None}
    /\ pool \in Seq([account : Cookie, open : BOOLEAN])
    /\ {http, closing, swap.previous} \subseteq 0 .. Len(pool)
    /\ lock \in Login \union {None}
    /\ lock = None <=> swap.pc = "none"
    /\ swaps \in 0 .. MaxSwaps
    /\ \A c \in Caller :
          /\ call[c].pc \in {"idle", "try", "posted", "pause", "sdk", "done"}
          /\ call[c].attempt \in 0 .. Attempts
          /\ call[c].result \in Cookie \union {None}

(* An address belongs to an account the wrapper was for at some time during  *)
(* the call: a call never returns an address of an account that had been    *)
(* replaced before it began, even when making the new clients has failed    *)
(* (update_cookie and get_download_url_with_ua).                            *)
OwnAccount == \A c \in Caller : call[c].result # None => call[c].result \in call[c].accounts

(* A call goes without an address only when as many things went wrong as it  *)
(* has attempts, each a refusal of 115 or a swap of the cookie, unless the   *)
(* SDK was asked in vain or the clients are gone (the retries of            *)
(* get_download_url_with_ua against the gap update_cookie leaves).          *)
NotGivenUpEarly ==
    \A c \in Caller :
        (call[c].pc = "done" /\ call[c].result = None /\ ~call[c].lost) => call[c].harm >= Attempts

(* Between swaps the clients belong to the cookie, and every HTTP client but *)
(* the one in use is closed, whichever of them could be made; a close() that *)
(* runs into a swap can leave one open (update_cookie, close).              *)
NoPoolLeft ==
    (lock = None /\ closing = 0 /\ ~raced) =>
        /\ http # 0 => pool[http] = [account |-> cookie, open |-> TRUE] /\ sdk = cookie
        /\ \A p \in DOMAIN pool : pool[p].open => p = http
=============================================================================

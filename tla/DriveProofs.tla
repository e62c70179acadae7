---------------------------- MODULE DriveProofs ----------------------------
(***************************************************************************)
(* The two modules that talk to 115.  First what ClientWrapper promises,   *)
(* for any number of calls, logins, cookies, attempts and swaps; then what *)
(* FastScan promises, for any drive, any pages and any changes of it.      *)
(***************************************************************************)
EXTENDS ClientWrapper, FastScan, FiniteSetTheorems, TLAPS

Client == [account : Cookie, open : BOOLEAN]

CallState == {"idle", "try", "posted", "pause", "sdk", "done"}

Call == [pc : CallState, attempt : 0 .. Attempts, pool : Nat,
         result : Cookie \union {None}, accounts : SUBSET Cookie,
         harm : Nat, during : Nat, lost : BOOLEAN]

Swap == [pc : {"none", "sdk", "http", "close"}, previous : Nat]

(* Types, as needed of one step by the next.                               *)
ClientTypes ==
    /\ cookie \in Cookie /\ former \in Cookie
    /\ sdk \in Cookie \union {None}
    /\ pool \in Seq(Client)
    /\ http \in 0 .. Len(pool)
    /\ closing \in 0 .. Len(pool)

SwapTypes ==
    /\ swap \in Swap
    /\ swap.previous \in 0 .. Len(pool)
    /\ lock \in Login \union {None}
    /\ lock = None <=> swap.pc = "none"
    /\ swaps \in 0 .. MaxSwaps
    /\ raced \in BOOLEAN

CallTypes ==
    /\ call \in [Caller -> Call]
    /\ \A c \in Caller :
          /\ call[c].pc = "posted" => call[c].pool \in 1 .. Len(pool)
          /\ call[c].pc = "pause" => call[c].attempt < Attempts

Types == ClientTypes /\ SwapTypes /\ CallTypes

(* Whose clients they are.  The HTTP client is always the cookie's; the SDK  *)
(* client lags behind during the first step of a swap.                      *)
Owners ==
    /\ http # 0 => pool[http].account = cookie
    /\ swap.pc = "sdk" => sdk \in {None, former}
    /\ swap.pc \in {"none", "close"} => sdk \in {None, cookie}
    /\ swap.pc = "http" => sdk = cookie

(* What a call may answer with, now or later, is an account of its time.    *)
Accounts ==
    \A c \in Caller :
        /\ Active(c) => cookie \in call[c].accounts
        /\ Active(c) /\ lock # None => former \in call[c].accounts
        /\ call[c].pc = "posted" => pool[call[c].pool].account \in call[c].accounts
        /\ call[c].result # None => call[c].result \in call[c].accounts

(* The HTTP client in use is open and is not the one to be closed.           *)
InUse ==
    /\ http # 0 => http # swap.previous
    /\ http # 0 /\ closing = 0 => pool[http].open
    /\ swap.pc \in {"sdk", "http"} => http = 0
    /\ swap.pc = "none" => swap.previous = 0

(* Nothing else is open, as long as no close() ran into a swap.              *)
Pools ==
    ~raced =>
        /\ \A p \in DOMAIN pool : pool[p].open => p \in {http, swap.previous}
        /\ closing # 0 => lock = None /\ closing = http /\ ~pool[closing].open
        /\ http # 0 => sdk = cookie

(* The attempts of a call that still has its clients, against what went      *)
(* wrong: each failure was a refusal, or a swap nothing else is charged to.  *)
Charged(c) ==
    /\ call[c].pc \in {"try", "posted"} => call[c].harm >= call[c].attempt - 1
    /\ call[c].pc = "try" /\ lock # None => call[c].harm >= call[c].attempt
    /\ call[c].pc = "posted" /\ call[c].pool # http => call[c].harm >= call[c].attempt
    /\ call[c].pc = "pause" => call[c].harm >= call[c].attempt /\ call[c].during <= swaps
    /\ call[c].pc = "pause" /\ lock # None /\ swaps # call[c].during =>
           call[c].harm >= call[c].attempt + 1

HasClients(c) ==
    /\ closing = 0
    /\ call[c].pc # "sdk" /\ swap.pc \in {"none", "close"} /\ http = 0 => sdk = None

Retries ==
    \A c \in Caller :
        /\ Active(c) /\ ~call[c].lost => Charged(c) /\ HasClients(c)
        /\ call[c].pc = "done" /\ call[c].result = None /\ ~call[c].lost =>
               call[c].harm >= Attempts

Inv == Types /\ Owners /\ Accounts /\ InUse /\ Pools /\ Retries

(* What a step of one call leaves alone.                                    *)
OthersKept(c) == \A d \in Caller : d # c => call'[d] = call[d]

-----------------------------------------------------------------------------
(* The list of pools.                                                       *)

LEMMA ShutPool ==
    ASSUME ClientTypes, NEW p \in 1 .. Len(pool)
    PROVE  /\ Shut(p) \in Seq(Client)
           /\ Len(Shut(p)) = Len(pool)
           /\ \A q \in 1 .. Len(pool) : Shut(p)[q].account = pool[q].account
           /\ \A q \in 1 .. Len(pool) : q # p => Shut(p)[q] = pool[q]
           /\ ~Shut(p)[p].open
<1> DEFINE r == [pool[p] EXCEPT !.open = FALSE]
<1>1. Shut(p) = [pool EXCEPT ![p] = r]
  BY DEF Shut
<1>2. pool[p] \in Client
  BY DEF ClientTypes
<1>3. r \in Client /\ r.account = pool[p].account
  BY <1>2 DEF Client
<1>4. r.open = FALSE
  BY <1>2 DEF Client
<1> HIDE DEF r
<1> QED BY <1>1, <1>3, <1>4 DEF ClientTypes

LEMMA NewPool ==
    ASSUME ClientTypes
    PROVE  LET s == Append(pool, [account |-> cookie, open |-> TRUE])
           IN  /\ s \in Seq(Client)
               /\ Len(s) = Len(pool) + 1
               /\ \A q \in 1 .. Len(pool) : s[q] = pool[q]
               /\ s[Len(pool) + 1] = [account |-> cookie, open |-> TRUE]
BY DEF ClientTypes, Client

-----------------------------------------------------------------------------
(* What each step makes of the call it is about.                            *)

LEMMA AskEffect ==
    ASSUME Types, NEW c \in Caller, Ask(c)
    PROVE  /\ call' \in [Caller -> Call]
           /\ OthersKept(c)
           /\ call'[c].pc = (IF http = 0 THEN "sdk" ELSE "try")
           /\ call'[c].attempt = 1 /\ call'[c].result = None
           /\ call'[c].accounts = IF lock = None THEN {cookie} ELSE {cookie, former}
           /\ call'[c].harm = (IF lock = None THEN 0 ELSE 1)
           /\ call'[c].lost = (closing # 0)
<1> DEFINE place == IF http = 0 THEN "sdk" ELSE "try"
           whose == IF lock = None THEN {cookie} ELSE {cookie, former}
           harm  == IF lock = None THEN 0 ELSE 1
           gone  == closing # 0
           r == [NoCall EXCEPT !.pc = place, !.attempt = 1, !.accounts = whose,
                               !.harm = harm, !.lost = gone]
<1>1. call' = [call EXCEPT ![c] = r]
  BY DEF Ask
<1>2. place \in CallState /\ whose \in SUBSET Cookie /\ harm \in Nat /\ gone \in BOOLEAN
  BY DEF CallState, Types, ClientTypes
<1> HIDE DEF place, whose, harm, gone
<1>3. NoCall \in Call /\ NoCall.result = None /\ 1 \in 0 .. Attempts
  BY WrapperAssumption DEF NoCall, Call, CallState
<1>4. r \in Call
  BY <1>2, <1>3 DEF Call
<1>5. /\ r.pc = place /\ r.attempt = 1 /\ r.result = None
      /\ r.accounts = whose /\ r.harm = harm /\ r.lost = gone
  BY <1>3 DEF Call
<1> HIDE DEF r
<1>6. call' \in [Caller -> Call] /\ OthersKept(c) /\ call'[c] = r
  BY <1>1, <1>4 DEF Types, CallTypes, OthersKept
<1> QED BY <1>5, <1>6 DEF place, whose, harm, gone

LEMMA AnsweredEffect ==
    ASSUME Types, NEW c \in Caller, NEW a \in Cookie, Answered(c, a)
    PROVE  /\ call' \in [Caller -> Call]
           /\ OthersKept(c)
           /\ call'[c].pc = "done" /\ call'[c].result = a
           /\ call'[c].accounts = call[c].accounts
<1> DEFINE r == [call[c] EXCEPT !.pc = "done", !.result = a]
<1>1. call' = [call EXCEPT ![c] = r]
  BY DEF Answered, Types, CallTypes, Call
<1>2. r \in Call /\ r.pc = "done" /\ r.result = a /\ r.accounts = call[c].accounts
  BY DEF Types, CallTypes, Call, CallState
<1> HIDE DEF r
<1> QED BY <1>1, <1>2 DEF Types, CallTypes, OthersKept

LEMMA FailedEffect ==
    ASSUME Types, NEW c \in Caller, NEW n \in Nat, NEW l \in BOOLEAN, Failed(c, n, l)
    PROVE  /\ call' \in [Caller -> Call]
           /\ OthersKept(c)
           /\ call'[c].pc = AfterFailure(c)
           /\ call'[c].attempt = call[c].attempt /\ call'[c].result = call[c].result
           /\ call'[c].accounts = call[c].accounts
           /\ call'[c].harm = call[c].harm + n
           /\ call'[c].during = (IF lock = None THEN 0 ELSE swaps)
           /\ call'[c].lost = (call[c].lost \/ l)
<1> DEFINE place  == AfterFailure(c)
           during == IF lock = None THEN 0 ELSE swaps
           gone   == call[c].lost \/ l
           harm   == call[c].harm + n
           r == [call[c] EXCEPT !.pc = place, !.harm = harm,
                                !.lost = gone, !.during = during]
<1>0. call[c] \in Call
  BY DEF Types, CallTypes
<1>1. call' = [call EXCEPT ![c] = r]
  BY <1>0 DEF Failed, Types, CallTypes
<1>2. place \in CallState /\ during \in Nat /\ gone \in BOOLEAN /\ harm \in Nat
  BY <1>0, WrapperAssumption DEF AfterFailure, CallState, Types, SwapTypes, Call
<1> HIDE DEF place, during, gone, harm
<1>3. r \in Call
  BY <1>0, <1>2 DEF Call
<1>4. /\ r.pc = place /\ r.attempt = call[c].attempt /\ r.result = call[c].result
      /\ r.accounts = call[c].accounts /\ r.harm = harm
      /\ r.during = during /\ r.lost = gone
  BY <1>0 DEF Call
<1> HIDE DEF r
<1>5. call' \in [Caller -> Call] /\ OthersKept(c) /\ call'[c] = r
  BY <1>1, <1>3 DEF Types, CallTypes, OthersKept
<1> QED BY <1>4, <1>5 DEF place, during, gone, harm

(* A request goes out with the HTTP client of the moment.                   *)
LEMMA PostedEffect ==
    ASSUME Types, NEW c \in Caller, http # 0,
           call' = [call EXCEPT ![c].pc = "posted", ![c].pool = http]
    PROVE  /\ call' \in [Caller -> Call]
           /\ OthersKept(c)
           /\ call'[c].pc = "posted" /\ call'[c].pool = http
           /\ call'[c].attempt = call[c].attempt /\ call'[c].result = call[c].result
           /\ call'[c].accounts = call[c].accounts
           /\ call'[c].harm = call[c].harm /\ call'[c].lost = call[c].lost
<1> DEFINE r == [call[c] EXCEPT !.pc = "posted", !.pool = http]
<1>1. call' = [call EXCEPT ![c] = r]
  BY DEF Types, CallTypes, Call
<1>0. http \in Nat /\ call[c] \in Call
  BY DEF Types, ClientTypes, CallTypes
<1>2. r \in Call
  BY <1>0 DEF Call, CallState
<1>3. /\ r.pc = "posted" /\ r.pool = http /\ r.attempt = call[c].attempt
      /\ r.result = call[c].result /\ r.accounts = call[c].accounts
      /\ r.harm = call[c].harm /\ r.lost = call[c].lost
  BY DEF Types, CallTypes, Call
<1> HIDE DEF r
<1> QED BY <1>1, <1>2, <1>3 DEF Types, CallTypes, OthersKept

(* The API answers 405.                                                     *)
LEMMA ToSdkEffect ==
    ASSUME Types, NEW c \in Caller, call' = [call EXCEPT ![c].pc = "sdk"]
    PROVE  /\ call' \in [Caller -> Call]
           /\ OthersKept(c)
           /\ call'[c].pc = "sdk" /\ call'[c].result = call[c].result
           /\ call'[c].accounts = call[c].accounts /\ call'[c].lost = call[c].lost
<1> DEFINE r == [call[c] EXCEPT !.pc = "sdk"]
<1>1. call' = [call EXCEPT ![c] = r]
  BY DEF Types, CallTypes, Call
<1>2. /\ r \in Call /\ r.pc = "sdk" /\ r.result = call[c].result
      /\ r.accounts = call[c].accounts /\ r.lost = call[c].lost
  BY DEF Types, CallTypes, Call, CallState
<1> HIDE DEF r
<1> QED BY <1>1, <1>2 DEF Types, CallTypes, OthersKept

LEMMA WakeEffect ==
    ASSUME Types, NEW c \in Caller, Wake(c)
    PROVE  /\ call' \in [Caller -> Call]
           /\ OthersKept(c)
           /\ call'[c].pc = "try" /\ call'[c].attempt = call[c].attempt + 1
           /\ call'[c].result = call[c].result /\ call'[c].accounts = call[c].accounts
           /\ call'[c].harm = call[c].harm /\ call'[c].lost = call[c].lost
<1> DEFINE r == [call[c] EXCEPT !.pc = "try", !.attempt = call[c].attempt + 1]
<1>1. call' = [call EXCEPT ![c] = r]
  BY DEF Wake, Types, CallTypes, Call
<1>2. call[c].attempt + 1 \in 0 .. Attempts
  BY WrapperAssumption DEF Wake, Types, CallTypes, Call
<1>3. r \in Call
  BY <1>2 DEF Types, CallTypes, Call, CallState
<1>4. /\ r.pc = "try" /\ r.attempt = call[c].attempt + 1
      /\ r.result = call[c].result /\ r.accounts = call[c].accounts
      /\ r.harm = call[c].harm /\ r.lost = call[c].lost
  BY DEF Types, CallTypes, Call
<1> HIDE DEF r
<1> QED BY <1>1, <1>3, <1>4 DEF Types, CallTypes, OthersKept

(* The SDK fails, or there is none.                                         *)
LEMMA SdkFailsEffect ==
    ASSUME Types, NEW c \in Caller,
           call' = [call EXCEPT ![c].pc = "done", ![c].lost = TRUE]
    PROVE  /\ call' \in [Caller -> Call]
           /\ OthersKept(c)
           /\ call'[c].pc = "done" /\ call'[c].result = call[c].result
           /\ call'[c].accounts = call[c].accounts /\ call'[c].lost
<1> DEFINE r == [call[c] EXCEPT !.pc = "done", !.lost = TRUE]
<1>1. call' = [call EXCEPT ![c] = r]
  BY DEF Types, CallTypes, Call
<1>2. /\ r \in Call /\ r.pc = "done" /\ r.result = call[c].result
      /\ r.accounts = call[c].accounts /\ r.lost
  BY DEF Types, CallTypes, Call, CallState
<1> HIDE DEF r
<1> QED BY <1>1, <1>2 DEF Types, CallTypes, OthersKept

(* A swap begins: it counts against every call that is under way.           *)
LEMMA DetachEffect ==
    ASSUME Types, NEW l \in Login, Detach(l)
    PROVE  /\ call' \in [Caller -> Call]
           /\ \A c \in Caller :
                 /\ ~Active(c) => call'[c] = call[c]
                 /\ call'[c].pc = call[c].pc /\ call'[c].attempt = call[c].attempt
                 /\ call'[c].pool = call[c].pool /\ call'[c].result = call[c].result
                 /\ call'[c].during = call[c].during /\ call'[c].lost = call[c].lost
                 /\ Active(c) =>
                       /\ call'[c].accounts = call[c].accounts \union {cookie'}
                       /\ call'[c].harm = call[c].harm + 1
<1> DEFINE r(c) == [call[c] EXCEPT !.accounts = call[c].accounts \union {cookie'},
                                   !.harm = call[c].harm + 1]
<1>1. call' = [c \in Caller |-> IF Active(c) THEN r(c) ELSE call[c]]
  BY DEF Detach
<1>2. cookie' \in Cookie
  BY DEF Detach
<1>3. ASSUME NEW c \in Caller
      PROVE  /\ r(c) \in Call
             /\ r(c).pc = call[c].pc /\ r(c).attempt = call[c].attempt
             /\ r(c).pool = call[c].pool /\ r(c).result = call[c].result
             /\ r(c).during = call[c].during /\ r(c).lost = call[c].lost
             /\ r(c).accounts = call[c].accounts \union {cookie'}
             /\ r(c).harm = call[c].harm + 1
  <2> DEFINE whose == call[c].accounts \union {cookie'}
  <2>1. call[c] \in Call
    BY DEF Types, CallTypes
  <2>2. whose \in SUBSET Cookie
    BY <1>2, <2>1 DEF Call
  <2> HIDE DEF whose
  <2>3. r(c) = [call[c] EXCEPT !.accounts = whose, !.harm = call[c].harm + 1]
    BY DEF whose
  <2>4. /\ r(c) \in Call
        /\ r(c).pc = call[c].pc /\ r(c).attempt = call[c].attempt
        /\ r(c).pool = call[c].pool /\ r(c).result = call[c].result
        /\ r(c).during = call[c].during /\ r(c).lost = call[c].lost
        /\ r(c).accounts = whose /\ r(c).harm = call[c].harm + 1
    <3> DEFINE h == call[c].harm + 1
    <3>1. h \in Nat
      BY <2>1 DEF Call
    <3> HIDE DEF h
    <3>2. [call[c] EXCEPT !.accounts = whose, !.harm = h] \in Call
      BY <2>1, <2>2, <3>1 DEF Call
    <3>3. r(c) = [call[c] EXCEPT !.accounts = whose, !.harm = h]
      BY <2>3 DEF h
    <3> QED BY <2>1, <3>2, <3>3 DEF Call, h
  <2> QED BY <2>4 DEF whose
<1> HIDE DEF r
<1>4. call' \in [Caller -> Call]
  BY <1>1, <1>3 DEF Types, CallTypes
<1>5. \A c \in Caller : call'[c] = IF Active(c) THEN r(c) ELSE call[c]
  BY <1>1
<1> QED BY <1>3, <1>4, <1>5

LEMMA CloseEffect ==
    ASSUME Types, Close
    PROVE  /\ call' \in [Caller -> Call]
           /\ \A c \in Caller :
                 /\ ~Active(c) => call'[c] = call[c]
                 /\ call'[c].pc = call[c].pc /\ call'[c].attempt = call[c].attempt
                 /\ call'[c].pool = call[c].pool /\ call'[c].result = call[c].result
                 /\ call'[c].accounts = call[c].accounts
                 /\ Active(c) => call'[c].lost
<1> DEFINE r(c) == [call[c] EXCEPT !.lost = TRUE]
<1>1. call' = [c \in Caller |-> IF Active(c) THEN r(c) ELSE call[c]]
  BY DEF Close
<1>2. ASSUME NEW c \in Caller
      PROVE  /\ r(c) \in Call
             /\ r(c).pc = call[c].pc /\ r(c).attempt = call[c].attempt
             /\ r(c).pool = call[c].pool /\ r(c).result = call[c].result
             /\ r(c).accounts = call[c].accounts /\ r(c).lost
  BY DEF Types, CallTypes, Call
<1> HIDE DEF r
<1>3. call' \in [Caller -> Call]
  BY <1>1, <1>2 DEF Types, CallTypes
<1>4. \A c \in Caller : call'[c] = IF Active(c) THEN r(c) ELSE call[c]
  BY <1>1
<1> QED BY <1>2, <1>3, <1>4

(* What an attempt may come to: at one place, for all that follows.         *)
LEMMA PostCases ==
    ASSUME Types, NEW c \in Caller, Post(c)
    PROVE  \/ http # 0 /\ call' = [call EXCEPT ![c].pc = "posted", ![c].pool = http]
           \/ http = 0 /\ \E l \in BOOLEAN : l = (sdk = None) /\ Failed(c, 0, l)
BY DEF Post

LEMMA ReplyCases ==
    ASSUME Types, NEW c \in Caller, Reply(c)
    PROVE  LET p == pool[call[c].pool]
           IN  /\ call[c].pool \in 1 .. Len(pool) /\ p.account \in Cookie
               /\ \/ Answered(c, p.account)
                  \/ ~p.open /\ Failed(c, 0, FALSE)
                  \/ Failed(c, 1, FALSE)
                  \/ call' = [call EXCEPT ![c].pc = "sdk"]
<1>1. call[c].pool \in 1 .. Len(pool)
  BY DEF Reply, Types, CallTypes
<1>2. pool[call[c].pool] \in Client
  BY <1>1 DEF Types, ClientTypes
<1>3. pool[call[c].pool].account \in Cookie
  BY <1>2 DEF Client
<1> QED BY <1>1, <1>3 DEF Reply

LEMMA AskSdkCases ==
    ASSUME Types, NEW c \in Caller, AskSdk(c)
    PROVE  \/ sdk \in Cookie /\ Answered(c, sdk)
           \/ call' = [call EXCEPT ![c].pc = "done", ![c].lost = TRUE]
BY DEF AskSdk, Types, ClientTypes

LEMMA CallStepKeeps ==
    ASSUME NEW c \in Caller, Ask(c) \/ Post(c) \/ Reply(c) \/ Wake(c) \/ AskSdk(c)
    PROVE  UNCHANGED <<wrapper, swapping, closing, raced>>
BY DEF Ask, Post, Reply, Wake, AskSdk

-----------------------------------------------------------------------------

(* Types is inductive, part by part.                                        *)
LEMMA StepClientTypes == Types /\ [Next]_vars => ClientTypes'
<1> SUFFICES ASSUME Types, [Next]_vars PROVE ClientTypes'
  OBVIOUS
<1>0. CASE UNCHANGED vars
  BY <1>0 DEF Types, ClientTypes, vars, wrapper, swapping
<1>1. ASSUME NEW c \in Caller, Ask(c) \/ Post(c) \/ Reply(c) \/ Wake(c) \/ AskSdk(c)
      PROVE  ClientTypes'
  BY <1>1, CallStepKeeps DEF Types, ClientTypes, wrapper, swapping
<1>2. ASSUME NEW l \in Login, Detach(l) PROVE ClientTypes'
  <2>1. /\ http' = 0 /\ cookie' \in Cookie /\ former' = cookie
        /\ UNCHANGED <<sdk, pool, closing>>
    BY <1>2 DEF Detach
  <2> QED BY <2>1 DEF Types, ClientTypes
<1>3. ASSUME NEW l \in Login, InitSdk(l) PROVE ClientTypes'
  BY <1>3 DEF InitSdk, Types, ClientTypes
<1>4. ASSUME NEW l \in Login, InitHttp(l) PROVE ClientTypes'
  <2>1. UNCHANGED <<cookie, former, closing>> /\ sdk' \in {sdk, None}
    BY <1>4 DEF InitHttp
  <2>2. CASE http' = Len(pool) + 1 /\ pool' = Append(pool, [account |-> cookie, open |-> TRUE])
    <3>1. pool' \in Seq(Client) /\ Len(pool') = Len(pool) + 1 /\ Len(pool) \in Nat
      BY <2>2, NewPool DEF Types, ClientTypes
    <3>2. http' \in 0 .. Len(pool') /\ closing' \in 0 .. Len(pool')
      BY <2>1, <2>2, <3>1 DEF Types, ClientTypes
    <3> QED BY <2>1, <3>1, <3>2 DEF Types, ClientTypes
  <2>3. CASE UNCHANGED <<pool, http>>
    BY <2>1, <2>3 DEF Types, ClientTypes
  <2> QED BY <1>4, <2>2, <2>3 DEF InitHttp
<1>5. ASSUME NEW l \in Login, ClosePrevious(l) PROVE ClientTypes'
  <2>1. UNCHANGED <<cookie, sdk, http, former, closing>>
    BY <1>5 DEF ClosePrevious
  <2>2. pool' = pool \/ (swap.previous \in 1 .. Len(pool) /\ pool' = Shut(swap.previous))
    BY <1>5 DEF ClosePrevious, Types, SwapTypes
  <2> QED BY <2>1, <2>2, ShutPool DEF Types, ClientTypes
<1>6. CASE Close
  <2>1. UNCHANGED <<cookie, sdk, http, former>> /\ closing' = http
    BY <1>6 DEF Close, swapping
  <2>2. http \in 1 .. Len(pool) /\ pool' = Shut(http)
    BY <1>6 DEF Close, Types, ClientTypes
  <2> QED BY <2>1, <2>2, ShutPool DEF Types, ClientTypes
<1>7. CASE Forget
  BY <1>7 DEF Forget, Types, ClientTypes, swapping
<1> QED BY <1>0, <1>1, <1>2, <1>3, <1>4, <1>5, <1>6, <1>7 DEF Next

LEMMA StepSwapTypes == Types /\ [Next]_vars => SwapTypes'
<1> SUFFICES ASSUME Types, [Next]_vars PROVE SwapTypes'
  OBVIOUS
<1>0. CASE UNCHANGED vars
  BY <1>0 DEF Types, SwapTypes, vars, wrapper, swapping
<1>1. ASSUME NEW c \in Caller, Ask(c) \/ Post(c) \/ Reply(c) \/ Wake(c) \/ AskSdk(c)
      PROVE  SwapTypes'
  BY <1>1, CallStepKeeps DEF Types, SwapTypes, wrapper, swapping
<1>2. ASSUME NEW l \in Login, Detach(l) PROVE SwapTypes'
  <2>1. /\ lock' = l /\ swap' = [pc |-> "sdk", previous |-> http] /\ UNCHANGED pool
        /\ swaps' = swaps + 1 /\ swaps < MaxSwaps /\ raced' \in BOOLEAN
    BY <1>2 DEF Detach, Types, SwapTypes
  <2>2. http \in Nat /\ http \in 0 .. Len(pool)
    BY DEF Types, ClientTypes
  <2> QED BY <2>1, <2>2, WrapperAssumption DEF Types, SwapTypes, Swap
<1>3. ASSUME NEW l \in Login, InitSdk(l) PROVE SwapTypes'
  BY <1>3, WrapperAssumption DEF InitSdk, Types, SwapTypes, Swap
<1>4. ASSUME NEW l \in Login, InitHttp(l) PROVE SwapTypes'
  <2>1. /\ UNCHANGED <<lock, swaps, raced>> /\ lock = l /\ swap.pc = "http"
        /\ swap' = [swap EXCEPT !.pc = "close"]
    BY <1>4 DEF InitHttp
  <2>2. swap.previous \in 0 .. Len(pool')
    <3>1. CASE pool' = pool
      BY <3>1 DEF Types, SwapTypes
    <3>2. CASE pool' = Append(pool, [account |-> cookie, open |-> TRUE])
      BY <3>2, NewPool DEF Types, ClientTypes, SwapTypes
    <3> QED BY <1>4, <3>1, <3>2 DEF InitHttp
  <2> QED BY <2>1, <2>2, WrapperAssumption DEF Types, SwapTypes, Swap
<1>5. ASSUME NEW l \in Login, ClosePrevious(l) PROVE SwapTypes'
  <2>1. /\ UNCHANGED <<swaps, raced>> /\ lock' = None
        /\ swap' = [pc |-> "none", previous |-> 0]
    BY <1>5 DEF ClosePrevious
  <2>2. Len(pool') \in Nat
    BY StepClientTypes DEF Types, ClientTypes
  <2> QED BY <2>1, <2>2 DEF Types, SwapTypes, Swap
<1>6. CASE Close
  <2>1. UNCHANGED <<lock, swap, swaps>> /\ raced' \in BOOLEAN
    BY <1>6 DEF Close, swapping, Types, SwapTypes
  <2>2. http \in 1 .. Len(pool) /\ pool' = Shut(http)
    BY <1>6 DEF Close, Types, ClientTypes
  <2> QED BY <2>1, <2>2, ShutPool DEF Types, SwapTypes
<1>7. CASE Forget
  BY <1>7 DEF Forget, Types, SwapTypes, swapping
<1> QED BY <1>0, <1>1, <1>2, <1>3, <1>4, <1>5, <1>6, <1>7 DEF Next

LEMMA StepCallTypes == Types /\ [Next]_vars => CallTypes'
<1> SUFFICES ASSUME Types, [Next]_vars PROVE CallTypes'
  OBVIOUS
<1>0. CASE UNCHANGED vars
  BY <1>0 DEF Types, CallTypes, vars, wrapper, swapping
<1>1. ASSUME NEW c \in Caller, Ask(c) PROVE CallTypes'
  <2>1. UNCHANGED pool
    BY <1>1 DEF Ask, wrapper
  <2> QED BY <1>1, <2>1, AskEffect DEF Types, CallTypes, OthersKept
<1>2. ASSUME NEW c \in Caller, Post(c) PROVE CallTypes'
  <2>1. UNCHANGED pool
    BY <1>2 DEF Post, wrapper
  <2>2. CASE http # 0 /\ call' = [call EXCEPT ![c].pc = "posted", ![c].pool = http]
    <3>1. http \in 1 .. Len(pool)
      BY <2>2 DEF Types, ClientTypes
    <3> QED BY <2>1, <2>2, <3>1, PostedEffect DEF Types, CallTypes, OthersKept
  <2>3. ASSUME NEW lost \in BOOLEAN, Failed(c, 0, lost) PROVE CallTypes'
    BY <2>1, <2>3, FailedEffect DEF Types, CallTypes, OthersKept, AfterFailure
  <2> QED BY <1>2, <2>2, <2>3, PostCases
<1>3. ASSUME NEW c \in Caller, Reply(c) PROVE CallTypes'
  <2>1. UNCHANGED pool
    BY <1>3 DEF Reply, wrapper
  <2>2. ASSUME NEW a \in Cookie, Answered(c, a) PROVE CallTypes'
    BY <2>1, <2>2, AnsweredEffect DEF Types, CallTypes, OthersKept
  <2>3. ASSUME NEW n \in Nat, Failed(c, n, FALSE) PROVE CallTypes'
    BY <2>1, <2>3, FailedEffect DEF Types, CallTypes, OthersKept, AfterFailure
  <2>4. CASE call' = [call EXCEPT ![c].pc = "sdk"]
    BY <2>1, <2>4, ToSdkEffect DEF Types, CallTypes, OthersKept
  <2> QED BY <1>3, <2>2, <2>3, <2>4, ReplyCases
<1>4. ASSUME NEW c \in Caller, Wake(c) PROVE CallTypes'
  <2>1. UNCHANGED pool
    BY <1>4 DEF Wake, wrapper
  <2> QED BY <1>4, <2>1, WakeEffect DEF Types, CallTypes, OthersKept
<1>5. ASSUME NEW c \in Caller, AskSdk(c) PROVE CallTypes'
  <2>1. UNCHANGED pool
    BY <1>5 DEF AskSdk, wrapper
  <2>2. ASSUME NEW a \in Cookie, Answered(c, a) PROVE CallTypes'
    BY <2>1, <2>2, AnsweredEffect DEF Types, CallTypes, OthersKept
  <2>3. CASE call' = [call EXCEPT ![c].pc = "done", ![c].lost = TRUE]
    BY <2>1, <2>3, SdkFailsEffect DEF Types, CallTypes, OthersKept
  <2> QED BY <1>5, <2>2, <2>3, AskSdkCases
<1>6. ASSUME NEW l \in Login, Detach(l) PROVE CallTypes'
  <2>1. UNCHANGED pool
    BY <1>6 DEF Detach
  <2> QED BY <1>6, <2>1, DetachEffect DEF Types, CallTypes
<1>7. ASSUME NEW l \in Login, InitSdk(l) PROVE CallTypes'
  BY <1>7 DEF InitSdk, Types, CallTypes
<1>8. ASSUME NEW l \in Login, InitHttp(l) PROVE CallTypes'
  <2>1. UNCHANGED call /\ Len(pool) <= Len(pool')
    <3>1. CASE pool' = pool
      BY <1>8, <3>1 DEF InitHttp, Types, ClientTypes
    <3>2. CASE pool' = Append(pool, [account |-> cookie, open |-> TRUE])
      BY <1>8, <3>2, NewPool DEF InitHttp, Types, ClientTypes
    <3> QED BY <1>8, <3>1, <3>2 DEF InitHttp
  <2>2. Len(pool) \in Nat /\ Len(pool') \in Nat
    BY StepClientTypes DEF Types, ClientTypes
  <2> QED BY <2>1, <2>2 DEF Types, CallTypes
<1>9. ASSUME NEW l \in Login, ClosePrevious(l) PROVE CallTypes'
  <2>1. pool' = pool \/ (swap.previous \in 1 .. Len(pool) /\ pool' = Shut(swap.previous))
    BY <1>9 DEF ClosePrevious, Types, SwapTypes
  <2>2. UNCHANGED call /\ Len(pool') = Len(pool)
    BY <1>9, <2>1, ShutPool DEF ClosePrevious, Types
  <2> QED BY <2>2 DEF Types, CallTypes
<1>10. CASE Close
  <2>1. http \in 1 .. Len(pool) /\ pool' = Shut(http)
    BY <1>10 DEF Close, Types, ClientTypes
  <2>2. Len(pool') = Len(pool)
    BY <2>1, ShutPool DEF Types
  <2> QED BY <1>10, <2>2, CloseEffect DEF Types, CallTypes
<1>11. CASE Forget
  BY <1>11 DEF Forget, Types, CallTypes
<1> QED BY <1>0, <1>1, <1>2, <1>3, <1>4, <1>5, <1>6, <1>7, <1>8, <1>9, <1>10, <1>11 DEF Next

LEMMA StepTypes == Types /\ [Next]_vars => Types'
BY StepClientTypes, StepSwapTypes, StepCallTypes DEF Types

-----------------------------------------------------------------------------

(* The clients stay the cookie's through each step of a swap.               *)
LEMMA StepOwners == Inv /\ [Next]_vars => Owners'
<1> SUFFICES ASSUME Inv, [Next]_vars PROVE Owners'
  OBVIOUS
<1>0. CASE UNCHANGED vars
  BY <1>0 DEF Inv, Owners, vars, wrapper, swapping
<1>1. ASSUME NEW c \in Caller, Ask(c) \/ Post(c) \/ Reply(c) \/ Wake(c) \/ AskSdk(c)
      PROVE  Owners'
  BY <1>1, CallStepKeeps DEF Inv, Owners, wrapper, swapping
<1>2. ASSUME NEW l \in Login, Detach(l) PROVE Owners'
  BY <1>2, WrapperAssumption DEF Detach, Inv, Types, SwapTypes, Owners
<1>3. ASSUME NEW l \in Login, InitSdk(l) PROVE Owners'
  BY <1>3 DEF InitSdk, Inv, Types, SwapTypes, Swap, Owners, InUse
<1>4. ASSUME NEW l \in Login, InitHttp(l) PROVE Owners'
  <2>1. CASE pool' = Append(pool, [account |-> cookie, open |-> TRUE]) /\ http' = Len(pool) + 1
    BY <1>4, <2>1, NewPool DEF InitHttp, Inv, Types, SwapTypes, Swap, Owners
  <2>2. CASE UNCHANGED <<pool, http>> /\ sdk' = None
    BY <1>4, <2>2 DEF InitHttp, Inv, Types, SwapTypes, Swap, Owners
  <2> QED BY <1>4, <2>1, <2>2 DEF InitHttp
<1>5. ASSUME NEW l \in Login, ClosePrevious(l) PROVE Owners'
  <2>1. pool' = pool \/ (swap.previous \in 1 .. Len(pool) /\ pool' = Shut(swap.previous))
    BY <1>5 DEF ClosePrevious, Inv, Types, SwapTypes
  <2>2. http # 0 => pool'[http].account = pool[http].account
    BY <2>1, ShutPool DEF Inv, Types, ClientTypes
  <2> QED BY <1>5, <2>2 DEF ClosePrevious, Inv, Types, SwapTypes, Swap, Owners
<1>6. CASE Close
  <2>1. http \in 1 .. Len(pool) /\ pool' = Shut(http)
    BY <1>6 DEF Close, Inv, Types, ClientTypes
  <2>2. pool'[http].account = pool[http].account
    BY <2>1, ShutPool DEF Inv, Types
  <2> QED BY <1>6, <2>2 DEF Close, Inv, Owners, swapping
<1>7. CASE Forget
  BY <1>7 DEF Forget, Inv, Owners, swapping
<1> QED BY <1>0, <1>1, <1>2, <1>3, <1>4, <1>5, <1>6, <1>7 DEF Next

-----------------------------------------------------------------------------

(* What the last step of a swap leaves of the list of pools.                 *)
LEMMA ClosedPool ==
    ASSUME Types, NEW l \in Login, ClosePrevious(l)
    PROVE  /\ Len(pool') = Len(pool)
           /\ \A q \in 1 .. Len(pool) :
                 /\ pool'[q].account = pool[q].account
                 /\ q # swap.previous => pool'[q] = pool[q]
                 /\ q = swap.previous => ~pool'[q].open
<1>1. \/ swap.previous = 0 /\ pool' = pool
      \/ swap.previous \in 1 .. Len(pool) /\ pool' = Shut(swap.previous)
  BY DEF ClosePrevious, Types, SwapTypes
<1> QED BY <1>1, ShutPool DEF Types

(* A swap widens what a call may answer with, and the SDK client lags behind *)
(* by one account only.                                                     *)
LEMMA StepAccounts == Inv /\ [Next]_vars => Accounts'
<1> SUFFICES ASSUME Inv, [Next]_vars PROVE Accounts'
  OBVIOUS
<1>0. CASE UNCHANGED vars
  BY <1>0 DEF Inv, Accounts, Active, vars, wrapper, swapping
<1>1. ASSUME NEW c \in Caller, Ask(c) PROVE Accounts'
  <2>1. UNCHANGED <<cookie, former, lock, pool>>
    BY <1>1 DEF Ask, wrapper, swapping
  <2> QED BY <1>1, <2>1, AskEffect DEF Inv, Accounts, Active, OthersKept
<1>2. ASSUME NEW c \in Caller, Post(c) PROVE Accounts'
  <2>1. UNCHANGED <<cookie, former, lock, pool>> /\ call[c].pc = "try"
    BY <1>2 DEF Post, wrapper, swapping
  <2>2. CASE http # 0 /\ call' = [call EXCEPT ![c].pc = "posted", ![c].pool = http]
    <3>1. pool[http].account = cookie
      BY <2>2 DEF Inv, Owners
    <3> QED BY <2>1, <2>2, <3>1, PostedEffect DEF Inv, Accounts, Active, OthersKept
  <2>3. ASSUME NEW lost \in BOOLEAN, Failed(c, 0, lost) PROVE Accounts'
    BY <2>1, <2>3, FailedEffect DEF Inv, Accounts, Active, AfterFailure, OthersKept
  <2> QED BY <1>2, <2>2, <2>3, PostCases DEF Inv
<1>3. ASSUME NEW c \in Caller, Reply(c) PROVE Accounts'
  <2>1. UNCHANGED <<cookie, former, lock, pool>> /\ call[c].pc = "posted"
    BY <1>3 DEF Reply, wrapper, swapping
  <2>2. CASE Answered(c, pool[call[c].pool].account)
    <3>1. pool[call[c].pool].account \in Cookie \intersect call[c].accounts
      BY <1>3, <2>1, ReplyCases DEF Inv, Accounts
    <3> QED BY <2>1, <2>2, <3>1, AnsweredEffect DEF Inv, Accounts, Active, OthersKept
  <2>3. ASSUME NEW n \in Nat, Failed(c, n, FALSE) PROVE Accounts'
    BY <2>1, <2>3, FailedEffect DEF Inv, Accounts, Active, AfterFailure, OthersKept
  <2>4. CASE call' = [call EXCEPT ![c].pc = "sdk"]
    BY <2>1, <2>4, ToSdkEffect DEF Inv, Accounts, Active, OthersKept
  <2> QED BY <1>3, <2>2, <2>3, <2>4, ReplyCases DEF Inv
<1>4. ASSUME NEW c \in Caller, Wake(c) PROVE Accounts'
  <2>1. UNCHANGED <<cookie, former, lock, pool>> /\ call[c].pc = "pause"
    BY <1>4 DEF Wake, wrapper, swapping
  <2> QED BY <1>4, <2>1, WakeEffect DEF Inv, Accounts, Active, OthersKept
<1>5. ASSUME NEW c \in Caller, AskSdk(c) PROVE Accounts'
  <2>1. UNCHANGED <<cookie, former, lock, pool>> /\ call[c].pc = "sdk"
    BY <1>5 DEF AskSdk, wrapper, swapping
  <2>2. CASE sdk \in Cookie /\ Answered(c, sdk)
    <3>1. sdk \in call[c].accounts
      BY <2>1, <2>2, WrapperAssumption
      DEF Inv, Types, SwapTypes, Swap, Owners, Accounts, Active
    <3> QED BY <2>1, <2>2, <3>1, AnsweredEffect DEF Inv, Accounts, Active, OthersKept
  <2>3. CASE call' = [call EXCEPT ![c].pc = "done", ![c].lost = TRUE]
    BY <2>1, <2>3, SdkFailsEffect DEF Inv, Accounts, Active, OthersKept
  <2> QED BY <1>5, <2>2, <2>3, AskSdkCases DEF Inv
<1>6. ASSUME NEW l \in Login, Detach(l) PROVE Accounts'
  <2>1. former' = cookie /\ UNCHANGED pool
    BY <1>6 DEF Detach
  <2> QED BY <1>6, <2>1, DetachEffect DEF Inv, Accounts, Active
<1>7. ASSUME NEW l \in Login, InitSdk(l) PROVE Accounts'
  BY <1>7 DEF InitSdk, Inv, Accounts, Active
<1>8. ASSUME NEW l \in Login, InitHttp(l) PROVE Accounts'
  <2>1. UNCHANGED <<cookie, former, lock, call>>
    BY <1>8 DEF InitHttp
  <2>2. \A q \in 1 .. Len(pool) : pool'[q] = pool[q]
    BY <1>8, NewPool DEF InitHttp, Inv, Types
  <2> QED BY <2>1, <2>2 DEF Inv, Types, CallTypes, Accounts, Active
<1>9. ASSUME NEW l \in Login, ClosePrevious(l) PROVE Accounts'
  <2>1. UNCHANGED <<cookie, former, call>> /\ lock' = None
    BY <1>9 DEF ClosePrevious
  <2>2. \A q \in 1 .. Len(pool) : pool'[q].account = pool[q].account
    BY <1>9, ClosedPool DEF Inv
  <2> QED BY <2>1, <2>2 DEF Inv, Types, CallTypes, Accounts, Active
<1>10. CASE Close
  <2>1. UNCHANGED <<cookie, former, lock>>
    BY <1>10 DEF Close, swapping
  <2>2. \A q \in 1 .. Len(pool) : pool'[q].account = pool[q].account
    BY <1>10, ShutPool DEF Close, Inv, Types, ClientTypes
  <2> QED BY <1>10, <2>1, <2>2, CloseEffect DEF Inv, Types, CallTypes, Accounts, Active
<1>11. CASE Forget
  BY <1>11 DEF Forget, Inv, Accounts, Active, swapping
<1> QED BY <1>0, <1>1, <1>2, <1>3, <1>4, <1>5, <1>6, <1>7, <1>8, <1>9, <1>10, <1>11 DEF Next

(* Only close() closes the client in use.                                   *)
LEMMA StepInUse == Inv /\ [Next]_vars => InUse'
<1> SUFFICES ASSUME Inv, [Next]_vars PROVE InUse'
  OBVIOUS
<1>0. CASE UNCHANGED vars
  BY <1>0 DEF Inv, InUse, vars, wrapper, swapping
<1>1. ASSUME NEW c \in Caller, Ask(c) \/ Post(c) \/ Reply(c) \/ Wake(c) \/ AskSdk(c)
      PROVE  InUse'
  BY <1>1, CallStepKeeps DEF Inv, InUse, wrapper, swapping
<1>2. ASSUME NEW l \in Login, Detach(l) PROVE InUse'
  <2>1. http' = 0 /\ swap' = [pc |-> "sdk", previous |-> http]
    BY <1>2 DEF Detach
  <2> QED BY <2>1 DEF InUse
<1>3. ASSUME NEW l \in Login, InitSdk(l) PROVE InUse'
  BY <1>3 DEF InitSdk, Inv, Types, SwapTypes, Swap, InUse
<1>4. ASSUME NEW l \in Login, InitHttp(l) PROVE InUse'
  <2>1. swap' = [swap EXCEPT !.pc = "close"] /\ http = 0 /\ swap'.previous = swap.previous
    BY <1>4 DEF InitHttp, Inv, InUse, Types, SwapTypes, Swap
  <2>2. CASE pool' = Append(pool, [account |-> cookie, open |-> TRUE]) /\ http' = Len(pool) + 1
    <3>1. pool'[http'].open /\ Len(pool) \in Nat
      BY <2>2, NewPool DEF Inv, Types, ClientTypes
    <3>2. http' # swap.previous
      BY <2>2, <3>1 DEF Inv, Types, SwapTypes
    <3> QED BY <2>1, <3>1, <3>2 DEF InUse, Inv, Types, SwapTypes, Swap
  <2>3. CASE UNCHANGED <<pool, http>>
    BY <2>1, <2>3 DEF InUse, Inv, Types, SwapTypes, Swap
  <2> QED BY <1>4, <2>2, <2>3 DEF InitHttp
<1>5. ASSUME NEW l \in Login, ClosePrevious(l) PROVE InUse'
  <2>1. UNCHANGED <<http, closing>> /\ swap' = [pc |-> "none", previous |-> 0]
    BY <1>5 DEF ClosePrevious
  <2>2. http # 0 => pool'[http] = pool[http]
    BY <1>5, ClosedPool DEF Inv, Types, ClientTypes, InUse
  <2> QED BY <2>1, <2>2 DEF Inv, InUse
<1>6. CASE Close
  BY <1>6 DEF Close, Inv, InUse, swapping
<1>7. CASE Forget
  BY <1>7 DEF Forget, Inv, InUse, swapping
<1> QED BY <1>0, <1>1, <1>2, <1>3, <1>4, <1>5, <1>6, <1>7 DEF Next

(* A swap closes what it replaced before it gives back the lock.             *)
LEMMA StepPools == Inv /\ [Next]_vars => Pools'
<1> SUFFICES ASSUME Inv, [Next]_vars PROVE Pools'
  OBVIOUS
<1>0. CASE UNCHANGED vars
  BY <1>0 DEF Inv, Pools, vars, wrapper, swapping
<1>1. ASSUME NEW c \in Caller, Ask(c) \/ Post(c) \/ Reply(c) \/ Wake(c) \/ AskSdk(c)
      PROVE  Pools'
  BY <1>1, CallStepKeeps DEF Inv, Pools, wrapper, swapping
<1>2. ASSUME NEW l \in Login, Detach(l) PROVE Pools'
  <2>1. /\ raced' = (raced \/ closing # 0) /\ http' = 0 /\ UNCHANGED <<pool, closing>>
        /\ swap' = [pc |-> "sdk", previous |-> http] /\ lock = None
    BY <1>2 DEF Detach
  <2>2. swap.previous = 0
    BY <2>1 DEF Inv, InUse, Types, SwapTypes
  <2>3. \A p \in DOMAIN pool : p # 0
    BY DEF Inv, Types, ClientTypes
  <2> QED BY <2>1, <2>2, <2>3 DEF Inv, Pools
<1>3. ASSUME NEW l \in Login, InitSdk(l) PROVE Pools'
  BY <1>3 DEF InitSdk, Inv, Types, SwapTypes, Swap, InUse, Pools
<1>4. ASSUME NEW l \in Login, InitHttp(l) PROVE Pools'
  <2>1. /\ swap'.previous = swap.previous /\ http = 0 /\ sdk = cookie /\ lock # None
        /\ UNCHANGED <<raced, closing, cookie, lock>>
    BY <1>4, WrapperAssumption DEF InitHttp, Inv, InUse, Owners, Types, SwapTypes, Swap
  <2>2. CASE /\ pool' = Append(pool, [account |-> cookie, open |-> TRUE])
             /\ http' = Len(pool) + 1 /\ UNCHANGED sdk
    <3>1. /\ DOMAIN pool = 1 .. Len(pool) /\ DOMAIN pool' = 1 .. (Len(pool) + 1)
          /\ Len(pool) \in Nat /\ \A q \in DOMAIN pool : pool'[q] = pool[q]
      BY <2>2, NewPool DEF Inv, Types, ClientTypes
    <3>2. \A p \in DOMAIN pool' : p \in DOMAIN pool \/ p = http'
      BY <2>2, <3>1
    <3>3. ~raced => \A p \in DOMAIN pool : pool[p].open => p = swap.previous
      BY <2>1, <3>1 DEF Inv, Pools
    <3> QED BY <2>1, <2>2, <3>1, <3>2, <3>3 DEF Inv, Pools
  <2>3. CASE UNCHANGED <<pool, http>>
    BY <2>1, <2>3 DEF Inv, Pools
  <2> QED BY <1>4, <2>2, <2>3 DEF InitHttp
<1>5. ASSUME NEW l \in Login, ClosePrevious(l) PROVE Pools'
  <2>1. /\ UNCHANGED <<http, closing, raced, sdk, cookie>> /\ lock # None /\ lock' = None
        /\ swap' = [pc |-> "none", previous |-> 0]
    BY <1>5, WrapperAssumption DEF ClosePrevious
  <2>2. DOMAIN pool = 1 .. Len(pool) /\ DOMAIN pool' = 1 .. Len(pool)
    BY <1>5, ClosedPool, StepTypes DEF Inv, Types, ClientTypes
  <2> QED BY <1>5, <2>1, <2>2, ClosedPool DEF Inv, Pools
<1>6. CASE Close
  <2>1. /\ raced' = (raced \/ lock # None) /\ closing' = http /\ http # 0
        /\ UNCHANGED <<http, sdk, cookie, swap, lock>> /\ pool' = Shut(http) /\ closing = 0
    BY <1>6 DEF Close, swapping
  <2>2. http \in 1 .. Len(pool) /\ DOMAIN pool = 1 .. Len(pool)
    BY <2>1 DEF Inv, Types, ClientTypes
  <2>3. /\ DOMAIN pool' = DOMAIN pool /\ ~pool'[http].open
        /\ \A q \in DOMAIN pool : q # http => pool'[q] = pool[q]
    BY <2>1, <2>2, ShutPool, StepTypes DEF Inv, Types, ClientTypes
  <2> QED BY <2>1, <2>3 DEF Inv, Pools
<1>7. CASE Forget
  <2>1. http' = 0 /\ closing' = 0 /\ closing # 0 /\ UNCHANGED <<pool, raced, swap, lock>>
    BY <1>7 DEF Forget, swapping
  <2> QED BY <2>1 DEF Inv, Pools
<1> QED BY <1>0, <1>1, <1>2, <1>3, <1>4, <1>5, <1>6, <1>7 DEF Next

(* A step of one call is about that call alone.                             *)
LEMMA RetriesOfOne ==
    ASSUME Inv, NEW c \in Caller, OthersKept(c),
           UNCHANGED <<sdk, http, lock, swap, swaps, closing>>,
           Active(c)' /\ ~call'[c].lost => Charged(c)' /\ HasClients(c)',
           call'[c].pc = "done" /\ call'[c].result = None /\ ~call'[c].lost =>
               call'[c].harm >= Attempts
    PROVE  Retries'
<1>1. ASSUME NEW d \in Caller, d # c
      PROVE  /\ Active(d)' /\ ~call'[d].lost => Charged(d)' /\ HasClients(d)'
             /\ call'[d].pc = "done" /\ call'[d].result = None /\ ~call'[d].lost =>
                    call'[d].harm >= Attempts
  <2>1. call'[d] = call[d]
    BY <1>1 DEF OthersKept
  <2> QED BY <2>1 DEF Inv, Retries, Charged, HasClients, Active
<1> QED BY <1>1 DEF Retries

(* A failure that is charged to something.                                  *)
LEMMA RetriesAfterFailure ==
    ASSUME Inv, NEW c \in Caller, NEW n \in Nat, NEW l \in BOOLEAN, Failed(c, n, l),
           call[c].pc \in {"try", "posted"},
           UNCHANGED <<sdk, http, lock, swap, swaps, closing>>,
           ~call[c].lost /\ ~l => call[c].harm + n >= call[c].attempt
    PROVE  Retries'
<1>1. /\ OthersKept(c)
      /\ call'[c].pc = AfterFailure(c)
      /\ call'[c].attempt = call[c].attempt
      /\ call'[c].harm = call[c].harm + n
      /\ call'[c].during = (IF lock = None THEN 0 ELSE swaps)
      /\ call'[c].lost = (call[c].lost \/ l)
  BY FailedEffect DEF Inv
<1>2. /\ call[c].attempt \in 0 .. Attempts /\ call[c].harm \in Nat
      /\ swaps \in Nat /\ Attempts \in Nat
  BY WrapperAssumption DEF Inv, Types, SwapTypes, CallTypes, Call
<1>3. CASE call'[c].lost
  <2>1. call'[c].pc \in {"pause", "done"}
    BY <1>1 DEF AfterFailure
  <2> QED BY <1>1, <1>3, RetriesOfOne
<1>4. CASE ~call'[c].lost
  <2>1. ~call[c].lost /\ ~l
    BY <1>1, <1>4
  <2>2. call'[c].harm >= call'[c].attempt
    BY <1>1, <2>1
  <2>3. HasClients(c)
    BY <2>1 DEF Inv, Retries, Active
  <2>4. CASE call[c].attempt < Attempts
    <3>1. call'[c].pc = "pause"
      BY <1>1, <2>4 DEF AfterFailure
    <3>2. Charged(c)'
      BY <1>1, <1>2, <2>2, <3>1 DEF Charged
    <3>3. HasClients(c)'
      BY <2>3, <3>1 DEF HasClients
    <3> QED BY <1>1, <3>1, <3>2, <3>3, RetriesOfOne
  <2>5. CASE call[c].attempt = Attempts
    <3>1. call'[c].pc = "done" /\ call'[c].harm >= Attempts
      BY <1>1, <1>2, <2>2, <2>5 DEF AfterFailure
    <3> QED BY <1>1, <3>1, RetriesOfOne DEF Active
  <2> QED BY <1>2, <2>4, <2>5
<1> QED BY <1>3, <1>4

(* Each failure is charged to a refusal or to a swap, and no swap pays for    *)
(* two: this rests on the pause outlasting the swap (Wake).                  *)
LEMMA StepRetries == Inv /\ [Next]_vars => Retries'
<1> SUFFICES ASSUME Inv, [Next]_vars PROVE Retries'
  OBVIOUS
<1>0. CASE UNCHANGED vars
  BY <1>0 DEF Inv, Retries, Charged, HasClients, Active, vars, wrapper, swapping
<1>1. ASSUME NEW c \in Caller, Ask(c) PROVE Retries'
  <2>1. UNCHANGED <<sdk, http, lock, swap, swaps, closing>>
    BY <1>1 DEF Ask, wrapper, swapping
  <2>2. call'[c].pc = "try" => http # 0
    BY <1>1, AskEffect DEF Inv
  <2>3. /\ call'[c].pc \in {"try", "sdk"} /\ call'[c].attempt = 1
        /\ call'[c].harm = (IF lock = None THEN 0 ELSE 1)
        /\ ~call'[c].lost => closing = 0
    BY <1>1, AskEffect DEF Inv
  <2>4. ~call'[c].lost => Charged(c)' /\ HasClients(c)'
    BY <2>1, <2>2, <2>3 DEF Charged, HasClients
  <2>5. OthersKept(c)
    BY <1>1, AskEffect DEF Inv
  <2> QED BY <2>1, <2>3, <2>4, <2>5, RetriesOfOne
<1>2. ASSUME NEW c \in Caller, Post(c) PROVE Retries'
  <2>1. UNCHANGED <<sdk, http, lock, swap, swaps, closing>> /\ call[c].pc = "try"
    BY <1>2 DEF Post, wrapper, swapping
  <2>2. CASE http # 0 /\ call' = [call EXCEPT ![c].pc = "posted", ![c].pool = http]
    BY <2>1, <2>2, PostedEffect DEF Inv, Retries, Charged, HasClients, Active, OthersKept
  <2>3. ASSUME http = 0, NEW lost \in BOOLEAN, lost = (sdk = None), Failed(c, 0, lost)
        PROVE  Retries'
    <3>1. call[c] \in Call /\ swaps \in Nat /\ Attempts \in Nat
      BY WrapperAssumption DEF Inv, Types, SwapTypes, CallTypes
    <3>2. ~call[c].lost /\ ~lost => call[c].harm >= call[c].attempt
      <4> SUFFICES ASSUME ~call[c].lost, sdk # None
                   PROVE  call[c].harm >= call[c].attempt
        BY <2>3
      <4>1. Charged(c) /\ HasClients(c)
        BY <2>1 DEF Inv, Retries, Active
      <4>2. lock # None
        BY <2>1, <2>3, <4>1 DEF HasClients, Inv, Types, SwapTypes
      <4>3. call[c].pc = "try" /\ lock # None => call[c].harm >= call[c].attempt
        BY <4>1, Zenon DEF Charged
      <4> QED BY <2>1, <4>2, <4>3, Zenon
    <3>3. call[c].harm + 0 = call[c].harm
      BY <3>1 DEF Call
    <3> QED BY <2>1, <2>3, <3>2, <3>3, RetriesAfterFailure
  <2> QED BY <1>2, <2>2, <2>3, PostCases DEF Inv
<1>3. ASSUME NEW c \in Caller, Reply(c) PROVE Retries'
  <2>1. UNCHANGED <<sdk, http, lock, swap, swaps, closing>> /\ call[c].pc = "posted"
    BY <1>3 DEF Reply, wrapper, swapping
  <2>2. CASE Answered(c, pool[call[c].pool].account)
    <3>1. pool[call[c].pool].account \in Cookie
      BY <1>3, ReplyCases DEF Inv
    <3> QED BY <2>1, <2>2, <3>1, AnsweredEffect, WrapperAssumption
        DEF Inv, Retries, Charged, HasClients, Active, OthersKept
  <2>3. ASSUME NEW n \in Nat, n = 1 \/ ~pool[call[c].pool].open, Failed(c, n, FALSE)
        PROVE  Retries'
    <3>1. call[c] \in Call /\ swaps \in Nat /\ Attempts \in Nat
      BY WrapperAssumption DEF Inv, Types, SwapTypes, CallTypes
    <3>2. ~call[c].lost => call[c].harm + n >= call[c].attempt
      <4>1. CASE n = 1
        BY <2>1, <3>1, <4>1 DEF Inv, Retries, Charged, Active, Call
      <4>2. CASE ~pool[call[c].pool].open
        <5>1. ~call[c].lost => call[c].pool # http
          BY <2>1, <4>2 DEF Inv, Types, CallTypes, Retries, HasClients, Active, InUse
        <5> QED BY <2>1, <3>1, <5>1 DEF Inv, Retries, Charged, Active, Call
      <4> QED BY <2>3, <4>1, <4>2
    <3> QED BY <2>1, <2>3, <3>2, RetriesAfterFailure
  <2>4. CASE call' = [call EXCEPT ![c].pc = "sdk"]
    BY <2>1, <2>4, ToSdkEffect DEF Inv, Retries, Charged, HasClients, Active, OthersKept
  <2> QED BY <1>3, <2>2, <2>3, <2>4, ReplyCases DEF Inv
<1>4. ASSUME NEW c \in Caller, Wake(c) PROVE Retries'
  <2>1. /\ UNCHANGED <<sdk, http, lock, swap, swaps, closing>> /\ call[c].pc = "pause"
        /\ lock = None \/ swaps # call[c].during
    BY <1>4 DEF Wake, wrapper, swapping
  <2>2. call[c] \in Call
    BY DEF Inv, Types, CallTypes
  <2> QED BY <1>4, <2>1, <2>2, WakeEffect
      DEF Inv, Retries, Charged, HasClients, Active, OthersKept, Call
<1>5. ASSUME NEW c \in Caller, AskSdk(c) PROVE Retries'
  <2>1. UNCHANGED <<sdk, http, lock, swap, swaps, closing>>
    BY <1>5 DEF AskSdk, wrapper, swapping
  <2>2. CASE sdk \in Cookie /\ Answered(c, sdk)
    BY <2>1, <2>2, AnsweredEffect, WrapperAssumption
    DEF Inv, Retries, Charged, HasClients, Active, OthersKept
  <2>3. CASE call' = [call EXCEPT ![c].pc = "done", ![c].lost = TRUE]
    BY <2>1, <2>3, SdkFailsEffect DEF Inv, Retries, Charged, HasClients, Active, OthersKept
  <2> QED BY <1>5, <2>2, <2>3, AskSdkCases DEF Inv
<1>6. ASSUME NEW l \in Login, Detach(l) PROVE Retries'
  <2>1. /\ lock = None /\ lock' = l /\ swaps' = swaps + 1 /\ http' = 0
        /\ swap' = [pc |-> "sdk", previous |-> http] /\ UNCHANGED <<sdk, closing>>
    BY <1>6 DEF Detach
  <2>2. \A c \in Caller : call[c] \in Call /\ call'[c] \in Call
    BY <1>6, DetachEffect DEF Inv, Types, CallTypes
  <2>3. swaps \in Nat
    BY DEF Inv, Types, SwapTypes
  <2>4. ASSUME NEW c \in Caller, ~Active(c) PROVE call'[c] = call[c]
    BY <1>6, <2>4, DetachEffect DEF Inv
  <2>5. ASSUME NEW c \in Caller, Active(c), ~call[c].lost
        PROVE  Charged(c)' /\ HasClients(c)'
    <3>1. /\ call'[c].pc = call[c].pc /\ call'[c].attempt = call[c].attempt
          /\ call'[c].during = call[c].during /\ call'[c].harm = call[c].harm + 1
      BY <1>6, <2>5, DetachEffect DEF Inv
    <3>2. Charged(c) /\ HasClients(c)
      BY <2>5 DEF Inv, Retries
    <3>3. HasClients(c)'
      BY <2>1, <3>2 DEF HasClients
    <3>4. Charged(c)'
      BY <2>1, <2>2, <2>3, <3>1, <3>2 DEF Charged, Call
    <3> QED BY <3>3, <3>4
  <2> QED BY <1>6, <2>4, <2>5, DetachEffect DEF Inv, Retries, Active
<1>7. ASSUME NEW l \in Login, InitSdk(l) PROVE Retries'
  <2>1. /\ UNCHANGED <<http, lock, swaps, closing, call>>
        /\ sdk' = None \/ swap'.pc = "http"
    BY <1>7 DEF InitSdk, Inv, Types, SwapTypes, Swap
  <2> QED BY <2>1 DEF Inv, Retries, Charged, HasClients, Active
<1>8. ASSUME NEW l \in Login, InitHttp(l) PROVE Retries'
  <2>1. /\ UNCHANGED <<lock, swaps, closing, call>> /\ http = 0
        /\ http' = 0 => sdk' = None
        /\ http' = http \/ http' = Len(pool) + 1
    BY <1>8 DEF InitHttp, Inv, InUse, Types, ClientTypes
  <2>2. Len(pool) \in Nat
    BY DEF Inv, Types, ClientTypes
  <2>3. \A c \in Caller : call[c].pc = "posted" => call[c].pool \in 1 .. Len(pool)
    BY DEF Inv, Types, CallTypes
  <2> QED BY <2>1, <2>2, <2>3 DEF Inv, Retries, Charged, HasClients, Active
<1>9. ASSUME NEW l \in Login, ClosePrevious(l) PROVE Retries'
  <2>1. /\ UNCHANGED <<sdk, http, swaps, closing, call>> /\ lock' = None
        /\ swap.pc = "close"
    BY <1>9 DEF ClosePrevious
  <2> QED BY <2>1 DEF Inv, Retries, Charged, HasClients, Active
<1>10. CASE Close
  BY <1>10, CloseEffect DEF Inv, Retries, Active
<1>11. CASE Forget
  BY <1>11 DEF Forget, Inv, Retries, Charged, HasClients, Active, swapping
<1> QED BY <1>0, <1>1, <1>2, <1>3, <1>4, <1>5, <1>6, <1>7, <1>8, <1>9, <1>10, <1>11 DEF Next

-----------------------------------------------------------------------------

(* The invariant holds at the start.                                        *)
LEMMA InitInv == Init => Inv
<1> SUFFICES ASSUME Init PROVE Inv
  OBVIOUS
<1> USE DEF Init
<1>1. /\ pool \in Seq(Client) /\ Len(pool) = 1 /\ DOMAIN pool = {1}
      /\ pool[1] = [account |-> cookie, open |-> TRUE]
  BY DEF Client
<1>2. ClientTypes
  BY <1>1 DEF ClientTypes
<1>3. SwapTypes
  <2>1. swap \in Swap /\ swap.previous = 0 /\ swap.pc = "none" /\ raced \in BOOLEAN
    BY DEF Swap
  <2> QED BY <1>1, <2>1, WrapperAssumption DEF SwapTypes
<1>4. NoCall \in Call
  BY WrapperAssumption DEF NoCall, Call, CallState
<1>5. \A c \in Caller : call[c].pc = "idle" /\ call[c].result = None
  BY DEF NoCall
<1>6. CallTypes
  BY <1>4, <1>5 DEF CallTypes
<1>7. Owners /\ InUse /\ Pools
  BY <1>1 DEF Owners, InUse, Pools
<1>8. Accounts /\ Retries
  BY <1>5 DEF Accounts, Retries, Active
<1> QED BY <1>2, <1>3, <1>6, <1>7, <1>8 DEF Inv, Types

(* The invariant holds always.                                              *)
LEMMA InvHolds == Spec => []Inv
<1>1. Inv /\ [Next]_vars => Inv'
  BY StepTypes, StepOwners, StepAccounts, StepInUse, StepPools, StepRetries DEF Inv
<1> QED BY InitInv, <1>1, PTL DEF Spec

(* The fields of P115ClientWrapper keep their types; the lock is held        *)
(* exactly while a swap is under way, and no call makes an attempt too many. *)
THEOREM WrapperTypes == Spec => []TypeOK
<1>1. Inv => TypeOK
  BY DEF Inv, Types, ClientTypes, SwapTypes, CallTypes, TypeOK, Client, Call, CallState
<1> QED BY <1>1, InvHolds, PTL

(* get_download_url_with_ua never answers with an address of an account that *)
(* was replaced before the call began, for any number of swaps.             *)
THEOREM AccountsRight == Spec => []OwnAccount
<1>1. Inv => OwnAccount
  BY DEF Inv, Accounts, OwnAccount
<1> QED BY <1>1, InvHolds, PTL

(* With any number of attempts: a call gives up only when it has been        *)
(* refused, or cut off by a swap, once per attempt.                         *)
THEOREM RetriesSpent == Spec => []NotGivenUpEarly
<1>1. Inv => NotGivenUpEarly
  BY DEF Inv, Retries, NotGivenUpEarly
<1> QED BY <1>1, InvHolds, PTL

(* update_cookie closes what it replaces: between swaps no connection pool   *)
(* but the one in use is open, unless a close() ran into one.               *)
THEOREM PoolsClosed == Spec => []NoPoolLeft
<1>1. Inv => NoPoolLeft
  <2> SUFFICES ASSUME Inv, lock = None, closing = 0, ~raced
               PROVE  /\ http # 0 => pool[http] = [account |-> cookie, open |-> TRUE]
                                     /\ sdk = cookie
                      /\ \A p \in DOMAIN pool : pool[p].open => p = http
    BY DEF NoPoolLeft
  <2>1. swap.previous = 0 /\ \A p \in DOMAIN pool : p # 0
    BY DEF Inv, InUse, Types, SwapTypes, ClientTypes
  <2>2. \A p \in DOMAIN pool : pool[p].open => p = http
    BY <2>1 DEF Inv, Pools
  <2>3. ASSUME http # 0
        PROVE  pool[http] = [account |-> cookie, open |-> TRUE] /\ sdk = cookie
    <3>1. pool[http] \in Client
      BY <2>3 DEF Inv, Types, ClientTypes
    <3>2. pool[http].account = cookie /\ pool[http].open /\ sdk = cookie
      BY <2>3 DEF Inv, Owners, InUse, Pools
    <3> QED BY <3>1, <3>2 DEF Client
  <2> QED BY <2>2, <2>3
<1> QED BY <1>1, InvHolds, PTL

-----------------------------------------------------------------------------
(***************************************************************************)
(* The fast scan.                                                          *)
(*                                                                         *)
(* The list: while nothing is removed, entries only move towards its end,  *)
(* so whatever stands within the offset has been read.  The paths: what    *)
(* the scan will join is the merged tree, the parents it has read and, of  *)
(* the directories it has not read, the parents of today.  With one move   *)
(* at most the merged tree is, above every file that is still there, the   *)
(* tree before the move or the tree after it, and both are on record.      *)
(***************************************************************************)

\* Lists without repetition.
Once(s) == \A i, j \in DOMAIN s : s[i] = s[j] => i = j

\* The drive is a tree, and the list holds its files once each.
Rooted ==
    /\ \A f \in File : home[f] \in Dir => parent[home[f]] # Nowhere
    /\ \A d \in Dir : parent[d] \in Dir => parent[parent[d]] # Nowhere

Listed ==
    /\ \A f \in File : home[f] # Nowhere <=> \E i \in DOMAIN listing : listing[i] = f
    /\ Once(listing)

\* What is empty in which phase.
Phases ==
    /\ pc = "idle" => collected = {} /\ offset = 0
    /\ pc \in {"idle", "files", "derive"} => \A d \in Dir : dirMap[d] = Nowhere
    /\ pc \in {"idle", "files", "derive", "dirs"} => \A d \in Dir : paths[d] = Nowhere
    /\ pc \notin {"done", "failed"} => result = {}
    /\ climbing # Nowhere => pc = "paths" /\ cursor # Nowhere

ScanBooks == ScanTypeOK /\ Rooted /\ Listed /\ Phases

CollectedFiles == {e.file : e \in collected}

\* Entries of the list within the offset have been read.
ReadSoFar ==
    /\ kept \subseteq {f \in File : home[f] # Nowhere}
    /\ removals = 0 /\ pc = "files" =>
           \A i \in DOMAIN listing :
              i <= offset /\ listing[i] \in kept => listing[i] \in CollectedFiles
    /\ removals = 0 /\ ~blind /\ pc \in {"derive", "dirs", "paths"} =>
           kept \subseteq CollectedFiles

Chain(tree, d) == {<<x, tree[x]>> : x \in Above(tree, d)}

Whole(tree, d) == \A x \in Above(tree, d) : tree[x] # Nowhere

\* The parents as the scan will have them if nothing more is moved.
Merged == [d \in Dir |-> IF dirMap[d] = Nowhere THEN parent[d] ELSE dirMap[d]]

\* What is on record.
OnRecord ==
    /\ pc # "idle" => Tree(home, parent) \subseteq truths
    /\ CollectedFiles \subseteq {t.file : t \in truths}

\* What was read is true as long as nothing has been moved.
AsRead ==
    moves = 0 =>
        /\ \A e \in collected : home[e.file] # Nowhere => home[e.file] = e.dir
        /\ \A d \in Dir : dirMap[d] # Nowhere /\ parent[d] # Nowhere => dirMap[d] = parent[d]

\* The path that an entry will get was true once.
PathsComing ==
    moves <= 1 =>
        \A e \in collected :
           home[e.file] # Nowhere /\ Whole(Merged, e.dir) =>
               [file |-> e.file, path |-> Chain(Merged, e.dir)] \in truths

\* path_of: what its cache holds, and what its loop has done.
PathOf ==
    /\ \A d \in Folder :
          paths[d] # Nowhere => paths[d] = Chain(dirMap, d) /\ Whole(dirMap, d)
    /\ climbing # Nowhere =>
          /\ Chain(dirMap, climbing) = parts \union Chain(dirMap, cursor)
          /\ \A x \in Above(dirMap, climbing) :
                dirMap[x] = Nowhere => x \in Above(dirMap, cursor)

PathBooks == OnRecord /\ AsRead /\ PathsComing /\ PathOf /\ PathsHeld

-----------------------------------------------------------------------------
(* The way up from a directory *)

\* What is above a directory is a closed set that holds it.
LEMMA AboveClosed ==
    ASSUME NEW tree, NEW d
    PROVE  /\ Above(tree, d) \subseteq Dir
           /\ d \in Dir => d \in Above(tree, d)
           /\ Closed(tree, Above(tree, d))
BY DEF Above, Closed

\* And the least one.
LEMMA AboveLeast ==
    ASSUME NEW tree, NEW d, NEW S \in SUBSET Dir, d \in Dir => d \in S, Closed(tree, S)
    PROVE  Above(tree, d) \subseteq S
BY DEF Above

\* Nothing is above the root.
LEMMA AboveRoot ==
    ASSUME NEW tree, NEW d, d \notin Dir
    PROVE  Above(tree, d) = {}
<1>1. Closed(tree, {})
  BY DEF Closed
<1> QED
  BY <1>1 DEF Above

\* One step of the way.
LEMMA AboveStep ==
    ASSUME NEW tree, NEW d \in Dir
    PROVE  Above(tree, d) = {d} \union Above(tree, tree[d])
<1>1. Closed(tree, {d} \union Above(tree, tree[d]))
  <2>1. Closed(tree, Above(tree, tree[d])) /\ (tree[d] \in Dir => tree[d] \in Above(tree, tree[d]))
    BY AboveClosed
  <2> QED
    BY <2>1 DEF Closed
<1>2. {d} \union Above(tree, tree[d]) \in SUBSET Dir
  BY AboveClosed
<1>3. Above(tree, d) \subseteq {d} \union Above(tree, tree[d])
  BY <1>1, <1>2, AboveLeast
<1>4. Closed(tree, Above(tree, d)) /\ d \in Above(tree, d) /\ Above(tree, d) \in SUBSET Dir
  BY AboveClosed
<1>5. tree[d] \in Dir => tree[d] \in Above(tree, d)
  BY <1>4 DEF Closed
<1>6. Above(tree, tree[d]) \subseteq Above(tree, d)
  BY <1>4, <1>5, AboveLeast
<1> QED
  BY <1>3, <1>4, <1>6

\* Two trees that agree above a directory have the same way up from it.
LEMMA AboveSame ==
    ASSUME NEW tree, NEW other, NEW d, \A x \in Above(tree, d) : other[x] = tree[x]
    PROVE  /\ Above(other, d) = Above(tree, d)
           /\ Chain(other, d) = Chain(tree, d)
           /\ Whole(other, d) <=> Whole(tree, d)
<1> DEFINE A == Above(tree, d)  B == Above(other, d)
<1>1. A \in SUBSET Dir /\ (d \in Dir => d \in A) /\ Closed(tree, A)
  BY AboveClosed
<1>2. B \in SUBSET Dir /\ (d \in Dir => d \in B) /\ Closed(other, B)
  BY AboveClosed
<1>3. Closed(other, A)
  BY <1>1 DEF Closed
<1>4. B \subseteq A
  BY <1>1, <1>3, AboveLeast
<1>5. Closed(tree, B)
  BY <1>2, <1>4 DEF Closed
<1>6. A \subseteq B
  BY <1>2, <1>5, AboveLeast
<1>7. A = B
  BY <1>4, <1>6
<1>8. Chain(other, d) = Chain(tree, d)
  BY <1>7 DEF Chain
<1>9. Whole(other, d) <=> Whole(tree, d)
  BY <1>7 DEF Whole
<1> QED
  BY <1>7, <1>8, <1>9

-----------------------------------------------------------------------------
(* The drive *)

LEMMA ListBound ==
    ASSUME NEW s \in Seq(File), Once(s)
    PROVE  Len(s) <= Cardinality(File)
<1>1. s \in Injection(1..Len(s), File)
  BY DEF Once, Injection, IsInjective
<1>2. IsFiniteSet(File)
  BY ScanAssumption DEF ScanAssumption
<1>3. Cardinality(1..Len(s)) <= Cardinality(File)
  BY <1>1, <1>2, FS_Injection
<1>4. Cardinality(1..Len(s)) = Len(s)
  <2>1. Len(s) \in Nat /\ Len(s) \in Int /\ 1 \in Int
    OBVIOUS
  <2>2. Cardinality(1..Len(s)) = IF 1 > Len(s) THEN 0 ELSE Len(s) - 1 + 1
    BY <2>1, FS_Interval
  <2> QED
    BY <2>1, <2>2
<1> QED
  BY <1>3, <1>4

LEMMA WithoutOne ==
    ASSUME NEW s \in Seq(File), Once(s), NEW p \in DOMAIN s
    PROVE  /\ Without(s, p) \in Seq(File)
           /\ Once(Without(s, p))
           /\ \A f : (\E i \in DOMAIN Without(s, p) : Without(s, p)[i] = f)
                         <=> f # s[p] /\ \E i \in DOMAIN s : s[i] = f
<1> DEFINE n == Len(s) - 1  w == Without(s, p)
<1>1. n \in Nat /\ p \in 1..Len(s) /\ DOMAIN s = 1..Len(s) /\ Len(s) \in Nat
  OBVIOUS
<1>2. w = [i \in 1..n |-> IF i < p THEN s[i] ELSE s[i + 1]]
  BY DEF Without
<1>3. w \in Seq(File) /\ DOMAIN w = 1..n
  <2>1. \A i \in 1..n : (IF i < p THEN s[i] ELSE s[i + 1]) \in File
    BY <1>1
  <2> QED
    BY <1>1, <1>2, <2>1
<1>4. \A i \in 1..n : w[i] = IF i < p THEN s[i] ELSE s[i + 1]
  BY <1>2
<1>5. Once(w)
  <2> DEFINE v(i) == IF i < p THEN s[i] ELSE s[i + 1]
  <2>1. ASSUME NEW i \in 1..n, NEW j \in 1..n, v(i) = v(j)
        PROVE  i = j
    <3>1. \A a, b \in 1..Len(s) : s[a] = s[b] => a = b
      BY <1>1 DEF Once
    <3>2. i \in 1..Len(s) /\ i + 1 \in 1..Len(s) /\ j \in 1..Len(s) /\ j + 1 \in 1..Len(s)
      BY <1>1
    <3>3. CASE i < p /\ j < p
      BY <2>1, <3>1, <3>2, <3>3
    <3>4. CASE i < p /\ ~(j < p)
      BY <1>1, <2>1, <3>1, <3>2, <3>4
    <3>5. CASE ~(i < p) /\ j < p
      BY <1>1, <2>1, <3>1, <3>2, <3>5
    <3>6. CASE ~(i < p) /\ ~(j < p)
      <4>1. s[i + 1] = s[j + 1]
        BY <2>1, <3>6
      <4>2. i + 1 = j + 1
        BY <3>1, <3>2, <4>1
      <4> QED
        BY <1>1, <4>2
    <3> QED
      BY <3>3, <3>4, <3>5, <3>6
  <2> QED
    BY <1>3, <1>4, <2>1 DEF Once
<1>6. ASSUME NEW f, NEW i \in 1..n, w[i] = f
      PROVE  f # s[p] /\ \E j \in DOMAIN s : s[j] = f
  <2>1. CASE i < p
    BY <1>1, <1>4, <1>6, <2>1 DEF Once
  <2>2. CASE ~(i < p)
    BY <1>1, <1>4, <1>6, <2>2 DEF Once
  <2> QED
    BY <2>1, <2>2
<1>7. ASSUME NEW f, f # s[p], NEW j \in DOMAIN s, s[j] = f
      PROVE  \E i \in 1..n : w[i] = f
  <2>1. CASE j < p
    <3>1. j \in 1..n /\ w[j] = f
      BY <1>1, <1>4, <1>7, <2>1
    <3> QED
      BY <3>1
  <2>2. CASE ~(j < p)
    <3>1. j - 1 \in 1..n /\ w[j - 1] = s[j - 1 + 1]
      BY <1>1, <1>4, <1>7, <2>2
    <3>2. w[j - 1] = f
      BY <1>1, <1>7, <3>1
    <3> QED
      BY <3>1, <3>2
  <2> QED
    BY <2>1, <2>2
<1> HIDE DEF w
<1> QED
  BY <1>3, <1>5, <1>6, <1>7 DEF w

DriveTypes ==
    /\ listing \in Seq(File)
    /\ home \in [File -> Folder \union {Nowhere}]
    /\ parent \in [Dir -> Folder \union {Nowhere}]
    /\ unusable \subseteq File
    /\ changes \in 0..MaxChange /\ moves \in 0..MaxMove /\ removals \in 0..MaxRemoval

\* A list with one more entry in front.
LEMMA PushedOne ==
    ASSUME NEW s \in Seq(File), NEW f \in File, \A i \in DOMAIN s : s[i] # f, Once(s)
    PROVE  /\ <<f>> \o s \in Seq(File)
           /\ Once(<<f>> \o s)
           /\ \A i \in DOMAIN (<<f>> \o s) :
                 /\ i = 1 => (<<f>> \o s)[i] = f
                 /\ i # 1 => i - 1 \in DOMAIN s /\ (<<f>> \o s)[i] = s[i - 1]
           /\ \A g : (\E i \in DOMAIN (<<f>> \o s) : (<<f>> \o s)[i] = g)
                         <=> g = f \/ \E i \in DOMAIN s : s[i] = g
<1> DEFINE t == <<f>> \o s
<1>1. t \in Seq(File) /\ Len(t) = Len(s) + 1 /\ Len(s) \in Nat
  OBVIOUS
<1>2. DOMAIN t = 1..Len(s) + 1 /\ DOMAIN s = 1..Len(s)
  BY <1>1
<1>3. t[1] = f
  OBVIOUS
<1>4. \A i \in 1..Len(s) + 1 : i # 1 => i - 1 \in 1..Len(s) /\ t[i] = s[i - 1]
  BY <1>1
<1> HIDE DEF t
<1>5. Once(t)
  <2> SUFFICES ASSUME NEW i \in 1..Len(s) + 1, NEW j \in 1..Len(s) + 1, t[i] = t[j]
               PROVE  i = j
    BY <1>2 DEF Once
  <2>1. CASE i = 1 \/ j = 1
    BY <1>1, <1>2, <1>3, <1>4, <2>1
  <2>2. CASE i # 1 /\ j # 1
    <3>1. i - 1 \in DOMAIN s /\ j - 1 \in DOMAIN s /\ s[i - 1] = s[j - 1]
      BY <1>2, <1>4, <2>2
    <3>2. i - 1 = j - 1
      BY <3>1 DEF Once
    <3> QED
      BY <1>1, <3>2
  <2> QED
    BY <2>1, <2>2
<1>6. ASSUME NEW g
      PROVE  (\E i \in DOMAIN t : t[i] = g) <=> g = f \/ \E i \in DOMAIN s : s[i] = g
  <2>1. ASSUME NEW i \in DOMAIN s PROVE i + 1 \in DOMAIN t /\ t[i + 1] = s[i]
    <3>1. i + 1 \in 1..Len(s) + 1 /\ i + 1 # 1 /\ i + 1 - 1 = i
      BY <1>1, <1>2
    <3> QED
      BY <1>2, <1>4, <3>1
  <2>2. 1 \in DOMAIN t
    BY <1>1, <1>2
  <2> QED
    BY <1>2, <1>3, <1>4, <2>1, <2>2
<1> QED
  BY <1>1, <1>2, <1>3, <1>4, <1>5, <1>6 DEF t

LEMMA UploadDrive ==
    ASSUME ScanBooks, NEW f \in File, NEW d \in Folder, Upload(f, d)
    PROVE  DriveTypes' /\ Rooted' /\ Listed'
<1> USE ScanAssumption DEF ScanAssumption
<1>1. DriveTypes'
  BY DEF DriveTypes, ScanBooks, ScanTypeOK, Upload, Changed
<1>2. Rooted'
  BY DEF Rooted, ScanBooks, ScanTypeOK, Upload, Exists, Folder
<1>3. \A i \in DOMAIN listing : listing[i] # f
  BY DEF ScanBooks, ScanTypeOK, Listed, Upload
<1> DEFINE t == <<f>> \o listing
<1>4. listing' = t
  BY DEF Upload
<1>5. Once(t) /\ \A g : (\E i \in DOMAIN t : t[i] = g)
                            <=> g = f \/ \E i \in DOMAIN listing : listing[i] = g
  <2>1. listing \in Seq(File) /\ Once(listing)
    BY DEF ScanBooks, ScanTypeOK, Listed
  <2> QED
    BY <1>3, <2>1, PushedOne
<1> HIDE DEF t
<1>6. ASSUME NEW g \in File
      PROVE  home'[g] # Nowhere <=> \E i \in DOMAIN listing' : listing'[i] = g
  <2>1. home'[g] = IF g = f THEN d ELSE home[g]
    BY DEF Upload, ScanBooks, ScanTypeOK
  <2>2. d # Nowhere
    BY DEF Folder
  <2>3. home[g] # Nowhere <=> \E i \in DOMAIN listing : listing[i] = g
    BY DEF ScanBooks, Listed
  <2> QED
    BY <1>4, <1>5, <2>1, <2>2, <2>3
<1> QED
  BY <1>1, <1>2, <1>4, <1>5, <1>6 DEF Listed, Once

\* A file that goes leaves the list and its directory.
LEMMA GoneDrive ==
    ASSUME ScanBooks, NEW p \in DOMAIN listing,
           listing' = Without(listing, p),
           \A f \in File : home'[f] = IF f = listing[p] THEN Nowhere ELSE home[f]
    PROVE  listing' \in Seq(File) /\ Listed'
<1>1. Once(listing) /\ listing \in Seq(File)
  BY DEF ScanBooks, Listed, ScanTypeOK
<1> DEFINE w == Without(listing, p)
<1>2. /\ w \in Seq(File)
      /\ Once(w)
      /\ \A f : (\E i \in DOMAIN w : w[i] = f)
                    <=> f # listing[p] /\ \E i \in DOMAIN listing : listing[i] = f
  BY <1>1, WithoutOne
<1>3. listing' = w
  OBVIOUS
<1> HIDE DEF w
<1>4. ASSUME NEW f \in File
      PROVE  home'[f] # Nowhere <=> \E i \in DOMAIN w : w[i] = f
  BY <1>2 DEF ScanBooks, Listed
<1> QED
  BY <1>2, <1>3, <1>4 DEF Listed, Once

LEMMA DeleteDrive ==
    ASSUME ScanBooks, NEW p \in DOMAIN listing, Delete(p)
    PROVE  DriveTypes' /\ Rooted' /\ Listed'
<1> USE ScanAssumption DEF ScanAssumption
<1>1. listing[p] \in File
  BY DEF ScanBooks, ScanTypeOK
<1>2. \A f \in File : home'[f] = IF f = listing[p] THEN Nowhere ELSE home[f]
  BY <1>1 DEF Delete, ScanBooks, ScanTypeOK
<1>3. listing' \in Seq(File) /\ Listed'
  BY <1>2, GoneDrive DEF Delete
<1>4. DriveTypes'
  BY <1>3 DEF DriveTypes, ScanBooks, ScanTypeOK, Delete, Changed
<1>5. Rooted'
  BY <1>2 DEF Rooted, ScanBooks, ScanTypeOK, Delete, Folder
<1> QED
  BY <1>3, <1>4, <1>5

\* The positions of the files of one directory.
Inside(d) == {i \in DOMAIN listing : home[listing[i]] = d}

LEMMA InsideCount ==
    ASSUME ScanBooks, NEW d
    PROVE  /\ IsFiniteSet(Inside(d)) /\ Cardinality(Inside(d)) \in Nat
           /\ Cardinality(Inside(d)) = 0 <=> Inside(d) = {}
           /\ Cardinality(Inside(d)) <= 1 =>
                  \A i, j \in Inside(d) : i = j
<1>1. DOMAIN listing = 1..Len(listing) /\ Len(listing) \in Nat
  BY DEF ScanBooks, ScanTypeOK
<1>2. IsFiniteSet(1..Len(listing))
  BY <1>1, FS_Interval
<1>3. IsFiniteSet(Inside(d))
  BY <1>1, <1>2, FS_Subset DEF Inside
<1>4. Cardinality(Inside(d)) \in Nat
  BY <1>3, FS_CardinalityType
<1>5. Cardinality(Inside(d)) = 0 <=> Inside(d) = {}
  BY <1>3, FS_EmptySet
<1>6. Cardinality(Inside(d)) = 1 => \E x : Inside(d) = {x}
  BY <1>3, FS_Singleton
<1> QED
  BY <1>3, <1>4, <1>5, <1>6

LEMMA DeleteDirDrive ==
    ASSUME ScanBooks, NEW d \in Dir, DeleteDir(d)
    PROVE  DriveTypes' /\ Rooted' /\ Listed'
<1> USE ScanAssumption DEF ScanAssumption
<1> DEFINE In == Inside(d)
<1>1. /\ parent[d] # Nowhere /\ d \notin {parent[x] : x \in Dir}
      /\ parent' = [parent EXCEPT ![d] = Nowhere]
      /\ home' = [f \in File |-> IF home[f] = d THEN Nowhere ELSE home[f]]
      /\ listing' = IF In = {} THEN listing ELSE Without(listing, CHOOSE i \in In : TRUE)
      /\ Cardinality(In) <= 1
      /\ removals' = removals + Cardinality(In) /\ removals' <= MaxRemoval
      /\ UNCHANGED moves
      /\ changes < MaxChange /\ changes' = changes + 1
  BY DEF DeleteDir, Inside, Changed
<1>2. \A f \in File : home'[f] = IF home[f] = d THEN Nowhere ELSE home[f]
  BY <1>1
<1>3. listing' \in Seq(File) /\ Listed'
  <2>1. CASE In = {}
    <3>1. \A f \in File : home[f] # d
      <4> SUFFICES ASSUME NEW f \in File, home[f] = d PROVE FALSE
        OBVIOUS
      <4>1. home[f] # Nowhere
        OBVIOUS
      <4>2. PICK i \in DOMAIN listing : listing[i] = f
        BY <4>1 DEF ScanBooks, Listed
      <4> QED
        BY <2>1, <4>2 DEF Inside
    <3>2. \A f \in File : home'[f] = home[f]
      BY <1>2, <3>1
    <3>3. listing' = listing
      BY <1>1, <2>1
    <3> QED
      BY <3>2, <3>3 DEF ScanBooks, ScanTypeOK, Listed, Once
  <2>2. CASE In # {}
    <3> DEFINE p == CHOOSE i \in In : TRUE
    <3>1. p \in In
      BY <2>2
    <3> HIDE DEF p
    <3>2. p \in DOMAIN listing /\ home[listing[p]] = d
      BY <3>1 DEF Inside
    <3>3. \A i \in In : i = p
      BY <1>1, <3>1, InsideCount
    <3>4. ASSUME NEW f \in File PROVE home[f] = d <=> f = listing[p]
      <4>1. ASSUME home[f] = d PROVE f = listing[p]
        <5>1. home[f] # Nowhere
          BY <4>1
        <5>2. PICK i \in DOMAIN listing : listing[i] = f
          BY <5>1 DEF ScanBooks, Listed
        <5>3. i \in In
          BY <4>1, <5>2 DEF Inside
        <5> QED
          BY <3>3, <5>2, <5>3
      <4> QED
        BY <3>2, <4>1
    <3>5. \A f \in File : home'[f] = IF f = listing[p] THEN Nowhere ELSE home[f]
      BY <1>2, <3>4
    <3>6. listing' = Without(listing, p)
      BY <1>1, <2>2 DEF p
    <3> QED
      BY <3>2, <3>5, <3>6, GoneDrive
  <2> QED
    BY <2>1, <2>2
<1>4. home' \in [File -> Folder \union {Nowhere}]
  BY <1>1 DEF ScanBooks, ScanTypeOK
<1>5. parent' \in [Dir -> Folder \union {Nowhere}]
  BY <1>1 DEF ScanBooks, ScanTypeOK
<1>6. Cardinality(In) \in Nat
  BY InsideCount
<1> HIDE DEF In
<1>7. changes' \in 0..MaxChange /\ moves' \in 0..MaxMove /\ removals' \in 0..MaxRemoval
  BY <1>1, <1>6 DEF ScanBooks, ScanTypeOK
<1>8. Rooted'
  BY <1>1, <1>2 DEF Rooted, ScanBooks, ScanTypeOK, Folder
<1>9. unusable' \subseteq File
  BY DEF DeleteDir, Changed, ScanBooks, ScanTypeOK
<1> QED
  BY <1>3, <1>4, <1>5, <1>7, <1>8, <1>9 DEF DriveTypes

LEMMA MoveFileDrive ==
    ASSUME ScanBooks, NEW f \in File, NEW d \in Folder, MoveFile(f, d)
    PROVE  DriveTypes' /\ Rooted' /\ Listed'
<1> USE ScanAssumption DEF ScanAssumption
<1>1. DriveTypes'
  BY DEF DriveTypes, ScanBooks, ScanTypeOK, MoveFile, Changed, Moved
<1>2. Rooted'
  BY DEF Rooted, ScanBooks, ScanTypeOK, MoveFile, Exists, Folder
<1>3. \A g \in File : home'[g] # Nowhere <=> home[g] # Nowhere
  BY DEF MoveFile, Folder, ScanBooks, ScanTypeOK
<1> QED
  BY <1>1, <1>2, <1>3 DEF Listed, Once, MoveFile, ScanBooks

LEMMA MoveDirDrive ==
    ASSUME ScanBooks, NEW d \in Dir, NEW e \in Folder, MoveDir(d, e)
    PROVE  DriveTypes' /\ Rooted' /\ Listed'
<1> USE ScanAssumption DEF ScanAssumption
<1>1. DriveTypes'
  BY DEF DriveTypes, ScanBooks, ScanTypeOK, MoveDir, Changed, Moved
<1>2. Rooted'
  BY DEF Rooted, ScanBooks, ScanTypeOK, MoveDir, Exists, Folder
<1> QED
  BY <1>1, <1>2 DEF Listed, Once, MoveDir, ScanBooks

LEMMA UserDrive ==
    ASSUME ScanBooks, User
    PROVE  DriveTypes' /\ Rooted' /\ Listed'
BY UploadDrive, MoveFileDrive, DeleteDrive, DeleteDirDrive, MoveDirDrive DEF User

-----------------------------------------------------------------------------
(* Types and phases *)

\* In a whole tree every way up stays in the tree.
LEMMA AboveThere ==
    ASSUME NEW tree \in [Dir -> Folder \union {Nowhere}],
           \A x \in Dir : tree[x] \in Dir => tree[tree[x]] # Nowhere,
           NEW d, d \in Dir => tree[d] # Nowhere
    PROVE  Whole(tree, d)
<1> DEFINE S == {x \in Dir : tree[x] # Nowhere}
<1>1. Closed(tree, S)
  BY DEF Closed
<1>2. Above(tree, d) \subseteq S
  BY <1>1, AboveLeast
<1> QED
  BY <1>2 DEF Whole

\* What a walk finds are files and paths.
LEMMA TreeFound ==
    ASSUME NEW homes \in [File -> Folder \union {Nowhere}],
           NEW tree \in [Dir -> Folder \union {Nowhere}],
           \A f \in File : homes[f] \in Dir => tree[homes[f]] # Nowhere,
           \A x \in Dir : tree[x] \in Dir => tree[tree[x]] # Nowhere
    PROVE  /\ Tree(homes, tree) \subseteq Found
           /\ \A f \in File : homes[f] # Nowhere =>
                 /\ [file |-> f, path |-> Chain(tree, homes[f])] \in Tree(homes, tree)
                 /\ Whole(tree, homes[f])
<1>1. ASSUME NEW f \in File, homes[f] # Nowhere
      PROVE  Whole(tree, homes[f]) /\ Chain(tree, homes[f]) \in Path
  <2>1. Whole(tree, homes[f])
    BY AboveThere
  <2>2. \A x \in Above(tree, homes[f]) : x \in Dir /\ tree[x] \in Folder
    BY <2>1, AboveClosed DEF Whole
  <2> QED
    BY <2>1, <2>2 DEF Chain, Path
<1>2. Tree(homes, tree) = {[file |-> f, path |-> Chain(tree, homes[f])] :
                               f \in {g \in File : homes[g] # Nowhere}}
  BY DEF Tree, Chain
<1>3. Tree(homes, tree) \subseteq Found
  BY <1>1, <1>2 DEF Found
<1> QED
  BY <1>1, <1>2, <1>3

\* The files that a walk finds are those in the tree.
LEMMA TreeFiles ==
    ASSUME NEW homes, NEW tree
    PROVE  \A f : (\E r \in Tree(homes, tree) : r.file = f) <=> f \in File /\ homes[f] # Nowhere
<1> DEFINE walk(f) == [file |-> f, path |-> {<<x, tree[x]>> : x \in Above(tree, homes[f])}]
<1>1. Tree(homes, tree) = {walk(f) : f \in {g \in File : homes[g] # Nowhere}}
  BY DEF Tree
<1>2. \A f : walk(f).file = f
  OBVIOUS
<1> HIDE DEF walk
<1> QED
  BY <1>1, <1>2

\* What the types say besides the drive.
ScanTypes ==
    /\ Len(listing) <= Cardinality(File)
    /\ cancel \in BOOLEAN
    /\ pc \in {"idle", "files", "derive", "dirs", "paths", "fallback", "done", "failed"}
    /\ collected \subseteq Entry
    /\ offset \in Nat /\ pageNo \in 1..MaxDirsPages
    /\ dirMap \in [Dir -> Folder \union {Nowhere}]
    /\ paths \in [Folder -> Path \union {Nowhere}]
    /\ climbing \in Dir \union {Nowhere}
    /\ cursor \in Folder \union {Nowhere}
    /\ parts \in Path
    /\ result \subseteq Found
    /\ blind \in BOOLEAN /\ kept \subseteq File /\ truths \subseteq Found

LEMMA TypesJoin == ScanTypeOK <=> DriveTypes /\ ScanTypes
BY DEF ScanTypeOK, DriveTypes, ScanTypes

LEMMA TypesJoinNext == ScanTypeOK' <=> DriveTypes' /\ ScanTypes'
BY DEF ScanTypeOK, DriveTypes, ScanTypes

\* The walk of today's tree.
LEMMA TodayFound ==
    ASSUME ScanBooks
    PROVE  /\ Tree(home, parent) \subseteq Found
           /\ \A f \in File : home[f] # Nowhere =>
                 /\ [file |-> f, path |-> Chain(parent, home[f])] \in Tree(home, parent)
                 /\ Whole(parent, home[f])
BY TreeFound DEF ScanBooks, ScanTypeOK, Rooted

LEMMA TomorrowFound ==
    ASSUME DriveTypes', Rooted'
    PROVE  /\ Tree(home', parent') \subseteq Found
           /\ \A f \in File : home'[f] # Nowhere =>
                 /\ [file |-> f, path |-> Chain(parent', home'[f])] \in Tree(home', parent')
                 /\ Whole(parent', home'[f])
BY TreeFound DEF DriveTypes, Rooted

\* A change of the user leaves the scan alone.
LEMMA UserScan ==
    ASSUME User
    PROVE  /\ pc \notin {"idle", "done", "failed"}
           /\ truths' = truths \union Tree(home', parent')
           /\ kept' \subseteq kept
           /\ UNCHANGED <<cancel, pc, collected, offset, pageNo, dirMap, paths,
                          climbing, cursor, parts, result, unusable, blind>>
<1>1. Changed /\ kept' \subseteq kept
  BY DEF User, Upload, Delete, DeleteDir, MoveFile, MoveDir
<1> QED
  BY <1>1 DEF Changed, scan, climb

LEMMA UserBooks ==
    ASSUME ScanBooks, User
    PROVE  ScanBooks'
<1>1. DriveTypes' /\ Rooted' /\ Listed'
  BY UserDrive
<1>2. Tree(home', parent') \subseteq Found
  BY <1>1, TomorrowFound
<1>3. Len(listing') <= Cardinality(File)
  BY <1>1, ListBound DEF DriveTypes, Listed
<1>4. ScanTypes'
  BY <1>2, <1>3, UserScan DEF ScanBooks, ScanTypeOK, ScanTypes
<1>5. Phases'
  BY UserScan DEF ScanBooks, Phases
<1> QED
  BY <1>1, <1>4, <1>5, TypesJoinNext DEF ScanBooks

\* The scan leaves the drive alone.
LEMMA StepDrive ==
    ASSUME Step \/ RequestCancel \/ UNCHANGED scanVars
    PROVE  UNCHANGED <<listing, home, parent, unusable, changes, moves, removals>>
BY DEF Step, RequestCancel, scanVars, drive, quiet, still, Begin, CancelSeen, Refused, FetchFiles,
       Derive, FetchDirs, EnterPathOf, Climb, LeavePathOf, NoParent, Compose, Fallback, FallbackBlind

LEMMA SameDrive ==
    ASSUME ScanBooks, UNCHANGED <<listing, home, parent, unusable, changes, moves, removals>>
    PROVE  DriveTypes' /\ Rooted' /\ Listed' /\ Len(listing') <= Cardinality(File)
BY DEF ScanBooks, ScanTypeOK, DriveTypes, Rooted, Listed, Once

\* The page of the file list that is due.
Page == {i \in DOMAIN listing : offset < i /\ i <= offset + PageSize}

LEMMA PageRead ==
    ASSUME ScanBooks
    PROVE  /\ IsFiniteSet(Page)
           /\ Cardinality(Page) \in Nat
           /\ \A i \in DOMAIN listing : i <= offset + Cardinality(Page) => i <= offset \/ i \in Page
           /\ Page = {} => Len(listing) <= offset
<1> USE ScanAssumption DEF ScanAssumption
<1>1. DOMAIN listing = 1..Len(listing) /\ Len(listing) \in Nat /\ offset \in Nat /\ PageSize \in Nat \ {0}
  BY DEF ScanBooks, ScanTypeOK
<1> DEFINE last == IF offset + PageSize <= Len(listing) THEN offset + PageSize ELSE Len(listing)
<1>2. Page = (offset + 1)..last
  BY <1>1 DEF Page
<1>3. offset + 1 \in Int /\ last \in Int
  BY <1>1
<1>4. IsFiniteSet(Page) /\ Cardinality(Page) = IF offset + 1 > last THEN 0 ELSE last - (offset + 1) + 1
  BY <1>2, <1>3, FS_Interval
<1>5. Cardinality(Page) \in Nat
  BY <1>1, <1>3, <1>4
<1>6. ASSUME NEW i \in DOMAIN listing, i <= offset + Cardinality(Page), ~(i <= offset)
      PROVE  i \in Page
  <2>1. i \in Nat /\ offset < i /\ i <= Len(listing)
    BY <1>1, <1>6
  <2>2. CASE offset + 1 > last
    BY <1>1, <1>3, <1>4, <1>6, <2>1, <2>2
  <2>3. CASE ~(offset + 1 > last)
    <3>1. i <= last
      BY <1>1, <1>3, <1>4, <1>6, <2>1, <2>3
    <3> QED
      BY <1>1, <1>2, <2>1, <3>1
  <2> QED
    BY <2>2, <2>3
<1>7. Page = {} => Len(listing) <= offset
  <2> SUFFICES ASSUME ~(Len(listing) <= offset) PROVE offset + 1 \in Page
    OBVIOUS
  <2> QED
    BY <1>1 DEF Page
<1> QED
  BY <1>4, <1>5, <1>6, <1>7

LEMMA AnswerKinds ==
    ASSUME NEW a \in FilesAnswer
    PROVE  \/ a.page = Page /\ a.count \in {Len(listing), 0}
           \/ a.page = {} /\ a.count \in {Len(listing), 0}
BY DEF FilesAnswer, Page

LEMMA FetchFilesBooks ==
    ASSUME ScanBooks, NEW a \in FilesAnswer, FetchFiles(a.page, a.count)
    PROVE  ScanTypes' /\ Phases'
<1> USE ScanAssumption DEF ScanAssumption
<1> DEFINE page == a.page
<1>1. page \subseteq DOMAIN listing /\ Cardinality(page) \in Nat
  <2>1. a.page = Page \/ a.page = {}
    BY AnswerKinds
  <2>2. Cardinality(Page) \in Nat /\ Cardinality({}) = 0
    BY PageRead, FS_EmptySet
  <2>3. CASE page = Page
    BY <2>2, <2>3 DEF Page
  <2>4. CASE page = {}
    BY <2>2, <2>4
  <2> QED
    BY <2>1, <2>3, <2>4
<1> DEFINE new == {[file |-> listing[i], dir |-> home[listing[i]]] : i \in page}
<1>2. new \subseteq Entry
  <2> SUFFICES ASSUME NEW i \in page
               PROVE  listing[i] \in File /\ home[listing[i]] \in Folder
    BY DEF Entry
  <2>1. listing[i] \in File /\ i \in DOMAIN listing
    BY <1>1 DEF ScanBooks, ScanTypeOK
  <2>2. home[listing[i]] # Nowhere
    BY <2>1 DEF ScanBooks, Listed
  <2> QED
    BY <2>1, <2>2 DEF ScanBooks, ScanTypeOK
<1>3. UNCHANGED <<listing, home, parent, unusable, changes, moves, removals>>
  BY DEF FetchFiles, quiet, still, drive
<1>4. Len(listing') <= Cardinality(File)
  BY <1>3, SameDrive
<1>5. /\ pc = "files"
      /\ UNCHANGED <<cancel, pageNo, dirMap, paths, climbing, cursor, parts, result, kept, truths>>
      /\ blind' = (blind \/ Blinded(a.page, a.count))
      /\ \/ pc' = "fallback" /\ UNCHANGED <<collected, offset>>
         \/ /\ pc' \in {"files", "derive"}
            /\ collected' = collected \union new
            /\ offset' = offset + Cardinality(page)
  BY DEF FetchFiles, quiet, still, climb, Unavailable
<1> HIDE DEF page, new
<1>9. blind' \in BOOLEAN
  BY <1>5
<1>6. offset' \in Nat /\ collected' \subseteq Entry
  BY <1>1, <1>2, <1>5 DEF ScanBooks, ScanTypeOK
<1>7. ScanTypes'
  BY <1>4, <1>5, <1>6, <1>9 DEF ScanTypes, ScanBooks, ScanTypeOK
<1>8. Phases'
  BY <1>5 DEF Phases, ScanBooks
<1> QED
  BY <1>7, <1>8

LEMMA FetchDirsBooks ==
    ASSUME ScanBooks, NEW page \in SUBSET Dir, NEW hasNext \in BOOLEAN, FetchDirs(page, hasNext)
    PROVE  ScanTypes' /\ Phases'
<1> USE ScanAssumption DEF ScanAssumption
<1>1. UNCHANGED <<listing, home, parent, unusable, changes, moves, removals>>
  BY DEF FetchDirs, quiet, still, drive
<1>2. Len(listing') <= Cardinality(File)
  BY <1>1, SameDrive
<1>3. /\ pc = "dirs"
      /\ UNCHANGED <<cancel, collected, offset, climbing, cursor, parts, result, blind, kept, truths>>
      /\ \/ pc' = "fallback" /\ UNCHANGED <<pageNo, dirMap, paths>>
         \/ /\ ~(hasNext /\ LastPage(pageNo))
            /\ pc' \in {"dirs", "paths"}
            /\ dirMap' = [d \in Dir |-> IF d \in page THEN ParentRead(d) ELSE dirMap[d]]
            /\ pageNo' = IF hasNext THEN pageNo + 1 ELSE pageNo
            /\ paths' = [paths EXCEPT ![Root] = {}]
  BY DEF FetchDirs, quiet, still, climb, Unavailable
<1>4. pageNo' \in 1..MaxDirsPages
  BY <1>3 DEF LastPage, ScanBooks, ScanTypeOK
<1>5. dirMap' \in [Dir -> Folder \union {Nowhere}]
  BY <1>3 DEF ParentRead, ScanBooks, ScanTypeOK
<1>6. {} \in Path
  BY DEF Path
<1>7. paths' \in [Folder -> Path \union {Nowhere}] /\ \A d \in Dir : paths'[d] = paths[d]
  <2>1. paths \in [Folder -> Path \union {Nowhere}] /\ Root \in Folder
    BY DEF ScanBooks, ScanTypeOK, Folder
  <2>2. Dir \subseteq Folder /\ Root \notin Dir
    BY DEF Folder
  <2>3. CASE paths' = paths
    BY <2>1, <2>3
  <2>4. CASE paths' = [paths EXCEPT ![Root] = {}]
    BY <1>6, <2>1, <2>2, <2>4
  <2> QED
    BY <1>3, <2>3, <2>4
<1>8. ScanTypes'
  BY <1>2, <1>3, <1>4, <1>5, <1>7 DEF ScanTypes, ScanBooks, ScanTypeOK
<1>9. Phases'
  BY <1>3, <1>7 DEF Phases, ScanBooks
<1> QED
  BY <1>8, <1>9

\* The loop of path_of.
LEMMA PathOfBooks ==
    ASSUME ScanBooks, (\E d \in Dir : EnterPathOf(d)) \/ Climb \/ LeavePathOf \/ NoParent
    PROVE  ScanTypes' /\ Phases'
<1> USE ScanAssumption DEF ScanAssumption
<1>1. UNCHANGED <<listing, home, parent, unusable, changes, moves, removals>>
  BY StepDrive DEF Step
<1>2. Len(listing') <= Cardinality(File)
  BY <1>1, SameDrive
<1>3. UNCHANGED <<cancel, collected, offset, pageNo, dirMap, result, blind, kept, truths>>
  BY DEF EnterPathOf, Climb, LeavePathOf, NoParent, quiet, still
<1>4. {} \in Path
  BY DEF Path
<1>5. ASSUME NEW d \in Dir, EnterPathOf(d) PROVE ScanTypes' /\ Phases'
  <2>1. /\ pc = "paths" /\ UNCHANGED <<pc, paths>>
        /\ climbing' = d /\ cursor' = d /\ parts' = {}
    BY <1>5 DEF EnterPathOf
  <2>2. d \in Folder /\ d # Nowhere
    BY DEF Folder
  <2> QED
    BY <1>2, <1>3, <1>4, <2>1, <2>2 DEF ScanTypes, Phases, ScanBooks, ScanTypeOK
<1>6. ASSUME Climb PROVE ScanTypes' /\ Phases'
  <2>1. /\ climbing # Nowhere /\ cursor # Root /\ dirMap[cursor] # Nowhere
        /\ parts' = parts \union {<<cursor, dirMap[cursor]>>}
        /\ cursor' = dirMap[cursor]
        /\ UNCHANGED <<pc, paths, climbing>>
    BY <1>6 DEF Climb, Parent
  <2>2. cursor \in Dir
    BY <2>1 DEF ScanBooks, ScanTypeOK, Phases, Folder
  <2>3. dirMap[cursor] \in Folder
    BY <2>1, <2>2 DEF ScanBooks, ScanTypeOK
  <2>4. parts' \in Path
    BY <2>1, <2>2, <2>3 DEF ScanBooks, ScanTypeOK, Path
  <2> QED
    BY <1>2, <1>3, <2>1, <2>3, <2>4 DEF ScanTypes, Phases, ScanBooks, ScanTypeOK, Folder
<1>7. ASSUME LeavePathOf PROVE ScanTypes' /\ Phases'
  <2>1. /\ climbing # Nowhere
        /\ paths' = [paths EXCEPT ![climbing] = parts]
        /\ climbing' = Nowhere /\ cursor' = Nowhere /\ parts' = {}
        /\ UNCHANGED pc
    BY <1>7 DEF LeavePathOf
  <2>2. paths' \in [Folder -> Path \union {Nowhere}]
    BY <2>1 DEF ScanBooks, ScanTypeOK
  <2>3. pc = "paths"
    BY <2>1 DEF ScanBooks, Phases
  <2> QED
    BY <1>2, <1>3, <1>4, <2>1, <2>2, <2>3 DEF ScanTypes, Phases, ScanBooks, ScanTypeOK
<1>8. ASSUME NoParent PROVE ScanTypes' /\ Phases'
  <2>1. /\ climbing # Nowhere /\ pc' = "fallback" /\ UNCHANGED paths
        /\ climbing' = Nowhere /\ cursor' = Nowhere /\ parts' = {}
    BY <1>8 DEF NoParent
  <2>2. pc = "paths"
    BY <2>1 DEF ScanBooks, Phases
  <2> QED
    BY <1>2, <1>3, <1>4, <2>1, <2>2 DEF ScanTypes, Phases, ScanBooks, ScanTypeOK
<1> QED
  BY <1>5, <1>6, <1>7, <1>8

LEMMA StepBooks ==
    ASSUME ScanBooks, Step
    PROVE  ScanTypes' /\ Phases'
<1> USE ScanAssumption DEF ScanAssumption
<1>1. UNCHANGED <<listing, home, parent, unusable, changes, moves, removals>>
  BY StepDrive
<1>2. Len(listing') <= Cardinality(File)
  BY <1>1, SameDrive
<1>3. Tree(home, parent) \subseteq Found
  BY TodayFound
<1>4. ASSUME Begin PROVE ScanTypes' /\ Phases'
  BY <1>2, <1>3, <1>4 DEF Begin, climb, ScanTypes, Phases, ScanBooks, ScanTypeOK
<1>5. ASSUME CancelSeen \/ Refused \/ \E converts \in BOOLEAN : Derive(converts)
      PROVE  ScanTypes' /\ Phases'
  <2>1. /\ UNCHANGED <<cancel, collected, offset, pageNo, dirMap, paths, climbing, cursor,
                       parts, result, blind, kept, truths>>
        /\ \/ pc \in {"files", "derive"} /\ pc' = "done"
           \/ pc \in {"files", "derive", "dirs"} /\ pc' = "fallback"
           \/ pc = "derive" /\ pc' = "dirs"
    BY <1>5 DEF CancelSeen, Refused, Derive, Unavailable, climb, quiet, still
  <2> QED
    BY <1>2, <2>1 DEF ScanTypes, Phases, ScanBooks, ScanTypeOK
<1>6. ASSUME Compose PROVE ScanTypes' /\ Phases'
  <2>1. /\ UNCHANGED <<cancel, collected, offset, pageNo, dirMap, paths, climbing, cursor,
                       parts, kept, truths>>
        /\ pc = "paths" /\ pc' = "done" /\ climbing = Nowhere
        /\ \A e \in Usable(collected) : paths[e.dir] # Nowhere
        /\ result' = {[file |-> e.file, path |-> paths[e.dir]] : e \in Usable(collected)}
        /\ UNCHANGED blind
    BY <1>6 DEF Compose, climb, quiet, still
  <2>2. \A e \in Usable(collected) : e.file \in File /\ e.dir \in Folder
    BY DEF ScanBooks, ScanTypeOK, Entry, Usable
  <2>3. \A e \in Usable(collected) : paths[e.dir] \in Path
    BY <2>1, <2>2 DEF ScanBooks, ScanTypeOK
  <2>4. result' \subseteq Found
    BY <2>1, <2>2, <2>3 DEF Found
  <2> QED
    BY <1>2, <2>1, <2>4 DEF ScanTypes, Phases, ScanBooks, ScanTypeOK
<1>7. ASSUME (\E fails \in BOOLEAN : Fallback(fails)) \/ FallbackBlind
      PROVE  ScanTypes' /\ Phases'
  <2>1. /\ UNCHANGED <<cancel, collected, offset, pageNo, dirMap, paths, climbing, cursor,
                       parts, kept, truths>>
        /\ pc = "fallback" /\ pc' \in {"done", "failed"}
        /\ result' \in {{}, Tree(home, parent)}
        /\ blind' \in {blind, TRUE}
    BY <1>7 DEF Fallback, FallbackBlind, climb, quiet, still
  <2> QED
    BY <1>2, <1>3, <2>1 DEF ScanTypes, Phases, ScanBooks, ScanTypeOK
<1> QED
  BY <1>4, <1>5, <1>6, <1>7, FetchFilesBooks, FetchDirsBooks, PathOfBooks DEF Step

LEMMA BooksStep == ScanBooks /\ [ScanNext]_scanVars => ScanBooks'
<1> SUFFICES ASSUME ScanBooks, [ScanNext]_scanVars PROVE ScanBooks'
  OBVIOUS
<1>1. CASE User
  BY <1>1, UserBooks
<1>2. CASE Step
  <2>1. ScanTypes' /\ Phases'
    BY <1>2, StepBooks
  <2>2. DriveTypes' /\ Rooted' /\ Listed'
    BY <1>2, StepDrive, SameDrive
  <2> QED
    BY <2>1, <2>2, TypesJoinNext DEF ScanBooks
<1>3. CASE RequestCancel \/ UNCHANGED scanVars
  <2>1. /\ UNCHANGED <<pc, collected, offset, pageNo, dirMap, paths, climbing, cursor, parts,
                       result, blind, kept, truths>>
        /\ cancel' \in {cancel, TRUE}
    BY <1>3 DEF RequestCancel, scanVars, scan, climb
  <2>2. DriveTypes' /\ Rooted' /\ Listed' /\ Len(listing') <= Cardinality(File)
    BY <1>3, StepDrive, SameDrive
  <2>3. ScanTypes'
    BY <2>1, <2>2 DEF ScanTypes, ScanBooks, ScanTypeOK
  <2>4. Phases'
    BY <2>1 DEF Phases, ScanBooks
  <2> QED
    BY <2>2, <2>3, <2>4, TypesJoinNext DEF ScanBooks
<1> QED
  BY <1>1, <1>2, <1>3 DEF ScanNext

LEMMA BooksInit == ScanInit => ScanBooks
<1> SUFFICES ASSUME ScanInit PROVE ScanBooks
  OBVIOUS
<1> USE ScanAssumption DEF ScanAssumption
<1>1. PICK n \in 0..Cardinality(File) : listing \in [1..n -> File]
  BY DEF ScanInit
<1>2. Cardinality(File) \in Nat
  BY FS_CardinalityType
<1>3. listing \in Seq(File) /\ Len(listing) = n
  BY <1>1, <1>2
<1>4. Len(listing) <= Cardinality(File)
  BY <1>1, <1>2, <1>3
<1>5. ScanTypeOK
  <2>1. {} \in Path /\ Dir \subseteq Folder
    BY DEF Path, Folder
  <2>2. ScanTypes
    <3>1. 1 \in 1..MaxDirsPages /\ 0 \in Nat
      OBVIOUS
    <3>2. dirMap \in [Dir -> Folder \union {Nowhere}] /\ paths \in [Folder -> Path \union {Nowhere}]
      BY DEF ScanInit
    <3> QED
      BY <1>4, <2>1, <3>1, <3>2 DEF ScanInit, ScanTypes
  <2>3. DriveTypes
    BY <1>3, <2>1 DEF ScanInit, DriveTypes
  <2> QED
    BY <2>2, <2>3, TypesJoin
<1>6. Rooted
  BY DEF ScanInit, Rooted, Folder
<1>7. Listed
  BY DEF ScanInit, Listed, Once
<1>8. Phases
  BY DEF ScanInit, Phases, Folder
<1> QED
  BY <1>5, <1>6, <1>7, <1>8 DEF ScanBooks

LEMMA BooksHold == ScanSpec => []ScanBooks
BY BooksInit, BooksStep, PTL DEF ScanSpec

\* The fast scan keeps to its types: in particular, the pages of directories
\* are never more than MAX_DIRS_PAGES, and a path is made of directories that
\* have a parent (fast_scan.py:47-54, 199-224).
THEOREM ScanTyped == ScanSpec => []ScanTypeOK
<1>1. ScanBooks => ScanTypeOK
  BY DEF ScanBooks
<1> QED
  BY <1>1, BooksHold, PTL

-----------------------------------------------------------------------------
(* Nothing is missed while nothing is removed *)

ReadBooks == ReadSoFar /\ UntouchedFound

\* A change that removes nothing pushes entries back, or leaves them alone.
LEMMA ReadUser ==
    ASSUME ScanBooks, ReadBooks, User
    PROVE  ReadBooks'
<1>1. /\ pc \notin {"idle", "done", "failed"}
      /\ UNCHANGED <<pc, collected, offset, blind>> /\ kept' \subseteq kept
      /\ CollectedFiles' = CollectedFiles
  BY UserScan DEF CollectedFiles
<1>2. UntouchedFound'
  BY <1>1 DEF UntouchedFound, NothingMissed, Missed
<1>3. CASE \E f \in File, d \in Folder : Upload(f, d)
  <2>1. PICK f \in File, d \in Folder : Upload(f, d)
    BY <1>3
  <2>2. listing' = <<f>> \o listing /\ home' = [home EXCEPT ![f] = d] /\ d # Nowhere
        /\ UNCHANGED <<removals, kept>> /\ home[f] = Nowhere
    BY <2>1, ScanAssumption DEF Upload, ScanAssumption, Folder
  <2>3. kept' \subseteq {g \in File : home'[g] # Nowhere} /\ f \notin kept'
    BY <2>2 DEF ScanBooks, ScanTypeOK, ReadBooks, ReadSoFar
  <2>4. \A i \in DOMAIN listing' :
           /\ i = 1 => listing'[i] = f
           /\ i # 1 => i - 1 \in DOMAIN listing /\ listing'[i] = listing[i - 1]
    <3>1. listing \in Seq(File) /\ Once(listing) /\ \A i \in DOMAIN listing : listing[i] # f
      BY <2>2 DEF ScanBooks, ScanTypeOK, Listed
    <3> QED
      BY <2>2, <3>1, PushedOne
  <2>5. listing' \in Seq(File) /\ offset \in Nat
    BY UserDrive DEF DriveTypes, ScanBooks, ScanTypeOK
  <2>6. ASSUME removals' = 0, pc' = "files", NEW i \in DOMAIN listing', i <= offset',
               listing'[i] \in kept'
        PROVE  listing'[i] \in CollectedFiles'
    <3>1. i # 1 /\ i \in Nat
      BY <2>3, <2>4, <2>5, <2>6
    <3>2. i - 1 \in DOMAIN listing /\ listing'[i] = listing[i - 1] /\ i - 1 <= offset
      BY <1>1, <2>4, <2>5, <2>6, <3>1
    <3> QED
      BY <1>1, <2>2, <2>6, <3>2 DEF ReadBooks, ReadSoFar
  <2>7. removals' = 0 /\ ~blind' /\ pc' \in {"derive", "dirs", "paths"} => kept' \subseteq CollectedFiles'
    BY <1>1, <2>2 DEF ReadBooks, ReadSoFar
  <2> QED
    BY <1>2, <2>3, <2>6, <2>7 DEF ReadBooks, ReadSoFar
<1>4. CASE \E p \in DOMAIN listing : Delete(p)
  <2>1. PICK p \in DOMAIN listing : Delete(p)
    BY <1>4
  <2>2. removals' # 0
    BY <2>1 DEF Delete, ScanBooks, ScanTypeOK
  <2>3. kept' \subseteq {g \in File : home'[g] # Nowhere}
    BY <2>1 DEF Delete, ScanBooks, ScanTypeOK, ReadBooks, ReadSoFar
  <2> QED
    BY <1>2, <2>2, <2>3 DEF ReadBooks, ReadSoFar
<1>5. CASE \E d \in Dir : DeleteDir(d)
  <2>1. PICK d \in Dir : DeleteDir(d)
    BY <1>5
  <2>2. /\ home' = [f \in File |-> IF home[f] = d THEN Nowhere ELSE home[f]]
        /\ listing' = IF Inside(d) = {} THEN listing
                      ELSE Without(listing, CHOOSE i \in Inside(d) : TRUE)
        /\ kept' = kept \ {listing[i] : i \in Inside(d)}
        /\ removals' = removals + Cardinality(Inside(d))
    BY <2>1 DEF DeleteDir, Inside
  <2>3. kept' \subseteq {g \in File : home'[g] # Nowhere}
    <3> SUFFICES ASSUME NEW g \in kept' PROVE g \in File /\ home'[g] # Nowhere
      OBVIOUS
    <3>1. g \in File /\ home[g] # Nowhere
      BY <1>1 DEF ReadBooks, ReadSoFar
    <3>2. PICK i \in DOMAIN listing : listing[i] = g
      BY <3>1 DEF ScanBooks, Listed
    <3>3. home[g] # d
      BY <2>2, <3>2 DEF Inside
    <3> QED
      BY <2>2, <3>1, <3>3
  <2>4. CASE Inside(d) = {}
    <3>1. listing' = listing /\ removals' = removals
      BY <2>2, <2>4, FS_EmptySet DEF ScanBooks, ScanTypeOK
    <3> QED
      BY <1>1, <1>2, <2>3, <3>1 DEF ReadBooks, ReadSoFar
  <2>5. CASE Inside(d) # {}
    <3>1. removals' # 0
      BY <2>2, <2>5, InsideCount DEF ScanBooks, ScanTypeOK
    <3> QED
      BY <1>2, <2>3, <3>1 DEF ReadBooks, ReadSoFar
  <2> QED
    BY <2>4, <2>5
<1>6. CASE (\E f \in File, d \in Folder : MoveFile(f, d))
           \/ (\E d \in Dir, e \in Folder : MoveDir(d, e))
  <2>1. UNCHANGED <<listing, removals, kept>> /\ \A f \in File : home[f] # Nowhere => home'[f] # Nowhere
    BY <1>6, ScanAssumption DEF MoveFile, MoveDir, Folder, ScanAssumption, ScanBooks, ScanTypeOK
  <2> QED
    BY <1>1, <1>2, <2>1 DEF ReadBooks, ReadSoFar
<1> QED
  BY <1>3, <1>4, <1>5, <1>6 DEF User

\* A page covers the list up to the new offset, and the loop is left only with
\* an offset at the end of the list.
LEMMA ReadFetchFiles ==
    ASSUME ScanBooks, ReadBooks, NEW a \in FilesAnswer, FetchFiles(a.page, a.count)
    PROVE  ReadBooks'
<1> USE ScanAssumption DEF ScanAssumption
<1>1. /\ pc = "files" /\ UNCHANGED <<listing, home, removals, kept>>
      /\ ~(pc' = "done")
  BY DEF FetchFiles, quiet, still, drive, Unavailable
<1>2. UntouchedFound'
  BY <1>1 DEF UntouchedFound, NothingMissed, Missed
<1>3. kept' \subseteq {f \in File : home'[f] # Nowhere}
  BY <1>1 DEF ReadBooks, ReadSoFar
<1>4. CASE Truncated(a.page, a.count)
  BY <1>1, <1>2, <1>3, <1>4 DEF FetchFiles, Unavailable, ReadBooks, ReadSoFar
<1>5. CASE ~Truncated(a.page, a.count)
  <2> DEFINE page == a.page  count == a.count
             new == {[file |-> listing[i], dir |-> home[listing[i]]] : i \in page}
  <2>1. /\ collected' = collected \union new
        /\ offset' = offset + Cardinality(page)
        /\ pc' = IF page = {} \/ Enough(count, offset') THEN "derive" ELSE "files"
        /\ ~blind' => ~(page = {} /\ count = 0 /\ offset < Len(listing))
    BY <1>5 DEF FetchFiles, Blinded
  <2>2. \/ page = Page /\ count \in {Len(listing), 0}
        \/ page = {} /\ count \in {Len(listing), 0}
    BY AnswerKinds
  <2>3. \A i \in page : listing[i] \in CollectedFiles'
    <3> SUFFICES ASSUME NEW i \in page PROVE listing[i] \in CollectedFiles'
      OBVIOUS
    <3>1. [file |-> listing[i], dir |-> home[listing[i]]] \in collected'
      BY <2>1
    <3> QED
      BY <3>1 DEF CollectedFiles
  <2>4. CollectedFiles \subseteq CollectedFiles'
    BY <2>1 DEF CollectedFiles
  <2> HIDE DEF page, count, new
  <2>5. /\ DOMAIN listing = 1..Len(listing) /\ Len(listing) \in Nat /\ offset \in Nat
        /\ Cardinality(page) \in Nat
        /\ \A i \in DOMAIN listing : i <= offset + Cardinality(page) => i <= offset \/ i \in page
    <3>1. Cardinality({}) = 0
      BY FS_EmptySet
    <3>2. DOMAIN listing = 1..Len(listing) /\ Len(listing) \in Nat /\ offset \in Nat
      BY DEF ScanBooks, ScanTypeOK
    <3>3. CASE page = Page
      BY <3>2, <3>3, PageRead
    <3>4. CASE page = {}
      BY <3>1, <3>2, <3>4
    <3> QED
      BY <2>2, <3>3, <3>4
  <2>6. ASSUME removals' = 0, NEW i \in DOMAIN listing', i <= offset', listing'[i] \in kept'
        PROVE  listing'[i] \in CollectedFiles'
    <3>1. i \in DOMAIN listing /\ i <= offset + Cardinality(page) /\ listing[i] \in kept
      BY <1>1, <2>1, <2>6
    <3>2. i <= offset \/ i \in page
      BY <2>5, <3>1
    <3> QED
      BY <1>1, <2>3, <2>4, <2>6, <3>1, <3>2 DEF ReadBooks, ReadSoFar
  <2>7. ~blind' /\ pc' = "derive" => Len(listing) <= offset'
    <3>1. CASE page = {}
      <4>1. page = Page => Len(listing) <= offset
        BY <3>1, PageRead
      <4>3. ~blind' /\ count = 0 => Len(listing) <= offset
        BY <2>1, <2>5, <3>1
      <4>2. count = Len(listing) => Len(listing) <= offset
        BY <1>5, <2>5, <3>1 DEF Truncated, page, count
      <4> QED
        BY <2>1, <2>2, <2>5, <4>1, <4>2, <4>3
    <3>2. CASE page # {}
      BY <2>1, <2>2, <3>2 DEF Enough
    <3> QED
      BY <3>1, <3>2
  <2>8. ASSUME removals' = 0, ~blind', pc' = "derive" PROVE kept' \subseteq CollectedFiles'
    <3> SUFFICES ASSUME NEW f \in kept' PROVE f \in CollectedFiles'
      OBVIOUS
    <3>1. f \in File /\ home[f] # Nowhere
      BY <1>1 DEF ReadBooks, ReadSoFar
    <3>2. PICK i \in DOMAIN listing : listing[i] = f
      BY <3>1 DEF ScanBooks, Listed
    <3>3. i <= offset'
      BY <2>1, <2>5, <2>7, <2>8
    <3> QED
      BY <1>1, <2>6, <2>8, <3>2, <3>3
  <2>9. pc' \in {"files", "derive"}
    BY <2>1
  <2> QED
    BY <1>2, <1>3, <2>6, <2>8, <2>9 DEF ReadBooks, ReadSoFar
<1> QED
  BY <1>4, <1>5

LEMMA ReadStep == ScanBooks /\ ReadBooks /\ [ScanNext]_scanVars => ReadBooks'
<1> SUFFICES ASSUME ScanBooks, ReadBooks, [ScanNext]_scanVars PROVE ReadBooks'
  OBVIOUS
<1>1. CASE User
  BY <1>1, ReadUser
<1>2. CASE RequestCancel \/ UNCHANGED scanVars
  <2>1. /\ UNCHANGED <<listing, home, removals, kept, pc, offset, collected, result, unusable, blind>>
        /\ cancel' = cancel \/ cancel' = TRUE
    BY <1>2 DEF RequestCancel, scanVars, scan, climb, drive
  <2> QED
    BY <2>1 DEF ReadBooks, ReadSoFar, UntouchedFound, NothingMissed, Missed, CollectedFiles
<1>3. CASE Begin
  <2>1. /\ pc = "idle" /\ pc' = "files" /\ UNCHANGED <<listing, home, offset, removals>>
        /\ kept' = {f \in File : home[f] # Nowhere}
    BY <1>3 DEF Begin, drive
  <2>2. \A i \in DOMAIN listing' : ~(i <= offset')
    BY <2>1 DEF ScanBooks, ScanTypeOK, Phases
  <2> QED
    BY <2>1, <2>2 DEF ReadBooks, ReadSoFar, UntouchedFound, NothingMissed, Missed
<1>4. CASE CancelSeen \/ Refused \/ (\E converts \in BOOLEAN : Derive(converts))
           \/ (\E page \in SUBSET Dir, hasNext \in BOOLEAN : FetchDirs(page, hasNext))
           \/ (\E d \in Dir : EnterPathOf(d)) \/ Climb \/ LeavePathOf \/ NoParent
  <2>1. UNCHANGED <<listing, home, removals, kept, collected, cancel, unusable, blind>>
    BY <1>4 DEF CancelSeen, Refused, Derive, FetchDirs, EnterPathOf, Climb, LeavePathOf, NoParent,
                Unavailable, quiet, still, drive
  <2>2. \/ pc' = "done" /\ cancel
        \/ pc' = "fallback"
        \/ pc' \in {"dirs", "paths"} /\ pc \in {"derive", "dirs", "paths"}
        \/ pc' = pc /\ UNCHANGED result
    BY <1>4 DEF CancelSeen, Refused, Derive, FetchDirs, EnterPathOf, Climb, LeavePathOf, NoParent,
                Unavailable
  <2>3. CollectedFiles' = CollectedFiles
    BY <2>1 DEF CollectedFiles
  <2>4. pc' = pc => UNCHANGED offset /\ pc # "idle"
    BY <1>4 DEF CancelSeen, Refused, Derive, FetchDirs, EnterPathOf, Climb, LeavePathOf, NoParent,
                Unavailable, ScanBooks, Phases
  <2> QED
    BY <2>1, <2>2, <2>3, <2>4 DEF ReadBooks, ReadSoFar, UntouchedFound, NothingMissed, Missed
<1>5. CASE Compose
  <2>1. /\ pc = "paths" /\ pc' = "done" /\ UNCHANGED <<removals, kept, home, unusable, blind>>
        /\ result' = {[file |-> e.file, path |-> paths[e.dir]] : e \in Usable(collected)}
    BY <1>5 DEF Compose, quiet, still, drive
  <2>2. CollectedFiles \ unusable \subseteq {r.file : r \in result'}
    <3> SUFFICES ASSUME NEW e \in collected, e.file \notin unusable
                 PROVE  e.file \in {r.file : r \in result'}
      BY DEF CollectedFiles
    <3>1. [file |-> e.file, path |-> paths[e.dir]] \in result'
      BY <2>1 DEF Usable
    <3> QED
      BY <3>1
  <2> QED
    BY <2>1, <2>2 DEF ReadBooks, ReadSoFar, UntouchedFound, NothingMissed, Missed
<1>7. CASE FallbackBlind
  BY <1>7 DEF FallbackBlind, still, drive, ReadBooks, ReadSoFar, UntouchedFound
<1>6. CASE \E fails \in BOOLEAN : Fallback(fails)
  <2>1. /\ UNCHANGED <<removals, kept, home, unusable>>
        /\ \/ pc' = "failed"
           \/ pc' = "done" /\ result' = Tree(home, parent)
    BY <1>6 DEF Fallback, quiet, still, drive
  <2>2. kept \subseteq {r.file : r \in Tree(home, parent)}
    <3> SUFFICES ASSUME NEW f \in kept PROVE \E r \in Tree(home, parent) : r.file = f
      OBVIOUS
    <3>1. f \in File /\ home[f] # Nowhere
      BY DEF ReadBooks, ReadSoFar
    <3> QED
      BY <3>1, TreeFiles
  <2> QED
    BY <2>1, <2>2 DEF ReadBooks, ReadSoFar, UntouchedFound, NothingMissed, Missed
<1> QED
  BY <1>1, <1>2, <1>3, <1>4, <1>5, <1>6, <1>7, ReadFetchFiles DEF ScanNext, Step

LEMMA ReadInit == ScanInit => ReadBooks
BY DEF ScanInit, ReadBooks, ReadSoFar, UntouchedFound, NothingMissed, Missed

\* Whatever the user uploads and moves while the list is fetched by offset, and
\* whatever fails, a scan that was not cancelled finds every file that was in
\* the tree all the time and has a pickcode it can use, unless one was removed,
\* or an empty answer was taken for the list (fast_scan.py:142-179).
THEOREM ScanFindsAll == ScanSpec => []UntouchedFound
<1>1. ReadBooks => UntouchedFound
  BY DEF ReadBooks
<1> QED
  BY <1>1, ReadInit, ReadStep, BooksHold, PTL DEF ScanSpec

-----------------------------------------------------------------------------
(* No path is made up *)

\* What a change of the user does to the files that were collected, to the
\* parents and to the count of moves.
LEMMA UserMoves ==
    ASSUME ScanBooks, OnRecord, User
    PROVE  \/ /\ moves' = moves
              /\ \A f \in CollectedFiles : home'[f] \in {home[f], Nowhere}
              /\ \A d \in Dir : parent'[d] \in {parent[d], Nowhere}
           \/ /\ moves' = moves + 1
              /\ \A f \in CollectedFiles : home'[f] # Nowhere => home[f] # Nowhere
              /\ \A d \in Dir : parent'[d] = parent[d]
           \/ /\ moves' = moves + 1
              /\ home' = home
              /\ \E d \in Dir : \A x \in Dir \ {d} : parent'[x] = parent[x]
              /\ \A x \in Dir : parent[x] = Nowhere <=> parent'[x] = Nowhere
<1> USE ScanAssumption DEF ScanAssumption
<1>1. home \in [File -> Folder \union {Nowhere}] /\ parent \in [Dir -> Folder \union {Nowhere}]
      /\ listing \in Seq(File)
      /\ CollectedFiles \subseteq File /\ CollectedFiles \subseteq {t.file : t \in truths}
  BY DEF ScanBooks, ScanTypeOK, OnRecord, CollectedFiles, Entry
<1>2. CASE \E f \in File, d \in Folder : Upload(f, d)
  BY <1>1, <1>2 DEF Upload
<1>3. CASE \E f \in File, d \in Folder : MoveFile(f, d)
  BY <1>1, <1>3 DEF MoveFile, Moved
<1>4. CASE \E p \in DOMAIN listing : Delete(p)
  BY <1>1, <1>4 DEF Delete
<1>5. CASE \E d \in Dir : DeleteDir(d)
  BY <1>1, <1>5 DEF DeleteDir
<1>6. CASE \E d \in Dir, e \in Folder : MoveDir(d, e)
  BY <1>1, <1>6 DEF MoveDir, Moved, Folder
<1> QED
  BY <1>2, <1>3, <1>4, <1>5, <1>6 DEF User

LEMMA PathUser ==
    ASSUME ScanBooks, PathBooks, User
    PROVE  PathBooks'
<1> USE ScanAssumption DEF ScanAssumption
<1>1. /\ pc \notin {"idle", "done", "failed"}
      /\ truths' = truths \union Tree(home', parent')
      /\ UNCHANGED <<pc, collected, dirMap, paths, climbing, cursor, parts, result>>
      /\ CollectedFiles' = CollectedFiles
  BY UserScan DEF CollectedFiles
<1>2. OnRecord'
  BY <1>1 DEF PathBooks, OnRecord
<1>3. \/ /\ moves' = moves
         /\ \A f \in CollectedFiles : home'[f] \in {home[f], Nowhere}
         /\ \A d \in Dir : parent'[d] \in {parent[d], Nowhere}
      \/ /\ moves' = moves + 1
         /\ \A f \in CollectedFiles : home'[f] # Nowhere => home[f] # Nowhere
         /\ \A d \in Dir : parent'[d] = parent[d]
      \/ /\ moves' = moves + 1
         /\ home' = home
         /\ \E d \in Dir : \A x \in Dir \ {d} : parent'[x] = parent[x]
         /\ \A x \in Dir : parent[x] = Nowhere <=> parent'[x] = Nowhere
  BY UserMoves DEF PathBooks
<1>4. moves \in Nat /\ collected \subseteq Entry /\ \A e \in collected : e.file \in CollectedFiles
  BY DEF ScanBooks, ScanTypeOK, CollectedFiles
<1>5. AsRead'
  <2> SUFFICES ASSUME moves' = 0
               PROVE  /\ \A e \in collected : home'[e.file] # Nowhere => home'[e.file] = e.dir
                      /\ \A d \in Dir : dirMap[d] # Nowhere /\ parent'[d] # Nowhere
                                            => dirMap[d] = parent'[d]
    BY <1>1 DEF AsRead
  <2>1. /\ moves = 0
        /\ \A f \in CollectedFiles : home'[f] \in {home[f], Nowhere}
        /\ \A d \in Dir : parent'[d] \in {parent[d], Nowhere}
    BY <1>3, <1>4
  <2> QED
    BY <1>4, <2>1 DEF PathBooks, AsRead
<1>6. PathsComing'
  <2> SUFFICES ASSUME moves' <= 1, NEW e \in collected,
                      home'[e.file] # Nowhere, Whole(Merged', e.dir)
               PROVE  [file |-> e.file, path |-> Chain(Merged', e.dir)] \in truths'
    BY <1>1 DEF PathsComing
  <2>1. \A x \in Dir : /\ Merged[x] = IF dirMap[x] = Nowhere THEN parent[x] ELSE dirMap[x]
                       /\ Merged'[x] = IF dirMap[x] = Nowhere THEN parent'[x] ELSE dirMap[x]
    BY <1>1 DEF Merged
  <2>2. CASE \A x \in Dir : Merged'[x] \in {Merged[x], Nowhere}
    <3>1. \A x \in Above(Merged', e.dir) : Merged[x] = Merged'[x]
      BY <2>2, AboveClosed DEF Whole
    <3>2. Chain(Merged, e.dir) = Chain(Merged', e.dir) /\ Whole(Merged, e.dir)
      BY <3>1, AboveSame
    <3>3. moves <= 1 /\ home[e.file] # Nowhere
      BY <1>3, <1>4
    <3>4. [file |-> e.file, path |-> Chain(Merged, e.dir)] \in truths
      BY <3>2, <3>3 DEF PathBooks, PathsComing
    <3> QED
      BY <1>1, <3>2, <3>4
  <2>3. CASE /\ moves' = moves + 1
             /\ home' = home
             /\ \E d \in Dir : dirMap[d] = Nowhere
                                 /\ \A x \in Dir \ {d} : parent'[x] = parent[x]
             /\ \A x \in Dir : parent[x] = Nowhere <=> parent'[x] = Nowhere
    <3>1. moves = 0 /\ home[e.file] # Nowhere
      BY <1>4, <2>3
    <3>2. /\ home'[e.file] = e.dir
          /\ \A x \in Dir : dirMap[x] # Nowhere /\ parent[x] # Nowhere => dirMap[x] = parent[x]
      BY <2>3, <3>1 DEF PathBooks, AsRead
    <3>3. e.file \in File
      BY <1>4 DEF Entry
    <3>4. DriveTypes' /\ Rooted'
      BY UserDrive
    <3>5. [file |-> e.file, path |-> Chain(parent', e.dir)] \in Tree(home', parent')
          /\ Whole(parent', e.dir)
      BY <3>2, <3>3, <3>4, TomorrowFound
    <3>6. \A x \in Above(parent', e.dir) : x \in Dir /\ parent'[x] # Nowhere
      BY <3>5, AboveClosed DEF Whole
    <3>7. \A x \in Above(parent', e.dir) : Merged'[x] = parent'[x]
      BY <2>1, <2>3, <3>2, <3>6
    <3> QED
      BY <1>1, <3>5, <3>7, AboveSame
  <2>4. CASE \A x \in Dir : parent'[x] \in {parent[x], Nowhere}
    BY <2>1, <2>2, <2>4
  <2>5. CASE /\ moves' = moves + 1
             /\ home' = home
             /\ \E d \in Dir : \A x \in Dir \ {d} : parent'[x] = parent[x]
             /\ \A x \in Dir : parent[x] = Nowhere <=> parent'[x] = Nowhere
    <3>1. PICK d \in Dir : \A x \in Dir \ {d} : parent'[x] = parent[x]
      BY <2>5
    <3>2. CASE dirMap[d] = Nowhere
      BY <2>3, <2>5, <3>1, <3>2
    <3>3. CASE dirMap[d] # Nowhere
      <4>1. \A x \in Dir : Merged'[x] = Merged[x]
        BY <2>1, <3>1, <3>3
      <4> QED
        BY <2>2, <4>1
    <3> QED
      BY <3>2, <3>3
  <2> QED
    BY <1>3, <2>4, <2>5
<1>7. PathOf'
  BY <1>1 DEF PathBooks, PathOf
<1>8. PathsHeld'
  BY <1>1 DEF PathsHeld
<1> QED
  BY <1>2, <1>5, <1>6, <1>7, <1>8 DEF PathBooks

\* A page of files is read where the files are.
LEMMA PathFetchFiles ==
    ASSUME ScanBooks, PathBooks, NEW a \in FilesAnswer, FetchFiles(a.page, a.count)
    PROVE  PathBooks'
<1> DEFINE new == {[file |-> listing[i], dir |-> home[listing[i]]] : i \in a.page}
<1>1. /\ pc = "files" /\ pc' \in {"files", "derive", "fallback"}
      /\ UNCHANGED <<home, parent, moves, dirMap, paths, climbing, cursor, parts, truths>>
      /\ collected' = collected \/ collected' = collected \union new
  BY DEF FetchFiles, quiet, still, drive, climb, Unavailable
<1>2. ASSUME NEW e \in new
      PROVE  e.file \in File /\ home[e.file] = e.dir /\ home[e.file] # Nowhere
  <2>1. PICK i \in a.page : e = [file |-> listing[i], dir |-> home[listing[i]]]
    OBVIOUS
  <2>2. i \in DOMAIN listing
    BY AnswerKinds DEF Page
  <2> QED
    BY <2>1, <2>2 DEF ScanBooks, ScanTypeOK, Listed
<1> HIDE DEF new
<1>3. Tree(home, parent) \subseteq truths
  BY <1>1 DEF PathBooks, OnRecord
<1>4. ASSUME NEW e \in new
      PROVE  [file |-> e.file, path |-> Chain(parent, e.dir)] \in truths
  BY <1>2, <1>3, TodayFound
<1>5. OnRecord'
  <2>1. ASSUME NEW e \in new PROVE e.file \in {t.file : t \in truths}
    <3>1. [file |-> e.file, path |-> Chain(parent, e.dir)].file = e.file
      OBVIOUS
    <3> QED
      BY <1>4, <3>1
  <2> QED
    BY <1>1, <1>3, <2>1 DEF PathBooks, OnRecord, CollectedFiles
<1>6. AsRead'
  BY <1>1, <1>2 DEF PathBooks, AsRead
<1>7. PathsComing'
  <2> SUFFICES ASSUME moves <= 1, NEW e \in collected', home[e.file] # Nowhere,
                      Whole(Merged, e.dir)
               PROVE  [file |-> e.file, path |-> Chain(Merged, e.dir)] \in truths
    BY <1>1 DEF PathsComing, Merged
  <2>1. CASE e \in collected
    BY <2>1 DEF PathBooks, PathsComing
  <2>2. CASE e \in new
    <3>1. \A x \in Dir : Merged[x] = parent[x]
      BY <1>1 DEF Merged, ScanBooks, Phases
    <3>2. Chain(Merged, e.dir) = Chain(parent, e.dir)
      BY <3>1, AboveClosed, AboveSame
    <3> QED
      BY <1>4, <2>2, <3>2
  <2> QED
    BY <1>1, <2>1, <2>2
<1>8. PathOf'
  BY <1>1 DEF PathBooks, PathOf
<1>9. PathsHeld'
  BY <1>1 DEF PathsHeld
<1> QED
  BY <1>5, <1>6, <1>7, <1>8, <1>9 DEF PathBooks

\* A page of directories changes nothing of the merged tree.
LEMMA PathFetchDirs ==
    ASSUME ScanBooks, PathBooks,
           NEW page \in SUBSET Dir, NEW hasNext \in BOOLEAN, FetchDirs(page, hasNext)
    PROVE  PathBooks'
<1> USE ScanAssumption DEF ScanAssumption
<1>1. /\ pc = "dirs" /\ pc' \in {"dirs", "paths", "fallback"}
      /\ UNCHANGED <<home, parent, moves, collected, climbing, cursor, parts, truths>>
      /\ \/ UNCHANGED <<dirMap, paths>>
         \/ /\ dirMap' = [d \in Dir |-> IF d \in page THEN parent[d] ELSE dirMap[d]]
            /\ paths' = [paths EXCEPT ![Root] = {}]
      /\ \A d \in page : parent[d] # Nowhere /\ dirMap[d] = Nowhere
  BY DEF FetchDirs, quiet, still, drive, climb, Unavailable, ParentRead
<1>2. OnRecord'
  BY <1>1 DEF PathBooks, OnRecord, CollectedFiles
<1>3. ASSUME NEW d \in Dir
      PROVE  \/ dirMap'[d] = dirMap[d]
             \/ dirMap[d] = Nowhere /\ dirMap'[d] = parent[d]
  <2>1. CASE dirMap' = dirMap
    BY <2>1
  <2>2. CASE dirMap' = [x \in Dir |-> IF x \in page THEN parent[x] ELSE dirMap[x]]
    BY <1>1, <2>2
  <2> QED
    BY <1>1, <2>1, <2>2
<1>4. AsRead'
  BY <1>1, <1>3 DEF PathBooks, AsRead
<1>5. Merged' = Merged
  BY <1>1, <1>3 DEF Merged
<1>6. PathsComing'
  BY <1>1, <1>5 DEF PathBooks, PathsComing
<1>7. PathOf'
  <2>1. climbing' = Nowhere
    BY <1>1 DEF ScanBooks, Phases
  <2>2. \A d \in Dir : paths'[d] = Nowhere
    <3>1. /\ \A d \in Dir : paths[d] = Nowhere
          /\ paths \in [Folder -> Path \union {Nowhere}] /\ Dir \subseteq Folder /\ Root \notin Dir
      BY <1>1 DEF ScanBooks, Phases, ScanTypeOK, Folder
    <3>2. CASE paths' = paths
      BY <3>1, <3>2
    <3>3. CASE paths' = [paths EXCEPT ![Root] = {}]
      BY <3>1, <3>3
    <3> QED
      BY <1>1, <3>2, <3>3
  <2>3. paths'[Root] = Nowhere \/ paths'[Root] = {}
    <3>1. paths \in [Folder -> Path \union {Nowhere}] /\ Root \in Folder
      BY DEF ScanBooks, ScanTypeOK, Folder
    <3>2. CASE UNCHANGED <<dirMap, paths>>
      <4>1. paths[Root] # Nowhere => paths[Root] = Chain(dirMap, Root)
        BY <3>1 DEF PathBooks, PathOf
      <4>2. Chain(dirMap, Root) = {}
        BY AboveRoot DEF Chain
      <4> QED
        BY <3>2, <4>1, <4>2
    <3> QED
      BY <1>1, <3>1, <3>2
  <2>4. Chain(dirMap', Root) = {} /\ Whole(dirMap', Root)
    BY AboveRoot DEF Chain, Whole
  <2> QED
    BY <2>1, <2>2, <2>3, <2>4 DEF PathOf, Folder
<1>8. PathsHeld'
  BY <1>1 DEF PathsHeld
<1> QED
  BY <1>2, <1>4, <1>6, <1>7, <1>8 DEF PathBooks

\* The loop of path_of goes up the merged tree.
LEMMA PathLoop ==
    ASSUME ScanBooks, PathBooks, (\E d \in Dir : EnterPathOf(d)) \/ Climb \/ LeavePathOf \/ NoParent
    PROVE  PathBooks'
<1> USE ScanAssumption DEF ScanAssumption
<1>1. /\ UNCHANGED <<home, parent, moves, collected, dirMap, truths, result>>
      /\ pc' = pc \/ pc' = "fallback"
      /\ pc' # "idle"
  BY DEF EnterPathOf, Climb, LeavePathOf, NoParent, quiet, still, drive, ScanBooks, Phases
<1>2. OnRecord' /\ AsRead' /\ PathsComing' /\ PathsHeld'
  <2>1. pc # "idle" /\ pc # "done"
    BY DEF EnterPathOf, Climb, LeavePathOf, NoParent, ScanBooks, Phases
  <2> QED
    BY <1>1, <2>1 DEF PathBooks, OnRecord, AsRead, PathsComing, PathsHeld, CollectedFiles, Merged
<1>3. ASSUME NEW d \in Dir, EnterPathOf(d) PROVE PathOf'
  BY <1>3 DEF EnterPathOf, PathBooks, PathOf
<1>4. ASSUME Climb PROVE PathOf'
  <2>1. /\ climbing # Nowhere /\ cursor # Root /\ dirMap[cursor] # Nowhere
        /\ parts' = parts \union {<<cursor, dirMap[cursor]>>}
        /\ cursor' = dirMap[cursor]
        /\ UNCHANGED <<paths, climbing, dirMap>>
    BY <1>1, <1>4 DEF Climb, Parent
  <2>2. cursor \in Dir
    BY <2>1 DEF ScanBooks, ScanTypeOK, Phases, Folder
  <2>3. Above(dirMap, cursor) = {cursor} \union Above(dirMap, dirMap[cursor])
    BY <2>2, AboveStep
  <2>4. Chain(dirMap, cursor) = {<<cursor, dirMap[cursor]>>} \union Chain(dirMap, dirMap[cursor])
    BY <2>3 DEF Chain
  <2>5. /\ Chain(dirMap, climbing) = parts \union Chain(dirMap, cursor)
        /\ \A x \in Above(dirMap, climbing) : dirMap[x] = Nowhere => x \in Above(dirMap, cursor)
    BY <2>1 DEF PathBooks, PathOf
  <2>6. Chain(dirMap, climbing) = parts' \union Chain(dirMap, dirMap[cursor])
    BY <2>1, <2>4, <2>5
  <2>7. \A x \in Above(dirMap, climbing) :
           dirMap[x] = Nowhere => x \in Above(dirMap, dirMap[cursor])
    BY <2>1, <2>3, <2>5
  <2> QED
    BY <2>1, <2>6, <2>7 DEF PathBooks, PathOf
<1>5. ASSUME LeavePathOf PROVE PathOf'
  <2>1. /\ climbing # Nowhere /\ cursor = Root
        /\ paths' = [paths EXCEPT ![climbing] = parts]
        /\ climbing' = Nowhere /\ UNCHANGED dirMap
    BY <1>1, <1>5 DEF LeavePathOf
  <2>2. Above(dirMap, Root) = {} /\ Chain(dirMap, Root) = {}
    BY AboveRoot DEF Chain
  <2>3. Chain(dirMap, climbing) = parts
    BY <2>1, <2>2 DEF PathBooks, PathOf
  <2>4. Whole(dirMap, climbing)
    BY <2>1, <2>2 DEF PathBooks, PathOf, Whole
  <2>5. \A d \in Folder : paths'[d] = IF d = climbing THEN parts ELSE paths[d]
    BY <2>1 DEF ScanBooks, ScanTypeOK
  <2> QED
    BY <2>1, <2>3, <2>4, <2>5 DEF PathBooks, PathOf
<1>6. ASSUME NoParent PROVE PathOf'
  BY <1>6 DEF NoParent, PathBooks, PathOf
<1> QED
  BY <1>2, <1>3, <1>4, <1>5, <1>6 DEF PathBooks

\* What is joined at the end is the merged tree.
LEMMA PathCompose ==
    ASSUME ScanBooks, PathBooks, Compose
    PROVE  PathsHeld'
<1>1. /\ UNCHANGED <<home, truths, moves>>
      /\ \A e \in Usable(collected) : paths[e.dir] # Nowhere
      /\ result' = {[file |-> e.file, path |-> paths[e.dir]] : e \in Usable(collected)}
      /\ Usable(collected) \subseteq collected
  BY DEF Compose, Usable, quiet, still, drive
<1>2. ASSUME moves <= 1, NEW e \in Usable(collected), home[e.file] # Nowhere
      PROVE  [file |-> e.file, path |-> paths[e.dir]] \in truths
  <2>1. e.dir \in Folder
    BY <1>1 DEF ScanBooks, ScanTypeOK, Entry
  <2>2. paths[e.dir] = Chain(dirMap, e.dir) /\ Whole(dirMap, e.dir)
    BY <1>1, <2>1 DEF PathBooks, PathOf
  <2>3. \A x \in Above(dirMap, e.dir) : Merged[x] = dirMap[x]
    BY <2>2, AboveClosed DEF Merged, Whole
  <2>4. Chain(Merged, e.dir) = Chain(dirMap, e.dir) /\ Whole(Merged, e.dir)
    BY <2>2, <2>3, AboveSame
  <2> QED
    BY <1>1, <1>2, <2>2, <2>4 DEF PathBooks, PathsComing
<1> QED
  BY <1>1, <1>2 DEF PathsHeld

LEMMA PathStep == ScanBooks /\ PathBooks /\ [ScanNext]_scanVars => PathBooks'
<1> SUFFICES ASSUME ScanBooks, PathBooks, [ScanNext]_scanVars PROVE PathBooks'
  OBVIOUS
<1>1. CASE User
  BY <1>1, PathUser
<1>2. CASE RequestCancel \/ UNCHANGED scanVars
  <2>1. UNCHANGED <<home, parent, moves, pc, collected, dirMap, paths, climbing, cursor, parts,
                    result, truths>>
    BY <1>2 DEF RequestCancel, scanVars, scan, climb, drive
  <2> QED
    BY <2>1 DEF PathBooks, OnRecord, AsRead, PathsComing, PathOf, PathsHeld, CollectedFiles, Merged
<1>3. CASE Begin
  <2>1. /\ pc = "idle" /\ pc' = "files" /\ truths' = Tree(home, parent)
        /\ UNCHANGED <<home, parent, moves, collected, dirMap, paths, climbing, cursor, parts>>
    BY <1>3 DEF Begin, drive, climb
  <2>2. collected = {}
    BY <2>1 DEF ScanBooks, Phases
  <2>3. \A d \in Dir : dirMap[d] = Nowhere
    BY <2>1 DEF ScanBooks, Phases
  <2> QED
    BY <2>1, <2>2, <2>3
       DEF PathBooks, OnRecord, AsRead, PathsComing, PathOf, PathsHeld, CollectedFiles
<1>4. CASE CancelSeen \/ Refused \/ (\E converts \in BOOLEAN : Derive(converts))
           \/ Compose \/ (\E fails \in BOOLEAN : Fallback(fails)) \/ FallbackBlind
  <2>1. UNCHANGED <<home, parent, moves, collected, dirMap, paths, climbing, cursor, parts, truths>>
    BY <1>4 DEF CancelSeen, Refused, Derive, Compose, Fallback, FallbackBlind, Unavailable, quiet, still, drive, climb
  <2>2. pc # "idle"
    BY <1>4 DEF CancelSeen, Refused, Derive, Compose, Fallback, FallbackBlind
  <2>3. OnRecord' /\ AsRead' /\ PathsComing' /\ PathOf'
    BY <2>1, <2>2 DEF PathBooks, OnRecord, AsRead, PathsComing, PathOf, CollectedFiles, Merged
  <2>4. CASE CancelSeen \/ Refused \/ (\E converts \in BOOLEAN : Derive(converts))
    <3>1. UNCHANGED result /\ pc \notin {"done", "failed"}
      BY <2>4 DEF CancelSeen, Refused, Derive, Unavailable
    <3>2. result' = {}
      BY <3>1 DEF ScanBooks, Phases
    <3> QED
      BY <2>3, <3>2 DEF PathBooks, PathsHeld
  <2>5. CASE (\E fails \in BOOLEAN : Fallback(fails)) \/ FallbackBlind
    <3>1. result' \subseteq Tree(home, parent)
      BY <2>5 DEF Fallback, FallbackBlind
    <3> QED
      BY <2>1, <2>2, <2>3, <3>1 DEF PathBooks, PathsHeld, OnRecord
  <2> QED
    BY <1>4, <2>3, <2>4, <2>5, PathCompose DEF PathBooks
<1> QED
  BY <1>1, <1>2, <1>3, <1>4, PathFetchFiles, PathFetchDirs, PathLoop DEF ScanNext, Step

LEMMA PathInit == ScanInit => PathBooks
<1> SUFFICES ASSUME ScanInit PROVE PathBooks
  OBVIOUS
<1>1. OnRecord /\ AsRead /\ PathsComing /\ PathsHeld
  BY DEF ScanInit, OnRecord, AsRead, PathsComing, PathsHeld, CollectedFiles
<1>2. PathOf
  BY DEF ScanInit, PathOf
<1> QED
  BY <1>1, <1>2 DEF PathBooks

\* The fast scan makes up no path: if at most one thing is moved meanwhile,
\* every file it reports that is still there was, at some moment since the scan
\* began, in that place, with those directories above it, although it joins
\* parents that were read at different times (fast_scan.py:86-112).
THEOREM ScanPathsTrue == ScanSpec => []PathsHeld
<1>1. PathBooks => PathsHeld
  BY DEF PathBooks
<1> QED
  BY <1>1, PathInit, PathStep, BooksHold, PTL DEF ScanSpec

-----------------------------------------------------------------------------
(***************************************************************************)
(* The scan gets on.  Its rounds are counted: each step of the scan makes  *)
(* the count greater and no change of the user touches it, and the count   *)
(* has a bound that only the sizes of the tree and of its table give.  The *)
(* loop that might go on for ever is that of path_of, if the parents led   *)
(* round in a circle; with one move at most they lead up.                  *)
(***************************************************************************)

\* No directory is above its parent.
NoReturn(tree) == \A d \in Dir : d \notin Above(tree, tree[d])

\* As long as at most one thing is moved, the parents read and those still to be
\* read lead up; and whatever path_of has passed, its cursor is above it.
Rises ==
    /\ moves <= 1 => NoReturn(Merged)
    /\ climbing = Nowhere => parts = {}
    /\ climbing # Nowhere => paths[climbing] = Nowhere
    /\ \A p \in parts :
          /\ p[2] = dirMap[p[1]]
          /\ cursor \in Dir => cursor \in Above(dirMap, dirMap[p[1]])

\* The directories that path_of has passed.
Passed == {p[1] : p \in parts}

\* A tree that loses some of its entries leads up still.
LEMMA FewerReturn ==
    ASSUME NEW tree, NEW fewer, NoReturn(tree),
           \A x \in Dir : fewer[x] \in {tree[x], Nowhere}
    PROVE  NoReturn(fewer)
<1> SUFFICES ASSUME NEW d \in Dir PROVE d \notin Above(fewer, fewer[d])
  BY DEF NoReturn
<1>1. CASE fewer[d] = Nowhere
  BY <1>1, AboveRoot, ScanAssumption
<1>2. CASE fewer[d] = tree[d]
  <2> DEFINE A == Above(tree, tree[d])
  <2>1. A \in SUBSET Dir /\ (tree[d] \in Dir => tree[d] \in A) /\ Closed(tree, A)
    BY AboveClosed
  <2>2. Closed(fewer, A)
    BY <2>1, ScanAssumption DEF Closed
  <2>3. Above(fewer, tree[d]) \subseteq A
    BY <2>1, <2>2, AboveLeast
  <2> QED
    BY <1>2, <2>3 DEF NoReturn
<1> QED
  BY <1>1, <1>2

\* Nor does it lead round when a directory is put where it is not above.
LEMMA MovedReturn ==
    ASSUME NEW tree, NEW moved, NEW d \in Dir, NEW e, NoReturn(tree),
           d \notin Above(tree, e), moved[d] = e,
           \A x \in Dir \ {d} : moved[x] = tree[x]
    PROVE  NoReturn(moved)
<1> DEFINE E == Above(tree, e)
<1>1. E \in SUBSET Dir /\ (e \in Dir => e \in E) /\ Closed(tree, E)
  BY AboveClosed
<1>2. Above(moved, e) \subseteq E
  <2>1. Closed(moved, E)
    BY <1>1 DEF Closed
  <2> QED
    BY <1>1, <2>1, AboveLeast
<1> SUFFICES ASSUME NEW x \in Dir PROVE x \notin Above(moved, moved[x])
  BY DEF NoReturn
<1>3. CASE x = d
  BY <1>2, <1>3
<1>4. CASE x # d
  <2> DEFINE A == Above(tree, tree[x])
             S == {y \in A : d \in Above(tree, y)} \union E
  <2>1. A \in SUBSET Dir /\ (tree[x] \in Dir => tree[x] \in A) /\ Closed(tree, A)
    BY AboveClosed
  <2>2. CASE d \in A
    <3>1. S \in SUBSET Dir
      BY <1>1, <2>1
    <3>2. Closed(moved, S)
      <4> SUFFICES ASSUME NEW y \in S, moved[y] \in Dir PROVE moved[y] \in S
        BY DEF Closed
      <4>1. CASE y \in E
        BY <1>1, <4>1 DEF Closed
      <4>2. CASE y = d
        BY <1>1, <4>2
      <4>3. CASE y \in A /\ d \in Above(tree, y) /\ y # d
        <5>1. moved[y] = tree[y] /\ tree[y] \in A
          BY <2>1, <4>3 DEF Closed
        <5>2. d \in Above(tree, tree[y])
          BY <2>1, <4>3, AboveStep
        <5> QED
          BY <5>1, <5>2
      <4> QED
        BY <4>1, <4>2, <4>3
    <3>3. tree[x] \in Dir => tree[x] \in S
      <4> SUFFICES ASSUME tree[x] \in Dir PROVE tree[x] \in A /\ d \in Above(tree, tree[x])
        OBVIOUS
      <4> QED
        BY <2>1, <2>2
    <3>4. Above(moved, tree[x]) \subseteq S
      <4> HIDE DEF S
      <4> QED
        BY <3>1, <3>2, <3>3, AboveLeast
    <3>5. x \notin S
      <4>1. x \notin A
        BY DEF NoReturn
      <4>2. x \notin E
        <5> SUFFICES ASSUME x \in E PROVE FALSE
          OBVIOUS
        <5>1. tree[x] \in Dir
          BY <2>2, AboveRoot
        <5>2. tree[x] \in E
          BY <1>1, <5>1 DEF Closed
        <5>3. A \subseteq E
          BY <1>1, <5>2, AboveLeast
        <5> QED
          BY <2>2, <5>3
      <4> QED
        BY <4>1, <4>2
    <3> QED
      BY <1>4, <3>4, <3>5
  <2>3. CASE d \notin A
    <3>1. Closed(moved, A)
      BY <2>1, <2>3 DEF Closed
    <3>2. Above(moved, tree[x]) \subseteq A
      BY <2>1, <3>1, AboveLeast
    <3> QED
      BY <1>4, <3>2 DEF NoReturn
  <2> QED
    BY <2>2, <2>3
<1> QED
  BY <1>3, <1>4

\* A tree in which every way ends at the root leads up.
LEMMA AcyclicReturn ==
    ASSUME NEW tree, Acyclic(tree)
    PROVE  NoReturn(tree)
<1> SUFFICES ASSUME NEW d \in Dir, d \in Above(tree, tree[d]) PROVE FALSE
  BY DEF NoReturn
<1> DEFINE A == Above(tree, d)
           S == {y \in A : d \in Above(tree, y)}
<1>1. A \in SUBSET Dir /\ d \in A /\ Closed(tree, A)
  BY AboveClosed
<1>2. S \in SUBSET Dir /\ d \in S
  BY <1>1
<1>3. Closed(tree, S)
  <2> SUFFICES ASSUME NEW y \in S, tree[y] \in Dir PROVE tree[y] \in S
    BY DEF Closed
  <2>1. tree[y] \in A
    BY <1>1 DEF Closed
  <2>2. Above(tree, y) = {y} \union Above(tree, tree[y])
    BY <1>2, AboveStep
  <2> QED
    BY <2>1, <2>2
<1>4. A \subseteq S
  <2> HIDE DEF S
  <2> QED
    BY <1>2, <1>3, AboveLeast
<1>5. PICK x \in A : tree[x] = Root
  BY DEF Acyclic
<1>6. x \in Dir /\ d \in Above(tree, x)
  BY <1>1, <1>4, <1>5
<1>7. Above(tree, x) = {x} \union Above(tree, Root)
  BY <1>5, <1>6, AboveStep
<1>8. Above(tree, Root) = {}
  BY AboveRoot, ScanAssumption
<1> QED
  BY <1>5, <1>6, <1>7, <1>8

LEMMA RisesUser ==
    ASSUME ScanBooks, PathBooks, Rises, User
    PROVE  Rises'
<1> USE ScanAssumption DEF ScanAssumption
<1>1. UNCHANGED <<dirMap, paths, climbing, cursor, parts>>
  BY UserScan
<1>2. home \in [File -> Folder \union {Nowhere}] /\ parent \in [Dir -> Folder \union {Nowhere}]
      /\ dirMap \in [Dir -> Folder \union {Nowhere}] /\ moves \in Nat
  BY DEF ScanBooks, ScanTypeOK
<1>3. /\ \A x \in Dir : Merged[x] = IF dirMap[x] = Nowhere THEN parent[x] ELSE dirMap[x]
      /\ \A x \in Dir : Merged'[x] = IF dirMap[x] = Nowhere THEN parent'[x] ELSE dirMap[x]
  BY <1>1 DEF Merged
<1> SUFFICES ASSUME moves' <= 1 PROVE NoReturn(Merged')
  BY <1>1 DEF Rises, NoReturn
<1>4. ASSUME moves' \in {moves, moves + 1}, \A x \in Dir : parent'[x] \in {parent[x], Nowhere}
      PROVE  NoReturn(Merged')
  <2>1. NoReturn(Merged)
    BY <1>2, <1>4 DEF Rises
  <2>2. \A x \in Dir : Merged'[x] \in {Merged[x], Nowhere}
    BY <1>3, <1>4
  <2> QED
    BY <2>1, <2>2, FewerReturn
<1>5. CASE \E f \in File, d \in Folder : Upload(f, d) \/ MoveFile(f, d)
  BY <1>2, <1>4, <1>5 DEF Upload, MoveFile, Moved
<1>6. CASE \E p \in DOMAIN listing : Delete(p)
  BY <1>2, <1>4, <1>6 DEF Delete
<1>7. CASE \E d \in Dir : DeleteDir(d)
  BY <1>2, <1>4, <1>7 DEF DeleteDir
<1>8. ASSUME NEW d \in Dir, NEW e \in Folder, MoveDir(d, e) PROVE NoReturn(Merged')
  <2>1. /\ parent[d] # Nowhere /\ Exists(e) /\ d \notin Above(parent, e)
        /\ parent' = [parent EXCEPT ![d] = e] /\ moves' = moves + 1
    BY <1>8 DEF MoveDir, Moved
  <2>2. moves = 0 /\ NoReturn(Merged)
    BY <1>2, <2>1 DEF Rises
  <2>3. CASE dirMap[d] # Nowhere
    <3>1. \A x \in Dir : Merged'[x] = Merged[x]
      BY <1>2, <1>3, <2>1, <2>3
    <3> QED
      BY <2>2, <3>1, FewerReturn
  <2>4. CASE dirMap[d] = Nowhere
    <3>1. \A x \in Above(parent, e) : parent[x] # Nowhere
      <4> DEFINE S == {x \in Dir : parent[x] # Nowhere}
      <4>1. Closed(parent, S)
        BY DEF Closed, ScanBooks, Rooted
      <4>2. e \in Dir => e \in S
        BY <2>1 DEF Exists
      <4> QED
        BY <4>1, <4>2, AboveLeast
    <3>2. \A x \in Above(parent, e) : Merged[x] = parent[x]
      BY <1>3, <2>2, <3>1, AboveClosed DEF PathBooks, AsRead
    <3>3. d \notin Above(Merged, e)
      BY <2>1, <3>2, AboveSame
    <3>4. Merged'[d] = e /\ \A x \in Dir \ {d} : Merged'[x] = Merged[x]
      BY <1>2, <1>3, <2>1, <2>4
    <3> QED
      BY <2>2, <3>3, <3>4, MovedReturn
  <2> QED
    BY <2>3, <2>4
<1> QED
  BY <1>5, <1>6, <1>7, <1>8 DEF User

LEMMA RisesDirs ==
    ASSUME ScanBooks, Rises, NEW page \in SUBSET Dir, NEW hasNext \in BOOLEAN,
           FetchDirs(page, hasNext)
    PROVE  Rises'
<1> USE ScanAssumption DEF ScanAssumption
<1>1. /\ climbing = Nowhere /\ parts = {}
      /\ UNCHANGED <<parent, moves, climbing, cursor, parts>>
  BY DEF FetchDirs, Unavailable, climb, quiet, still, drive, ScanBooks, Phases, Rises
<1>2. \A x \in Dir : \/ dirMap'[x] = dirMap[x]
                     \/ dirMap[x] = Nowhere /\ parent[x] # Nowhere /\ dirMap'[x] = parent[x]
  BY DEF FetchDirs, Unavailable, ParentRead
<1>3. \A x \in Dir : Merged'[x] = Merged[x]
  BY <1>1, <1>2 DEF Merged
<1>4. moves' <= 1 => NoReturn(Merged')
  BY <1>1, <1>3, FewerReturn DEF Rises
<1> QED
  BY <1>1, <1>4 DEF Rises, NoReturn

LEMMA RisesLoop ==
    ASSUME ScanBooks, Rises, (\E d \in Dir : EnterPathOf(d)) \/ Climb \/ LeavePathOf \/ NoParent
    PROVE  Rises'
<1> USE ScanAssumption DEF ScanAssumption
<1>1. UNCHANGED <<parent, moves, dirMap>>
  BY DEF EnterPathOf, Climb, LeavePathOf, NoParent, quiet, still, drive
<1>2. moves' <= 1 => NoReturn(Merged')
  BY <1>1 DEF Rises, Merged, NoReturn
<1>3. ASSUME NEW d \in Dir, EnterPathOf(d) PROVE Rises'
  BY <1>2, <1>3 DEF EnterPathOf, Rises, NoReturn
<1>4. ASSUME Climb PROVE Rises'
  <2>1. /\ climbing # Nowhere /\ cursor # Root /\ dirMap[cursor] # Nowhere
        /\ parts' = parts \union {<<cursor, dirMap[cursor]>>}
        /\ cursor' = dirMap[cursor]
        /\ UNCHANGED <<paths, climbing>>
    BY <1>4 DEF Climb, Parent
  <2>2. cursor \in Dir
    BY <2>1 DEF ScanBooks, ScanTypeOK, Phases, Folder
  <2>3. ASSUME NEW p \in parts, cursor' \in Dir
        PROVE  cursor' \in Above(dirMap, dirMap[p[1]])
    <3>1. cursor \in Above(dirMap, dirMap[p[1]])
      BY <2>2 DEF Rises
    <3> QED
      BY <2>1, <2>3, <3>1, AboveClosed DEF Closed
  <2>4. cursor' \in Dir => cursor' \in Above(dirMap, dirMap[cursor])
    BY <2>1, AboveClosed
  <2>5. \A p \in parts' : /\ p[2] = dirMap[p[1]]
                          /\ cursor' \in Dir => cursor' \in Above(dirMap, dirMap[p[1]])
    <3> SUFFICES ASSUME NEW p \in parts'
                 PROVE  /\ p[2] = dirMap[p[1]]
                        /\ cursor' \in Dir => cursor' \in Above(dirMap, dirMap[p[1]])
      OBVIOUS
    <3>1. CASE p \in parts
      BY <2>3, <3>1 DEF Rises
    <3>2. CASE p = <<cursor, dirMap[cursor]>>
      BY <2>4, <3>2
    <3> QED
      BY <2>1, <3>1, <3>2
  <2>6. paths'[climbing'] = Nowhere /\ climbing' # Nowhere
    BY <2>1 DEF Rises
  <2> QED
    BY <1>1, <1>2, <2>5, <2>6 DEF Rises, NoReturn
<1>5. ASSUME LeavePathOf \/ NoParent PROVE Rises'
  BY <1>2, <1>5 DEF LeavePathOf, NoParent, Rises, NoReturn
<1> QED
  BY <1>3, <1>4, <1>5

LEMMA RisesStep == ScanBooks /\ PathBooks /\ Rises /\ [ScanNext]_scanVars => Rises'
<1> SUFFICES ASSUME ScanBooks, PathBooks, Rises, [ScanNext]_scanVars PROVE Rises'
  OBVIOUS
<1>1. ASSUME UNCHANGED <<parent, moves, dirMap, paths, climbing, cursor, parts>> PROVE Rises'
  BY <1>1 DEF Rises, Merged, NoReturn
<1>2. CASE RequestCancel \/ UNCHANGED scanVars
  BY <1>1, <1>2 DEF RequestCancel, scanVars, scan, climb, drive
<1>3. CASE Begin \/ CancelSeen \/ Refused \/ Compose
  BY <1>1, <1>3 DEF Begin, CancelSeen, Refused, Compose, Unavailable, quiet, still, drive, climb
<1>4. CASE \/ \E converts \in BOOLEAN : Derive(converts)
           \/ \E fails \in BOOLEAN : Fallback(fails)
           \/ FallbackBlind
  BY <1>1, <1>4 DEF Derive, Fallback, FallbackBlind, Unavailable, quiet, still, drive, climb
<1>5. CASE \E a \in FilesAnswer : FetchFiles(a.page, a.count)
  BY <1>1, <1>5 DEF FetchFiles, Unavailable, quiet, still, drive, climb
<1> QED
  BY <1>2, <1>3, <1>4, <1>5, RisesUser, RisesDirs, RisesLoop DEF ScanNext, Step

LEMMA RisesInit == ScanInit => Rises
<1> SUFFICES ASSUME ScanInit PROVE Rises
  OBVIOUS
<1>1. NoReturn(parent)
  BY AcyclicReturn DEF ScanInit
<1>2. \A x \in Dir : Merged[x] = parent[x]
  BY DEF ScanInit, Merged
<1>3. NoReturn(Merged)
  BY <1>1, <1>2, FewerReturn
<1> QED
  BY <1>3 DEF Rises, ScanInit

LEMMA RisesHold == ScanSpec => []Rises
BY RisesInit, RisesStep, BooksHold, PathInit, PathStep, PTL DEF ScanSpec

LEMMA CursorAhead ==
    ASSUME ScanBooks, Rises, moves <= 1, climbing # Nowhere
    PROVE  cursor \notin Passed
<1> SUFFICES ASSUME NEW p \in parts, p[1] = cursor PROVE FALSE
  BY DEF Passed
<1>1. cursor \in Dir
  BY DEF ScanBooks, ScanTypeOK, Path
<1>2. cursor \in Above(dirMap, dirMap[cursor])
  BY <1>1 DEF Rises
<1>3. \A x \in Dir : dirMap[x] \in {Merged[x], Nowhere}
  BY DEF Merged
<1>4. NoReturn(dirMap)
  BY <1>3, FewerReturn DEF Rises
<1> QED
  BY <1>1, <1>2, <1>4 DEF NoReturn

\* With one move at most while the table of directories is read, path_of never
\* meets a directory twice, although its parents are from different moments: its
\* loop, which has no other bound, ends (fast_scan.py:47).
THEOREM ScanNeverTurnsBack ==
    ScanSpec => [](moves <= 1 /\ climbing # Nowhere => cursor \notin Passed)
<1>1. ScanBooks /\ Rises => (moves <= 1 /\ climbing # Nowhere => cursor \notin Passed)
  BY CursorAhead
<1> QED
  BY <1>1, BooksHold, RisesHold, PTL

\* The rounds that path_of needs for one directory at most, and the directories
\* whose path it has found.
PathRounds == Cardinality(Dir) + 2
Known == {d \in Dir : paths[d] # Nowhere}

BeforePaths == Cardinality(File) + MaxDirsPages + 3
BeforeWalk  == BeforePaths + (Cardinality(Dir) + 1) * PathRounds

\* The requests and rounds that the scan has made; a phase that ends early
\* counts as if it had made all of its own.
Rounds ==
    CASE pc = "idle"     -> 0
      [] pc = "files"    -> 1 + offset
      [] pc = "derive"   -> Cardinality(File) + 2
      [] pc = "dirs"     -> Cardinality(File) + 2 + pageNo
      [] pc = "paths"    -> BeforePaths + Cardinality(Known) * PathRounds
                                + (IF climbing = Nowhere THEN 0 ELSE 1 + Cardinality(parts))
      [] pc = "fallback" -> BeforeWalk
      [] OTHER           -> BeforeWalk + 1

\* The offset is that of an entry, or of the end of the list.
OffsetInList == pc = "files" => offset <= Cardinality(File)

LEMMA Sizes ==
    /\ Cardinality(File) \in Nat /\ Cardinality(Dir) \in Nat /\ MaxDirsPages \in Nat
    /\ PathRounds \in Nat /\ BeforePaths \in Nat /\ BeforeWalk \in Nat
<1>1. Cardinality(File) \in Nat /\ Cardinality(Dir) \in Nat /\ MaxDirsPages \in Nat
  BY ScanAssumption, FS_CardinalityType
<1>2. PathRounds \in Nat /\ BeforePaths \in Nat
  BY <1>1 DEF PathRounds, BeforePaths
<1> QED
  BY <1>1, <1>2 DEF BeforeWalk

\* Known paths and the rounds of the one under way stay below the walk.
LEMMA BelowWalk ==
    ASSUME NEW k \in Nat, NEW n \in Nat, k <= Cardinality(Dir), n <= Cardinality(Dir) + 1
    PROVE  /\ k * PathRounds \in Nat
           /\ BeforePaths + k * PathRounds + n < BeforeWalk
           /\ k * PathRounds + n < (k + 1) * PathRounds
<1> DEFINE D == Cardinality(Dir)  W == PathRounds
<1>1. D \in Nat /\ W \in Nat /\ W = D + 2 /\ BeforePaths \in Nat
  BY Sizes DEF PathRounds
<1>2. PICK j \in Nat : D = k + j
  <2>1. D - k \in Nat /\ D = k + (D - k)
    BY <1>1
  <2> QED
    BY <2>1
<1>3. BeforeWalk = BeforePaths + (D + 1) * W
  BY DEF BeforeWalk
<1> HIDE DEF D, W
<1>4. k * W \in Nat /\ j * W \in Nat
  BY <1>1
<1>5. (D + 1) * W = k * W + j * W + W /\ (k + 1) * W = k * W + W
  BY <1>1, <1>2, <1>4
<1>6. n < W
  BY <1>1 DEF D
<1>7. /\ k * W \in Nat
      /\ BeforePaths + k * W + n < BeforeWalk
      /\ k * W + n < (k + 1) * W
  BY <1>1, <1>3, <1>4, <1>5, <1>6
<1> QED
  BY <1>7 DEF W

LEMMA KnownSize ==
    /\ IsFiniteSet(Known) /\ Cardinality(Known) \in Nat /\ Cardinality(Known) <= Cardinality(Dir)
<1>1. IsFiniteSet(Dir) /\ Known \in SUBSET Dir
  BY ScanAssumption DEF Known
<1> QED
  BY <1>1, FS_Subset, FS_CardinalityType

\* There is one part for a directory that was passed.
LEMMA PartsSize ==
    ASSUME ScanBooks, Rises
    PROVE  /\ IsFiniteSet(parts) /\ Cardinality(parts) \in Nat
           /\ Cardinality(parts) <= Cardinality(Dir)
<1> DEFINE f == [p \in parts |-> p[1]]
<1>1. \A p \in parts : p[1] \in Dir /\ p = <<p[1], dirMap[p[1]]>>
  BY DEF ScanBooks, ScanTypeOK, Path, Rises
<1>2. f \in Injection(parts, Dir)
  BY <1>1 DEF Injection, IsInjective
<1>3. IsFiniteSet(Dir)
  BY ScanAssumption
<1> QED
  BY <1>2, <1>3, FS_Injection, FS_CardinalityType

LEMMA RoundsOf ==
    /\ pc = "idle" => Rounds = 0
    /\ pc = "files" => Rounds = 1 + offset
    /\ pc = "derive" => Rounds = Cardinality(File) + 2
    /\ pc = "dirs" => Rounds = Cardinality(File) + 2 + pageNo
    /\ pc = "paths" /\ climbing = Nowhere =>
           Rounds = BeforePaths + Cardinality(Known) * PathRounds + 0
    /\ pc = "paths" /\ climbing # Nowhere =>
           Rounds = BeforePaths + Cardinality(Known) * PathRounds + (1 + Cardinality(parts))
    /\ pc = "fallback" => Rounds = BeforeWalk
    /\ pc \in {"done", "failed"} => Rounds = BeforeWalk + 1
BY DEF Rounds

LEMMA RoundsOfNext ==
    /\ pc' = "idle" => Rounds' = 0
    /\ pc' = "files" => Rounds' = 1 + offset'
    /\ pc' = "derive" => Rounds' = Cardinality(File) + 2
    /\ pc' = "dirs" => Rounds' = Cardinality(File) + 2 + pageNo'
    /\ pc' = "paths" /\ climbing' = Nowhere =>
           Rounds' = BeforePaths + Cardinality(Known') * PathRounds + 0
    /\ pc' = "paths" /\ climbing' # Nowhere =>
           Rounds' = BeforePaths + Cardinality(Known') * PathRounds + (1 + Cardinality(parts'))
    /\ pc' = "fallback" => Rounds' = BeforeWalk
    /\ pc' \in {"done", "failed"} => Rounds' = BeforeWalk + 1
BY DEF Rounds, PathRounds, BeforePaths, BeforeWalk

\* No phase makes more rounds than are counted for it.
LEMMA RoundsWithin ==
    ASSUME ScanBooks, Rises, OffsetInList
    PROVE  /\ Rounds \in Nat /\ Rounds <= BeforeWalk + 1
           /\ pc # "idle" => 0 < Rounds
           /\ pc \in {"idle", "files"} => Rounds < Cardinality(File) + 2
           /\ pc \in {"idle", "files", "derive"} => Rounds < Cardinality(File) + 3
           /\ pc \in {"idle", "files", "derive", "dirs"} => Rounds < BeforePaths
           /\ pc \notin {"fallback", "done", "failed"} => Rounds < BeforeWalk
<1> DEFINE n == IF climbing = Nowhere THEN 0 ELSE 1 + Cardinality(parts)
           k == Cardinality(Known)
<1>1. /\ pc \in {"idle", "files", "derive", "dirs", "paths", "fallback", "done", "failed"}
      /\ offset \in Nat /\ pageNo \in Nat /\ 1 <= pageNo /\ pageNo <= MaxDirsPages
  BY Sizes DEF ScanBooks, ScanTypeOK
<1>2. n \in Nat /\ n <= Cardinality(Dir) + 1
  BY PartsSize, Sizes
<1>3. k \in Nat /\ k <= Cardinality(Dir)
  BY KnownSize
<1>4. k * PathRounds \in Nat /\ BeforePaths + k * PathRounds + n < BeforeWalk
  <2> HIDE DEF n, k
  <2> QED
    BY <1>2, <1>3, BelowWalk
<1>5. pc = "paths" => Rounds = BeforePaths + k * PathRounds + n
  BY RoundsOf
<1>6. BeforePaths = Cardinality(File) + MaxDirsPages + 3 /\ BeforePaths < BeforeWalk
  <2> HIDE DEF n, k
  <2> QED
    BY <1>2, <1>4, Sizes DEF BeforePaths
<1> HIDE DEF n, k
<1>7. CASE pc \in {"idle", "files", "derive"}
  BY <1>1, <1>6, <1>7, Sizes, RoundsOf DEF OffsetInList
<1>8. CASE pc = "dirs"
  BY <1>1, <1>6, <1>8, Sizes, RoundsOf
<1>9. CASE pc = "paths"
  BY <1>2, <1>4, <1>5, <1>9, Sizes DEF BeforePaths
<1>10. CASE pc \in {"fallback", "done", "failed"}
  BY <1>6, <1>10, Sizes, RoundsOf
<1> QED
  BY <1>1, <1>7, <1>8, <1>9, <1>10

\* A page that is not empty lies in the list.
LEMMA PageInList ==
    ASSUME ScanBooks, Page # {}
    PROVE  /\ 0 < Cardinality(Page)
           /\ offset + Cardinality(Page) <= Len(listing)
<1> USE ScanAssumption DEF ScanAssumption
<1>1. DOMAIN listing = 1..Len(listing) /\ Len(listing) \in Nat /\ offset \in Nat /\ PageSize \in Nat \ {0}
  BY DEF ScanBooks, ScanTypeOK
<1> DEFINE last == IF offset + PageSize <= Len(listing) THEN offset + PageSize ELSE Len(listing)
<1>2. Page = (offset + 1)..last
  BY <1>1 DEF Page
<1>3. offset + 1 \in Int /\ last \in Int /\ last <= Len(listing)
  BY <1>1
<1>4. Cardinality(Page) = IF offset + 1 > last THEN 0 ELSE last - (offset + 1) + 1
  BY <1>2, <1>3, FS_Interval
<1> HIDE DEF last
<1>5. ~(offset + 1 > last)
  BY <1>2, <1>3
<1>6. Cardinality(Page) = last - (offset + 1) + 1
  BY <1>4, <1>5
<1> QED
  BY <1>1, <1>3, <1>5, <1>6

\* A request for files ends the phase or gets further in the list.
LEMMA FilesRound ==
    ASSUME ScanBooks, NEW a \in FilesAnswer, FetchFiles(a.page, a.count)
    PROVE  /\ pc = "files"
           /\ \/ pc' \in {"derive", "fallback"}
              \/ pc' = "files" /\ offset < offset' /\ offset' <= Cardinality(File)
<1>1. /\ pc = "files"
      /\ \/ pc' \in {"derive", "fallback"}
         \/ pc' = "files" /\ a.page # {} /\ offset' = offset + Cardinality(a.page)
  BY DEF FetchFiles, Unavailable
<1>2. ASSUME a.page # {}, offset' = offset + Cardinality(a.page)
      PROVE  offset < offset' /\ offset' <= Cardinality(File)
  <2>1. a.page = Page
    BY <1>2, AnswerKinds
  <2>2. /\ 0 < Cardinality(Page) /\ Cardinality(Page) \in Nat
        /\ offset + Cardinality(Page) <= Len(listing)
    BY <1>2, <2>1, PageInList, PageRead
  <2>3. /\ offset \in Nat /\ Len(listing) \in Nat /\ Len(listing) <= Cardinality(File)
    BY DEF ScanBooks, ScanTypeOK
  <2> QED
    BY <1>2, <2>1, <2>2, <2>3, Sizes
<1> QED
  BY <1>1, <1>2

LEMMA OffsetStep == ScanBooks /\ OffsetInList /\ [ScanNext]_scanVars => OffsetInList'
<1> SUFFICES ASSUME ScanBooks, OffsetInList, [ScanNext]_scanVars PROVE OffsetInList'
  OBVIOUS
<1>1. ASSUME UNCHANGED <<pc, offset>> PROVE OffsetInList'
  BY <1>1 DEF OffsetInList
<1>2. CASE User \/ RequestCancel \/ UNCHANGED scanVars
  BY <1>1, <1>2, UserScan DEF RequestCancel, scanVars, scan
<1>3. CASE Begin
  <2>1. offset' = 0
    BY <1>3 DEF Begin, ScanBooks, Phases
  <2> QED
    BY <2>1, Sizes DEF OffsetInList
<1>4. CASE \E a \in FilesAnswer : FetchFiles(a.page, a.count)
  BY <1>4, FilesRound DEF OffsetInList
<1>5. ASSUME Step, ~Begin, ~\E a \in FilesAnswer : FetchFiles(a.page, a.count)
      PROVE  pc' # "files"
  BY <1>5 DEF Step, CancelSeen, Refused, Derive, Unavailable, FetchDirs, EnterPathOf, Climb,
              LeavePathOf, NoParent, Compose, Fallback, FallbackBlind, ScanBooks, Phases
<1> QED
  BY <1>2, <1>3, <1>4, <1>5 DEF ScanNext, OffsetInList

\* One round of path_of: the way in, a directory passed, a path found, or the
\* end of the fast scan.
LEMMA LoopRound ==
    ASSUME ScanBooks, Rises, OffsetInList, moves <= 1,
           (\E d \in Dir : EnterPathOf(d)) \/ Climb \/ LeavePathOf \/ NoParent
    PROVE  Rounds < Rounds'
<1> USE ScanAssumption DEF ScanAssumption
<1> DEFINE k == Cardinality(Known)  n == Cardinality(parts)
<1>1. pc = "paths"
  BY DEF EnterPathOf, Climb, LeavePathOf, NoParent, ScanBooks, Phases
<1>2. /\ k \in Nat /\ k <= Cardinality(Dir) /\ n \in Nat /\ n <= Cardinality(Dir)
      /\ IsFiniteSet(Known) /\ IsFiniteSet(parts)
  BY KnownSize, PartsSize
<1>3. k * PathRounds \in Nat /\ k * PathRounds + (1 + n) < (k + 1) * PathRounds
      /\ (k + 1) * PathRounds \in Nat
  <2>1. 1 + n \in Nat /\ 1 + n <= Cardinality(Dir) + 1 /\ k + 1 \in Nat /\ PathRounds \in Nat
    BY <1>2, Sizes
  <2> HIDE DEF k, n
  <2>2. k * PathRounds \in Nat /\ k * PathRounds + (1 + n) < (k + 1) * PathRounds
    BY <1>2, <2>1, BelowWalk
  <2>3. (k + 1) * PathRounds \in Nat
    BY <2>1
  <2> QED
    BY <2>2, <2>3
<1>4. /\ climbing = Nowhere => Rounds = BeforePaths + k * PathRounds + 0
      /\ climbing # Nowhere => Rounds = BeforePaths + k * PathRounds + (1 + n)
  BY <1>1, RoundsOf
<1>5. ASSUME NEW d \in Dir, EnterPathOf(d) PROVE Rounds < Rounds'
  <2>1. /\ climbing = Nowhere /\ climbing' # Nowhere /\ parts' = {} /\ pc' = "paths"
        /\ paths' = paths
    BY <1>1, <1>5 DEF EnterPathOf
  <2>2. Known' = Known /\ Cardinality(parts') = 0
    BY <2>1, FS_EmptySet DEF Known
  <2>3. Rounds' = BeforePaths + k * PathRounds + (1 + 0)
    BY <2>1, <2>2, RoundsOfNext
  <2> HIDE DEF k, n
  <2> QED
    BY <1>3, <1>4, <2>1, <2>3, Sizes
<1>6. ASSUME Climb PROVE Rounds < Rounds'
  <2>1. /\ climbing # Nowhere /\ cursor \notin Passed /\ UNCHANGED <<pc, paths, climbing>>
        /\ parts' = parts \union {<<cursor, dirMap[cursor]>>}
    BY <1>6, CursorAhead DEF Climb, Parent
  <2>2. <<cursor, dirMap[cursor]>> \notin parts
    BY <2>1 DEF Passed
  <2>3. Cardinality(parts') = n + 1
    BY <1>2, <2>1, <2>2, FS_AddElement
  <2>4. Known' = Known
    BY <2>1 DEF Known
  <2>5. Rounds' = BeforePaths + k * PathRounds + (1 + (n + 1))
    BY <1>1, <2>1, <2>3, <2>4, RoundsOfNext
  <2> HIDE DEF k, n
  <2> QED
    BY <1>2, <1>3, <1>4, <2>1, <2>5, Sizes
<1>7. ASSUME LeavePathOf PROVE Rounds < Rounds'
  <2>1. /\ climbing # Nowhere /\ climbing' = Nowhere /\ UNCHANGED pc
        /\ paths' = [paths EXCEPT ![climbing] = parts]
    BY <1>7 DEF LeavePathOf
  <2>2. climbing \in Dir /\ paths[climbing] = Nowhere /\ parts # Nowhere
    BY <2>1, NowhereIsNoPath DEF ScanBooks, ScanTypeOK, Rises, Path, Folder
  <2>3. \A d \in Dir : paths'[d] = IF d = climbing THEN parts ELSE paths[d]
    BY <2>1 DEF ScanBooks, ScanTypeOK, Folder
  <2>4. Known' = Known \union {climbing} /\ climbing \notin Known
    BY <2>2, <2>3 DEF Known
  <2>5. Cardinality(Known') = k + 1
    BY <1>2, <2>4, FS_AddElement
  <2>6. Rounds' = BeforePaths + (k + 1) * PathRounds + 0
    BY <1>1, <2>1, <2>5, RoundsOfNext
  <2> HIDE DEF k, n
  <2> QED
    BY <1>2, <1>3, <1>4, <2>1, <2>6, Sizes
<1>8. ASSUME NoParent PROVE Rounds < Rounds'
  <2>1. pc' = "fallback" /\ Rounds < BeforeWalk
    BY <1>1, <1>8, RoundsWithin DEF NoParent
  <2> QED
    BY <2>1, RoundsOfNext
<1> QED
  BY <1>5, <1>6, <1>7, <1>8

LEMMA DirsRound ==
    ASSUME ScanBooks, Rises, OffsetInList, NEW page \in SUBSET Dir, NEW hasNext \in BOOLEAN,
           FetchDirs(page, hasNext)
    PROVE  Rounds < Rounds'
<1>1. /\ pc = "dirs" /\ climbing = Nowhere /\ climbing' = Nowhere
      /\ \/ pc' = "fallback"
         \/ pc' = "dirs" /\ pageNo' = pageNo + 1
         \/ pc' = "paths"
  BY DEF FetchDirs, Unavailable, climb, ScanBooks, Phases
<1>2. /\ Rounds = Cardinality(File) + 2 + pageNo /\ Rounds < BeforePaths /\ Rounds < BeforeWalk
      /\ pageNo \in Nat
  BY <1>1, RoundsOf, RoundsWithin DEF ScanBooks, ScanTypeOK
<1>3. CASE pc' = "fallback"
  BY <1>2, <1>3, RoundsOfNext
<1>4. CASE pc' = "dirs" /\ pageNo' = pageNo + 1
  BY <1>2, <1>4, Sizes, RoundsOfNext
<1>5. CASE pc' = "paths"
  <2>1. Known' \in SUBSET Dir /\ IsFiniteSet(Dir)
    BY ScanAssumption DEF Known
  <2>2. Cardinality(Known') \in Nat
    BY <2>1, FS_Subset, FS_CardinalityType
  <2> DEFINE k == Cardinality(Known')
  <2>3. Rounds' = BeforePaths + k * PathRounds + 0
    BY <1>1, <1>5, RoundsOfNext
  <2> HIDE DEF k
  <2>4. k * PathRounds \in Nat
    BY <2>2, Sizes DEF k
  <2>5. Rounds \in Nat
    BY RoundsWithin
  <2> QED
    BY <1>2, <2>3, <2>4, <2>5, Sizes
<1> QED
  BY <1>1, <1>3, <1>4, <1>5

LEMMA OneMore == \A a, b \in Nat : a < b => 1 + a < 1 + b
OBVIOUS

\* Every step of the scan is a round more.
LEMMA EveryRound ==
    ASSUME ScanBooks, Rises, OffsetInList, moves <= 1, Step
    PROVE  Rounds < Rounds'
<1>1. ASSUME pc \notin {"fallback", "done", "failed"}, pc' \in {"fallback", "done"}
      PROVE  Rounds < Rounds'
  BY <1>1, RoundsWithin, RoundsOfNext, Sizes
<1>2. CASE Begin
  <2>1. pc = "idle" /\ pc' = "files" /\ offset' = offset /\ offset \in Nat
    BY <1>2 DEF Begin, ScanBooks, ScanTypeOK
  <2> QED
    BY <2>1, RoundsOf, RoundsOfNext
<1>3. CASE CancelSeen \/ Refused \/ Compose
  BY <1>1, <1>3 DEF CancelSeen, Refused, Compose, Unavailable
<1>4. CASE \E converts \in BOOLEAN : Derive(converts)
  <2>1. pc = "derive" /\ pc' \in {"fallback", "dirs"} /\ UNCHANGED pageNo
    BY <1>4 DEF Derive, Unavailable
  <2>2. pageNo \in Nat /\ 1 <= pageNo
    BY Sizes DEF ScanBooks, ScanTypeOK
  <2> QED
    BY <1>1, <2>1, <2>2, RoundsOf, RoundsOfNext, Sizes
<1>5. CASE (\E fails \in BOOLEAN : Fallback(fails)) \/ FallbackBlind
  <2>1. pc = "fallback" /\ pc' \in {"done", "failed"}
    BY <1>5 DEF Fallback, FallbackBlind
  <2> QED
    BY <2>1, RoundsOf, RoundsOfNext, Sizes
<1>6. CASE \E a \in FilesAnswer : FetchFiles(a.page, a.count)
  <2>1. /\ pc = "files"
        /\ \/ pc' \in {"derive", "fallback"}
           \/ pc' = "files" /\ offset < offset'
    BY <1>6, FilesRound
  <2>2. CASE pc' = "derive"
    BY <2>1, <2>2, RoundsWithin, RoundsOfNext
  <2>3. CASE pc' = "files" /\ offset < offset'
    <3>1. ScanTypes'
      BY <1>6, FetchFilesBooks
    <3>2. offset \in Nat /\ offset' \in Nat
      BY <3>1 DEF ScanBooks, ScanTypeOK, ScanTypes
    <3>3. Rounds = 1 + offset /\ Rounds' = 1 + offset'
      BY <2>1, <2>3, RoundsOf, RoundsOfNext
    <3>4. offset < offset'
      BY <2>3
    <3>5. 1 + offset < 1 + offset'
      BY <3>2, <3>4, OneMore
    <3> QED
      BY <3>3, <3>5
  <2> QED
    BY <1>1, <2>1, <2>2, <2>3
<1> QED
  BY <1>2, <1>3, <1>4, <1>5, <1>6, DirsRound, LoopRound DEF Step

\* Nobody else makes, or undoes, a round.
LEMMA OnlyTheScan ==
    ASSUME User \/ RequestCancel \/ UNCHANGED scanVars
    PROVE  Rounds' = Rounds
<1>1. UNCHANGED <<pc, offset, pageNo, paths, climbing, parts>>
  BY UserScan DEF RequestCancel, scanVars, scan, climb
<1>2. Known' = Known
  BY <1>1 DEF Known
<1> QED
  BY <1>1, <1>2 DEF Rounds, PathRounds, BeforePaths, BeforeWalk

\* The scan gets on with every step and never needs more than
\*     files + MAX_DIRS_PAGES + 4 + (directories + 1) * (directories + 2)
\* of them, whatever 115 answers and the user changes, as long as at most one
\* thing is moved: none of its three loops goes on for ever (fast_scan.py:142,
\* 199 and 47).  With the fairness of ScanSpec this is why ScanEnds holds.
THEOREM ScanGetsOn ==
    ScanSpec => /\ [](Rounds \in 0..(BeforeWalk + 1))
                /\ [][/\ moves <= 1 /\ Step => Rounds < Rounds'
                      /\ ~Step => Rounds' = Rounds]_scanVars
<1>1. ScanInit => OffsetInList
  BY DEF ScanInit, OffsetInList
<1>2. ScanBooks /\ Rises /\ OffsetInList => Rounds \in 0..(BeforeWalk + 1)
  BY RoundsWithin, Sizes
<1>3. ScanBooks /\ Rises /\ OffsetInList /\ [ScanNext]_scanVars
        => [/\ moves <= 1 /\ Step => Rounds < Rounds'
            /\ ~Step => Rounds' = Rounds]_scanVars
  BY EveryRound, OnlyTheScan DEF ScanNext
<1> QED
  BY <1>1, <1>2, <1>3, OffsetStep, BooksHold, RisesHold, PTL DEF ScanSpec

=============================================================================

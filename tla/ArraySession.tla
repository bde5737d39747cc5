---------------------------- MODULE ArraySession -----------------------------
(***************************************************************************)
(* arraySession (internal/proxy/array.go): the token the shim's handlers   *)
(* share for their calls to the array.  A handler that finds no token      *)
(* logs in; one whose call is answered 401 logs in and calls once more.    *)
(* The mutex guards single reads and writes of the token only, so          *)
(* handlers log in side by side, and a slow one stores its token over a    *)
(* newer one.                                                              *)
(*                                                                         *)
(* The array accepts the tokens of valid and may end any of them.  A token *)
(* that is still known to somebody is never issued again; any other may    *)
(* be, so a finite set stands for all tokens.                              *)
(***************************************************************************)
EXTENDS Naturals, FiniteSets

CONSTANTS
  Calls,         \* the handlers' calls to do
  Tokens, NoToken,
  MaxExpiries,   \* bound: tokens the array ends
  MaxFaults,     \* bound: logins that fail, calls that are lost or time out
  MaxRestarts    \* bound: restarts of the shim

ASSUME SessionAssumption ==
  /\ NoToken \notin Tokens
  /\ MaxExpiries \in Nat /\ MaxFaults \in Nat /\ MaxRestarts \in Nat

VARIABLES
  auth,     \* s.auth
  valid,    \* the tokens the array accepts
  pc,       \* per call: where do is
  attempt,  \* per call: "first" call, "second" after a 401, or the login of "validate"
  held,     \* per call: the token its login returned, or its request carries
  runs,     \* per call: how often the array has carried it out
  result,   \* per call: what do returned
  late,     \* per call: the token of its request, if given up but still on its way
  booted,   \* NewRewriter's goroutine has started its login
  expiries, faults, restarts

vars == <<auth, valid, pc, attempt, held, runs, result, late, booted, expiries, faults, restarts>>

NoTokens == [c \in Calls |-> NoToken]

Init ==
  /\ auth = NoToken /\ valid = {}
  /\ pc = [c \in Calls |-> "idle"]
  /\ attempt = [c \in Calls |-> "first"]
  /\ held = NoTokens
  /\ runs = [c \in Calls |-> 0]
  /\ result = [c \in Calls |-> "none"]
  /\ late = NoTokens
  /\ booted = FALSE
  /\ expiries = 0 /\ faults = 0 /\ restarts = 0

\* The tokens the shim or a request on its way still carries.
remembered == {auth} \union {held[c] : c \in Calls} \union {late[c] : c \in Calls}

\* c is not in use, nor is a request of its last use on its way.
free(c) == pc[c] = "idle" /\ late[c] = NoToken

-----------------------------------------------------------------------------
\* Seeded bug: do does not look whether there is a token.
Begin_bug(c) ==
  /\ free(c)
  /\ pc' = [pc EXCEPT ![c] = "call"]
  /\ runs' = [runs EXCEPT ![c] = 0]
  /\ result' = [result EXCEPT ![c] = "none"]
  /\ UNCHANGED <<auth, valid, attempt, held, late, booted, expiries, faults, restarts>>

\* do is called.
Begin(c) ==
  /\ free(c)
  /\ pc' = [pc EXCEPT ![c] = IF auth = NoToken THEN "login" ELSE "call"]
  /\ runs' = [runs EXCEPT ![c] = 0]
  /\ result' = [result EXCEPT ![c] = "none"]
  /\ UNCHANGED <<auth, valid, attempt, held, late, booted, expiries, faults, restarts>>

\* validate: NewRewriter's goroutine logs in once.
Validate(c) ==
  /\ free(c) /\ ~booted
  /\ booted' = TRUE
  /\ pc' = [pc EXCEPT ![c] = "login"]
  /\ attempt' = [attempt EXCEPT ![c] = "validate"]
  /\ UNCHANGED <<auth, valid, held, runs, result, late, expiries, faults, restarts>>

\* login: the array issues a token ...
LoginAnswered(c) ==
  /\ pc[c] = "login"
  /\ \E tok \in Tokens \ remembered :
       /\ valid' = valid \union {tok}
       /\ held' = [held EXCEPT ![c] = tok]
  /\ pc' = [pc EXCEPT ![c] = "store"]
  /\ UNCHANGED <<auth, attempt, runs, result, late, booted, expiries, faults, restarts>>

\* Seeded bug: the token is used for this call but not kept.
LoginStore_bug(c) ==
  /\ pc[c] = "store"
  /\ auth' = (IF auth = NoToken THEN held[c] ELSE auth)
  /\ held' = [held EXCEPT ![c] = NoToken]
  /\ pc' = [pc EXCEPT ![c] = IF attempt[c] = "validate" THEN "idle" ELSE "call"]
  /\ attempt' = [attempt EXCEPT ![c] = IF @ = "validate" THEN "first" ELSE @]
  /\ UNCHANGED <<valid, runs, result, late, booted, expiries, faults, restarts>>

\* ... that login stores some time later, whatever has been stored since.
LoginStore(c) ==
  /\ pc[c] = "store"
  /\ auth' = held[c]
  /\ held' = [held EXCEPT ![c] = NoToken]
  /\ pc' = [pc EXCEPT ![c] = IF attempt[c] = "validate" THEN "idle" ELSE "call"]
  /\ attempt' = [attempt EXCEPT ![c] = IF @ = "validate" THEN "first" ELSE @]
  /\ UNCHANGED <<valid, runs, result, late, booted, expiries, faults, restarts>>

\* do returns r for c.
Returns(c, r) ==
  /\ pc' = [pc EXCEPT ![c] = "idle"]
  /\ attempt' = [attempt EXCEPT ![c] = "first"]
  /\ held' = [held EXCEPT ![c] = NoToken]
  /\ result' = [result EXCEPT ![c] = r]
  /\ UNCHANGED <<auth, valid, runs, booted, expiries, restarts>>

\* login fails: so does do; validate only logs it.
LoginFails(c) ==
  /\ pc[c] = "login" /\ faults < MaxFaults
  /\ faults' = faults + 1
  /\ Returns(c, IF attempt[c] = "validate" THEN result[c] ELSE "error")
  /\ UNCHANGED late

\* The request is made with the token of the moment, not with the one this call logged in for.
Send(c) ==
  /\ pc[c] = "call"
  /\ held' = [held EXCEPT ![c] = auth]
  /\ pc' = [pc EXCEPT ![c] = "sent"]
  /\ UNCHANGED <<auth, valid, attempt, runs, result, late, booted, expiries, faults, restarts>>

\* The array carries the call out, or answers 401.
ArrayRuns(c) ==
  /\ pc[c] = "sent"
  /\ IF held[c] \in valid
     THEN /\ runs' = [runs EXCEPT ![c] = @ + 1]
          /\ pc' = [pc EXCEPT ![c] = "answered"]
     ELSE /\ pc' = [pc EXCEPT ![c] = "rejected"]
          /\ UNCHANGED runs
  /\ UNCHANGED <<auth, valid, attempt, held, result, late, booted, expiries, faults, restarts>>

\* do returns the answer.
Answered(c) ==
  /\ pc[c] = "answered"
  /\ Returns(c, "done")
  /\ UNCHANGED <<late, faults>>

\* The first 401: log in and call again.
Retry(c) ==
  /\ pc[c] = "rejected" /\ attempt[c] = "first"
  /\ attempt' = [attempt EXCEPT ![c] = "second"]
  /\ held' = [held EXCEPT ![c] = NoToken]
  /\ pc' = [pc EXCEPT ![c] = "login"]
  /\ UNCHANGED <<auth, valid, runs, result, late, booted, expiries, faults, restarts>>

\* The second 401 is the answer.
Unauthorized(c) ==
  /\ pc[c] = "rejected" /\ attempt[c] = "second"
  /\ Returns(c, "unauthorized")
  /\ UNCHANGED <<late, faults>>

\* Seeded bug: a call that fails is made again, as one that is answered 401 is.
CallFails_bug(c) ==
  /\ pc[c] \in {"sent", "answered", "rejected"} /\ faults < MaxFaults
  /\ faults' = faults + 1
  /\ attempt' = [attempt EXCEPT ![c] = "second"]
  /\ held' = [held EXCEPT ![c] = NoToken]
  /\ pc' = [pc EXCEPT ![c] = "login"]
  /\ UNCHANGED <<auth, valid, runs, result, late, booted, expiries, restarts>>

\* The request or its answer is lost or times out: do returns the error.
CallFails(c) ==
  /\ pc[c] \in {"sent", "answered", "rejected"} /\ faults < MaxFaults
  /\ faults' = faults + 1
  /\ late' \in {late} \union (IF pc[c] = "sent" THEN {[late EXCEPT ![c] = held[c]]} ELSE {})
  /\ Returns(c, "error")

\* A request do has given up reaches the array, or never will.
LateArrives(c) ==
  /\ late[c] # NoToken
  /\ late' = [late EXCEPT ![c] = NoToken]
  /\ runs' \in {runs} \union (IF late[c] \in valid THEN {[runs EXCEPT ![c] = @ + 1]} ELSE {})
  /\ UNCHANGED <<auth, valid, pc, attempt, held, result, booted, expiries, faults, restarts>>

\* The array ends a session.
Expire(tok) ==
  /\ tok \in valid /\ expiries < MaxExpiries
  /\ valid' = valid \ {tok}
  /\ expiries' = expiries + 1
  /\ UNCHANGED <<auth, pc, attempt, held, runs, result, late, booted, faults, restarts>>

\* Calls of do that are under way (the login of validate is none).
underway == {c \in Calls : pc[c] # "idle" /\ attempt[c] # "validate"}

\* The shim restarts: the token and the handlers are gone, requests they made may arrive late.
Restart ==
  /\ restarts < MaxRestarts
  /\ restarts' = restarts + 1
  /\ auth' = NoToken /\ booted' = FALSE
  /\ \E onWay \in SUBSET {c \in Calls : pc[c] = "sent"} :
       late' = [c \in Calls |-> IF c \in onWay THEN held[c] ELSE late[c]]
  /\ result' = [c \in Calls |-> IF c \in underway THEN "error" ELSE result[c]]
  /\ pc' = [c \in Calls |-> "idle"]
  /\ attempt' = [c \in Calls |-> "first"]
  /\ held' = NoTokens
  /\ UNCHANGED <<valid, runs, expiries, faults>>

-----------------------------------------------------------------------------
\* The steps of a call that is under way, and of its login.
Step(c) ==
  \/ LoginAnswered(c) \/ LoginStore(c) \/ Send(c) \/ ArrayRuns(c)
  \/ Answered(c) \/ Retry(c) \/ Unauthorized(c)

Next ==
  \/ \E c \in Calls : \/ Begin(c) \/ Validate(c) \/ Step(c)
                      \/ LoginFails(c) \/ CallFails(c) \/ LateArrives(c)
  \/ \E tok \in Tokens : Expire(tok)
  \/ Restart

Spec == Init /\ [][Next]_vars

\* Handlers run on, and every request is answered or times out.
FairSpec == Spec /\ \A c \in Calls : WF_vars(Step(c) \/ LoginFails(c) \/ CallFails(c))

-----------------------------------------------------------------------------
Locations == {"idle", "login", "store", "call", "sent", "answered", "rejected"}

(***************************************************************************)
(* Every variable has its type; in particular no request is ever made      *)
(* without a token, although do reads the token twice.                     *)
(***************************************************************************)
TypeOK ==
  /\ auth \in Tokens \union {NoToken} /\ valid \subseteq Tokens
  /\ pc \in [Calls -> Locations]
  /\ attempt \in [Calls -> {"first", "second", "validate"}]
  /\ held \in [Calls -> Tokens \union {NoToken}]
  /\ runs \in [Calls -> Nat]
  /\ result \in [Calls -> {"none", "done", "unauthorized", "error"}]
  /\ late \in [Calls -> Tokens \union {NoToken}]
  /\ booted \in BOOLEAN
  /\ expiries \in 0 .. MaxExpiries /\ faults \in 0 .. MaxFaults /\ restarts \in 0 .. MaxRestarts
  /\ \A c \in Calls : pc[c] = "sent" => held[c] # NoToken

(***************************************************************************)
(* What the caller of do sees of a call: do's second call after a 401, its *)
(* logins and the tokens are hidden.                                       *)
(***************************************************************************)
phase ==
  [c \in Calls |-> IF c \in underway THEN "asked"
                   ELSE IF late[c] # NoToken THEN "left" ELSE "idle"]

Promise == INSTANCE ArrayCall WITH Calls <- Calls, phase <- phase, runs <- runs, result <- result

(***************************************************************************)
(* One call to do is at most one call to the array, also when it is made   *)
(* twice, when its answer is lost, when it arrives after do has returned   *)
(* its timeout, or after a restart; and what do returns says whether the   *)
(* array has carried it out.                                               *)
(***************************************************************************)
AtMostOnce == Promise!Spec

(***************************************************************************)
(* "retrying once on 401" is enough for a session that ends: as long as no *)
(* second one does, no caller ever sees a 401, whichever handlers hold     *)
(* what tokens, log in side by side and are slow to store what they got.   *)
(***************************************************************************)
OneExpiryIsHidden == expiries < 2 => \A c \in Calls : result[c] # "unauthorized"

(***************************************************************************)
(* The session heals: once the array ends no more sessions, from some time *)
(* on no call to do returns a 401, although handlers that were slow to     *)
(* store a token that is no longer valid do so over a newer one.           *)
(***************************************************************************)
SessionHeals ==
  <>[][\A c \in Calls : result'[c] = "unauthorized" => result[c] = "unauthorized"]_vars
=============================================================================

-------------------------- MODULE ArraySessionProofs --------------------------
(***************************************************************************)
(* ArraySession implements ArrayCall for any number of handlers, tokens,   *)
(* expiries, faults and restarts.  The refinement needs to know where in   *)
(* do the array can have carried the call out (SessionInv): only between   *)
(* the answer that says so and the return, never before a retry.  That one *)
(* ended session is hidden needs to know who can know which token          *)
(* (ExpiryInv).                                                            *)
(***************************************************************************)
EXTENDS ArraySession, TLAPS

CallInv(c) ==
  /\ attempt[c] = "validate" => pc[c] \in {"login", "store"}
  /\ pc[c] = "store" => held[c] \in Tokens
  /\ pc[c] \in {"call", "sent", "answered", "rejected"} => auth # NoToken
  /\ pc[c] # "idle" /\ attempt[c] # "validate" /\ pc[c] # "answered" => runs[c] = 0
  /\ pc[c] = "answered" => runs[c] = 1
  /\ late[c] # NoToken => pc[c] = "idle" /\ runs[c] = 0

SessionInv == TypeOK /\ \A c \in Calls : CallInv(c)

LEMMA InitSession == Init => SessionInv
<1> SUFFICES ASSUME Init PROVE SessionInv
  OBVIOUS
<1>1. TypeOK
  <2>1. auth = NoToken /\ valid = {} /\ booted = FALSE
    BY DEF Init
  <2>2. /\ pc \in [Calls -> Locations] /\ attempt \in [Calls -> {"first", "second", "validate"}]
        /\ held \in [Calls -> Tokens \union {NoToken}] /\ late \in [Calls -> Tokens \union {NoToken}]
        /\ runs \in [Calls -> Nat]
        /\ result \in [Calls -> {"none", "done", "unauthorized", "error"}]
        /\ \A c \in Calls : pc[c] # "sent"
    BY DEF Init, Locations, NoTokens
  <2>3. expiries \in 0 .. MaxExpiries /\ faults \in 0 .. MaxFaults /\ restarts \in 0 .. MaxRestarts
    BY SessionAssumption DEF Init
  <2> QED BY <2>1, <2>2, <2>3 DEF TypeOK
<1>2. \A c \in Calls : CallInv(c)
  BY DEF Init, CallInv, NoTokens
<1> QED BY <1>1, <1>2 DEF SessionInv

LEMMA StepSession == SessionInv /\ [Next]_vars => SessionInv'
<1> SUFFICES ASSUME SessionInv, [Next]_vars PROVE SessionInv'
  OBVIOUS
<1> USE SessionAssumption DEF SessionInv, TypeOK, CallInv, Locations
<1>1. ASSUME NEW c \in Calls, Begin(c) PROVE SessionInv'
  BY <1>1 DEF Begin, free
<1>2. ASSUME NEW c \in Calls, Validate(c) PROVE SessionInv'
  BY <1>2 DEF Validate, free
<1>3. ASSUME NEW c \in Calls, LoginAnswered(c) PROVE SessionInv'
  BY <1>3 DEF LoginAnswered
<1>4. ASSUME NEW c \in Calls, LoginStore(c) PROVE SessionInv'
  BY <1>4 DEF LoginStore
<1>5. ASSUME NEW c \in Calls, Send(c) PROVE SessionInv'
  BY <1>5 DEF Send
<1>6. ASSUME NEW c \in Calls, ArrayRuns(c) PROVE SessionInv'
  BY <1>6 DEF ArrayRuns
<1>7. ASSUME NEW c \in Calls, Answered(c) PROVE SessionInv'
  BY <1>7 DEF Answered, Returns
<1>8. ASSUME NEW c \in Calls, Retry(c) PROVE SessionInv'
  BY <1>8 DEF Retry
<1>9. ASSUME NEW c \in Calls, Unauthorized(c) PROVE SessionInv'
  BY <1>9 DEF Unauthorized, Returns
<1>10. ASSUME NEW c \in Calls, LoginFails(c) PROVE SessionInv'
  BY <1>10 DEF LoginFails, Returns
<1>11. ASSUME NEW c \in Calls, CallFails(c) PROVE SessionInv'
  BY <1>11 DEF CallFails, Returns
<1>12. ASSUME NEW c \in Calls, LateArrives(c) PROVE SessionInv'
  BY <1>12 DEF LateArrives
<1>13. ASSUME NEW tok \in Tokens, Expire(tok) PROVE SessionInv'
  BY <1>13 DEF Expire
<1>14. CASE Restart
  <2>1. PICK onWay \in SUBSET {c \in Calls : pc[c] = "sent"} :
          late' = [c \in Calls |-> IF c \in onWay THEN held[c] ELSE late[c]]
    BY <1>14 DEF Restart
  <2>2. /\ pc' = [c \in Calls |-> "idle"] /\ attempt' = [c \in Calls |-> "first"]
        /\ held' = [c \in Calls |-> NoToken] /\ auth' = NoToken /\ valid' = valid
        /\ runs' = runs /\ expiries' = expiries /\ faults' = faults /\ booted' = FALSE
    BY <1>14 DEF Restart, NoTokens
  <2>3. result' \in [Calls -> {"none", "done", "unauthorized", "error"}]
    BY <1>14 DEF Restart
  <2>4. restarts' \in 0 .. MaxRestarts
    BY <1>14 DEF Restart
  <2>5. late' \in [Calls -> Tokens \union {NoToken}]
    BY <2>1
  <2>6. \A c \in Calls : late'[c] # NoToken => runs'[c] = 0
    BY <2>1, <2>2
  <2> QED BY <2>2, <2>3, <2>4, <2>5, <2>6
<1>15. CASE UNCHANGED vars
  BY <1>15 DEF vars
<1> QED
  BY <1>1, <1>2, <1>3, <1>4, <1>5, <1>6, <1>7, <1>8, <1>9, <1>10, <1>11, <1>12, <1>13, <1>14, <1>15
     DEF Next, Step

(***************************************************************************)
(* ArraySession is type correct, and never makes a request without a token *)
(* although do reads the shared token twice, for any number of handlers.   *)
(***************************************************************************)
THEOREM SessionTypeCorrect == Spec => []TypeOK
<1>1. Spec => []SessionInv
  BY InitSession, StepSession, PTL DEF Spec
<1>2. SessionInv => TypeOK
  BY DEF SessionInv
<1> QED BY <1>1, <1>2, PTL

-----------------------------------------------------------------------------
LEMMA InitPromise == Init => Promise!Init
BY DEF Init, Promise!Init, phase, underway, NoTokens

\* Every step of do is a step of the promise, or invisible to the caller.
LEMMA StepPromise == SessionInv /\ [Next]_vars => [Promise!Next]_(Promise!vars)
<1> SUFFICES ASSUME SessionInv, [Next]_vars PROVE Promise!Next \/ UNCHANGED Promise!vars
  OBVIOUS
<1> USE DEF SessionInv, TypeOK, CallInv, phase, underway
<1>1. ASSUME NEW c \in Calls, Begin(c) PROVE Promise!Next
  <2>1. Promise!Ask(c)
    BY <1>1 DEF Begin, free, Promise!Ask
  <2> QED BY <2>1 DEF Promise!Next
<1>2. ASSUME NEW c \in Calls, Validate(c) PROVE UNCHANGED Promise!vars
  BY <1>2 DEF Validate, free, Promise!vars
<1>3. ASSUME NEW c \in Calls, LoginAnswered(c) \/ LoginStore(c) \/ Send(c) \/ Retry(c)
      PROVE  UNCHANGED Promise!vars
  BY <1>3 DEF LoginAnswered, LoginStore, Send, Retry, Promise!vars
<1>4. ASSUME NEW c \in Calls, ArrayRuns(c) PROVE Promise!Next \/ UNCHANGED Promise!vars
  <2>1. CASE held[c] \in valid
    <3>1. Promise!Run(c)
      BY <1>4, <2>1 DEF ArrayRuns, Promise!Run
    <3> QED BY <3>1 DEF Promise!Next
  <2>2. CASE held[c] \notin valid
    BY <1>4, <2>2 DEF ArrayRuns, Promise!vars
  <2> QED BY <2>1, <2>2
<1>5. ASSUME NEW c \in Calls, Answered(c) \/ Unauthorized(c) PROVE Promise!Next
  <2>1. CASE Answered(c)
    <3>1. phase[c] = "asked" /\ runs[c] = 1
      BY <2>1 DEF Answered
    <3>2. phase' = [phase EXCEPT ![c] = "idle"]
      BY <2>1 DEF Answered, Returns
    <3>3. result' = [result EXCEPT ![c] = "done"] /\ runs' = runs
      BY <2>1 DEF Answered, Returns
    <3> HIDE DEF phase
    <3>4. Promise!Return(c)
      BY <3>1, <3>2, <3>3 DEF Promise!Return
    <3> QED BY <3>4 DEF Promise!Next
  <2>2. CASE Unauthorized(c)
    <3>1. phase[c] = "asked" /\ runs[c] = 0
      BY <2>2 DEF Unauthorized
    <3>2. phase' = [phase EXCEPT ![c] = "idle"]
      BY <2>2 DEF Unauthorized, Returns
    <3>3. result' = [result EXCEPT ![c] = "unauthorized"] /\ runs' = runs
      BY <2>2 DEF Unauthorized, Returns
    <3> HIDE DEF phase
    <3>4. Promise!Return(c)
      BY <3>1, <3>2, <3>3 DEF Promise!Return
    <3> QED BY <3>4 DEF Promise!Next
  <2> QED BY <1>5, <2>1, <2>2
<1>6. ASSUME NEW c \in Calls, LoginFails(c) PROVE Promise!Next \/ UNCHANGED Promise!vars
  <2>1. CASE attempt[c] = "validate"
    BY <1>6, <2>1 DEF LoginFails, Returns, Promise!vars
  <2>2. CASE attempt[c] # "validate"
    <3>1. Promise!Abandon({c}, {})
      BY <1>6, <2>2 DEF LoginFails, Returns, Promise!Abandon
    <3> QED BY <3>1 DEF Promise!Next
  <2> QED BY <2>1, <2>2
<1>7. ASSUME NEW c \in Calls, CallFails(c) PROVE Promise!Next
  <2>1. CASE late' = late
    <3>1. Promise!Abandon({c}, {})
      BY <1>7, <2>1 DEF CallFails, Returns, Promise!Abandon
    <3> QED BY <3>1 DEF Promise!Next
  <2>2. CASE late' # late
    <3>1. pc[c] = "sent" /\ late' = [late EXCEPT ![c] = held[c]]
      BY <1>7, <2>2 DEF CallFails
    <3>2. Promise!Abandon({c}, {c})
      BY <1>7, <3>1 DEF CallFails, Returns, Promise!Abandon
    <3> QED BY <3>2 DEF Promise!Next
  <2> QED BY <2>1, <2>2
<1>8. ASSUME NEW c \in Calls, LateArrives(c) PROVE Promise!Next
  <2>1. CASE runs' = runs
    <3>1. Promise!Drop(c)
      BY <1>8, <2>1 DEF LateArrives, Promise!Drop
    <3> QED BY <3>1 DEF Promise!Next
  <2>2. CASE runs' # runs
    <3>1. runs' = [runs EXCEPT ![c] = @ + 1]
      BY <1>8, <2>2 DEF LateArrives
    <3>2. phase[c] = "left" /\ runs[c] = 0 /\ pc[c] = "idle"
      BY <1>8 DEF LateArrives
    <3>3. phase' = [phase EXCEPT ![c] = "idle"] /\ result' = result
      BY <1>8, <3>2 DEF LateArrives
    <3>4. runs' = [runs EXCEPT ![c] = 1]
      BY <3>1, <3>2
    <3> HIDE DEF phase
    <3>5. Promise!Run(c)
      BY <3>2, <3>3, <3>4 DEF Promise!Run
    <3> QED BY <3>5 DEF Promise!Next
  <2> QED BY <2>1, <2>2
<1>9. ASSUME NEW tok \in Tokens, Expire(tok) PROVE UNCHANGED Promise!vars
  BY <1>9 DEF Expire, Promise!vars
<1>10. CASE Restart
  <2>1. PICK onWay \in SUBSET {c \in Calls : pc[c] = "sent"} :
          late' = [c \in Calls |-> IF c \in onWay THEN held[c] ELSE late[c]]
    BY <1>10 DEF Restart
  <2>2. Promise!Abandon(underway, onWay)
    BY <1>10, <2>1 DEF Restart, Promise!Abandon
  <2> QED BY <2>2 DEF Promise!Next
<1>11. CASE UNCHANGED vars
  BY <1>11 DEF vars, Promise!vars
<1> QED
  BY <1>1, <1>2, <1>3, <1>4, <1>5, <1>6, <1>7, <1>8, <1>9, <1>10, <1>11 DEF Next, Step

(***************************************************************************)
(* AtMostOnce: to its caller, arraySession.do is one call the array        *)
(* carries out at most once, whatever tokens expire, however many handlers *)
(* log in at a time, whatever is lost, late or cut short by a restart.     *)
(***************************************************************************)
THEOREM DoIsOneCall == Spec => AtMostOnce
<1>1. Spec => []SessionInv
  BY InitSession, StepSession, PTL DEF Spec
<1> QED BY <1>1, InitPromise, StepPromise, PTL DEF Spec, AtMostOnce, Promise!Spec
-----------------------------------------------------------------------------
(***************************************************************************)
(* Why one ended session is hidden.  A token that waits to be stored is    *)
(* known to nobody else, so the ended one that a first call was rejected   *)
(* with, which came from auth, is not among them: whoever stores next      *)
(* stores a valid token, and the second call is made with one.             *)
(***************************************************************************)
\* Tokens somebody carries that the array has ended.
dead == remembered \ ({NoToken} \union valid)

othersKnow(c) == {auth} \union {held[d] : d \in Calls \ {c}} \union {late[d] : d \in Calls}

\* Nobody else knows the token that c is about to store.
Fresh(c) == pc[c] = "store" => held[c] \notin othersKnow(c)

\* The second call of c will not be rejected.
Safe(c) ==
  /\ expiries = 1
  /\ \A d \in Calls : pc[d] = "store" => held[d] \in valid
  /\ pc[c] = "call" => auth \in valid
  /\ pc[c] = "sent" => held[c] \in valid
  /\ pc[c] # "rejected"

Hidden(c) ==
  /\ pc[c] = "idle" => attempt[c] # "second"
  /\ pc[c] = "rejected" => held[c] \in dead
  /\ attempt[c] = "second" /\ expiries < 2 => Safe(c)

ExpiryInv ==
  /\ expiries = 0 => dead = {}
  /\ expiries < 2 => \A x, y \in dead : x = y
  /\ \A c \in Calls : Fresh(c) /\ Hidden(c)
  /\ OneExpiryIsHidden

LEMMA InitExpiry == Init => ExpiryInv
<1> SUFFICES ASSUME Init PROVE ExpiryInv
  OBVIOUS
<1>1. dead = {}
  BY DEF Init, NoTokens, dead, remembered
<1>2. \A c \in Calls : pc[c] = "idle" /\ attempt[c] = "first" /\ result[c] = "none"
  BY DEF Init
<1> QED BY <1>1, <1>2 DEF ExpiryInv, Fresh, Hidden, OneExpiryIsHidden

\* A step that ends no session leaves no more ended tokens behind than there were, and those
\* that stay known stay ended.
LEMMA DeadStay ==
  ASSUME SessionInv, [Next]_vars, expiries' = expiries
  PROVE  /\ dead' \subseteq dead
         /\ \A c \in Calls : held[c] \in dead /\ held'[c] = held[c] => held'[c] \in dead'
<1> SUFFICES
      /\ \A x \in remembered' : x \in remembered \/ x \in valid' \/ x = NoToken
      /\ valid \subseteq valid'
      /\ \A x \in valid' : x \in valid \/ x \notin remembered
  BY DEF dead, remembered
<1> USE SessionAssumption DEF SessionInv, TypeOK
<1>1. ASSUME NEW c \in Calls, NEW tok \in Tokens \ remembered, valid' = valid \union {tok},
             held' = [held EXCEPT ![c] = tok], UNCHANGED <<auth, late>>
      PROVE  /\ \A x \in remembered' : x \in remembered \/ x \in valid' \/ x = NoToken
             /\ valid \subseteq valid'
             /\ \A x \in valid' : x \in valid \/ x \notin remembered
  BY <1>1 DEF remembered
<1>2. ASSUME valid' = valid,
             auth' \in {auth, NoToken} \union {held[c] : c \in Calls},
             \A c \in Calls : held'[c] \in {held[c], NoToken, auth},
             \A c \in Calls : late'[c] \in {late[c], NoToken, held[c]}
      PROVE  /\ \A x \in remembered' : x \in remembered \/ x \in valid' \/ x = NoToken
             /\ valid \subseteq valid'
             /\ \A x \in valid' : x \in valid \/ x \notin remembered
  BY <1>2 DEF remembered
<1>3. ASSUME NEW c \in Calls,
             \/ Begin(c) \/ Validate(c) \/ LoginStore(c) \/ Send(c) \/ ArrayRuns(c) \/ Answered(c)
             \/ Retry(c) \/ Unauthorized(c) \/ LoginFails(c) \/ LateArrives(c)
      PROVE  /\ valid' = valid
             /\ auth' \in {auth, NoToken} \union {held[d] : d \in Calls}
             /\ \A d \in Calls : held'[d] \in {held[d], NoToken, auth}
             /\ \A d \in Calls : late'[d] \in {late[d], NoToken, held[d]}
  BY <1>3 DEF Begin, Validate, LoginStore, Send, ArrayRuns, Answered, Retry, Unauthorized,
              LoginFails, LateArrives, Returns
<1>4. ASSUME NEW c \in Calls, CallFails(c)
      PROVE  /\ valid' = valid
             /\ auth' \in {auth, NoToken} \union {held[d] : d \in Calls}
             /\ \A d \in Calls : held'[d] \in {held[d], NoToken, auth}
             /\ \A d \in Calls : late'[d] \in {late[d], NoToken, held[d]}
  BY <1>4 DEF CallFails, Returns
<1>5. CASE Restart
  BY <1>2, <1>5 DEF Restart, NoTokens
<1>6. CASE UNCHANGED vars
  BY <1>2, <1>6 DEF vars
<1>7. ASSUME NEW tok \in Tokens, Expire(tok) PROVE FALSE
  BY <1>7 DEF Expire
<1> QED BY <1>1, <1>2, <1>3, <1>4, <1>5, <1>6, <1>7 DEF Next, Step, LoginAnswered

\* Who is about to store a token either got it from the array now or had it already.
LEMMA StepFresh ==
  ASSUME SessionInv, [Next]_vars, \A c \in Calls : Fresh(c), NEW d \in Calls PROVE Fresh(d)'
<1> SUFFICES ASSUME pc'[d] = "store" PROVE held'[d] \notin othersKnow(d)'
  BY DEF Fresh
<1> USE SessionAssumption DEF SessionInv, TypeOK, CallInv
<1>1. ASSUME NEW c \in Calls, LoginAnswered(c) PROVE held'[d] \notin othersKnow(d)'
  <2>1. PICK tok \in Tokens \ remembered : held' = [held EXCEPT ![c] = tok]
    BY <1>1 DEF LoginAnswered
  <2>2. auth' = auth /\ late' = late /\ pc' = [pc EXCEPT ![c] = "store"]
    BY <1>1 DEF LoginAnswered
  <2>3. CASE c = d
    <3>1. held'[d] = tok
      BY <2>1, <2>3
    <3>2. othersKnow(d)' \subseteq remembered
      BY <2>1, <2>2, <2>3 DEF othersKnow, remembered
    <3> QED BY <3>1, <3>2
  <2>4. CASE c # d
    <3>1. held'[d] = held[d] /\ held[d] \notin othersKnow(d) /\ held[d] \in remembered
      BY <2>1, <2>2, <2>4 DEF Fresh, remembered
    <3>2. othersKnow(d)' \subseteq othersKnow(d) \union {tok}
      BY <2>1, <2>2, <2>4 DEF othersKnow
    <3> QED BY <3>1, <3>2
  <2> QED BY <2>3, <2>4
<1>2. ASSUME pc[d] = "store", held'[d] = held[d],
             auth' \in {auth, NoToken} \union {held[c] : c \in Calls \ {d}},
             \A c \in Calls \ {d} : held'[c] \in {held[c], NoToken, auth},
             \A c \in Calls : late'[c] \in {late[c], NoToken} \/ (c # d /\ late'[c] = held[c])
      PROVE  held'[d] \notin othersKnow(d)'
  <2>1. held[d] \notin othersKnow(d) /\ held[d] # NoToken
    BY <1>2 DEF Fresh
  <2>2. othersKnow(d)' \subseteq othersKnow(d) \union {NoToken}
    BY <1>2 DEF othersKnow
  <2> QED BY <1>2, <2>1, <2>2
<1>3. ASSUME NEW c \in Calls,
             \/ Begin(c) \/ Validate(c) \/ LoginStore(c) \/ Send(c) \/ ArrayRuns(c) \/ Answered(c)
             \/ Retry(c) \/ Unauthorized(c) \/ LoginFails(c) \/ CallFails(c) \/ LateArrives(c)
      PROVE  /\ c # d /\ pc[d] = "store" /\ held'[d] = held[d]
             /\ auth' \in {auth, NoToken} \union {held[e] : e \in Calls \ {d}}
             /\ \A e \in Calls \ {d} : held'[e] \in {held[e], NoToken, auth}
  BY <1>3 DEF Begin, Validate, LoginStore, Send, ArrayRuns, Answered, Retry, Unauthorized,
              LoginFails, CallFails, LateArrives, Returns, free
<1>4. ASSUME NEW c \in Calls, c # d,
             \/ Begin(c) \/ Validate(c) \/ LoginStore(c) \/ Send(c) \/ ArrayRuns(c) \/ Answered(c)
             \/ Retry(c) \/ Unauthorized(c) \/ LoginFails(c) \/ CallFails(c) \/ LateArrives(c)
      PROVE  \A e \in Calls : late'[e] \in {late[e], NoToken} \/ (e # d /\ late'[e] = held[e])
  <2>1. late' = late \/ late' = [late EXCEPT ![c] = held[c]] \/ late' = [late EXCEPT ![c] = NoToken]
    BY <1>4 DEF Begin, Validate, LoginStore, Send, ArrayRuns, Answered, Retry, Unauthorized,
                LoginFails, CallFails, LateArrives, Returns
  <2>2. ASSUME NEW e \in Calls
        PROVE  late'[e] \in {late[e], NoToken} \/ (e # d /\ late'[e] = held[e])
    <3>1. CASE e = c
      BY <1>4, <2>1, <3>1
    <3>2. CASE e # c
      BY <2>1, <3>2
    <3> QED BY <3>1, <3>2
  <2> QED BY <2>2
<1>5. ASSUME UNCHANGED <<auth, pc, held, late>> PROVE held'[d] \notin othersKnow(d)'
  BY <1>5 DEF Fresh, othersKnow
<1>6. CASE Restart
  BY <1>6 DEF Restart
<1>7. CASE \E tok \in Tokens : Expire(tok)
  BY <1>5, <1>7 DEF Expire
<1>8. CASE UNCHANGED vars
  BY <1>5, <1>8 DEF vars
<1> QED BY <1>1, <1>2, <1>3, <1>4, <1>6, <1>7, <1>8 DEF Next, Step

\* The first call was rejected with the one ended token; what waits to be stored is valid.
LEMMA StoresAreValid ==
  ASSUME SessionInv, ExpiryInv, expiries < 2, NEW c \in Calls, pc[c] = "rejected"
  PROVE  expiries = 1 /\ \A d \in Calls : pc[d] = "store" => held[d] \in valid
<1> USE SessionAssumption DEF SessionInv, TypeOK, CallInv
<1>1. held[c] \in dead /\ \A x, y \in dead : x = y
  BY DEF ExpiryInv, Hidden
<1>2. expiries = 1
  BY <1>1 DEF ExpiryInv
<1>3. ASSUME NEW d \in Calls, pc[d] = "store", held[d] \notin valid PROVE FALSE
  <2>1. held[d] \in dead
    BY <1>3 DEF dead, remembered
  <2>2. held[c] \in othersKnow(d)
    BY <1>3 DEF othersKnow
  <2> QED BY <1>1, <1>3, <2>1, <2>2 DEF ExpiryInv, Fresh
<1> QED BY <1>2, <1>3

\* One ended session leaves one token behind.
LEMMA StepDead ==
  ASSUME SessionInv, ExpiryInv, [Next]_vars
  PROVE  /\ expiries' = 0 => dead' = {}
         /\ expiries' < 2 => \A x, y \in dead' : x = y
         /\ \A c \in Calls : held[c] \in dead /\ held'[c] = held[c] => held'[c] \in dead'
<1> USE SessionAssumption DEF SessionInv, TypeOK
<1>1. CASE expiries' = expiries
  BY <1>1, DeadStay DEF ExpiryInv
<1>2. ASSUME NEW tok \in Tokens, Expire(tok)
      PROVE  /\ expiries' = expiries + 1
             /\ dead \subseteq dead' /\ dead' \subseteq dead \union {tok}
  BY <1>2 DEF Expire, dead, remembered
<1>3. ASSUME NEW tok \in Tokens, Expire(tok)
      PROVE  /\ expiries' = 0 => dead' = {}
             /\ expiries' < 2 => \A x, y \in dead' : x = y
  <2>1. expiries' # 0 /\ (expiries' < 2 => dead = {})
    BY <1>2, <1>3 DEF ExpiryInv
  <2> QED BY <1>2, <1>3, <2>1
<1>4. ASSUME NEW c \in Calls,
             \/ Begin(c) \/ Validate(c) \/ LoginFails(c) \/ CallFails(c) \/ LateArrives(c) \/ Step(c)
      PROVE  expiries' = expiries
  BY <1>4 DEF Begin, Validate, LoginFails, CallFails, LateArrives, Step, LoginAnswered, LoginStore,
              Send, ArrayRuns, Answered, Retry, Unauthorized, Returns
<1>5. CASE Restart \/ UNCHANGED vars
  BY <1>1, <1>5 DEF Restart, vars
<1> QED BY <1>1, <1>2, <1>3, <1>4, <1>5 DEF Next

\* A step that ends no session.
LEMMA StepHidden ==
  ASSUME SessionInv, ExpiryInv, [Next]_vars, NEW d \in Calls, ~ \E tok \in Tokens : Expire(tok)
  PROVE  Hidden(d)'
<1> USE SessionAssumption DEF SessionInv, TypeOK, CallInv, Locations
<1>1. /\ pc[d] = "idle" => attempt[d] # "second"
      /\ pc[d] = "rejected" => held[d] \in dead
      /\ attempt[d] = "second" /\ expiries < 2 => Safe(d)
  BY DEF ExpiryInv, Hidden
<1>2. ASSUME UNCHANGED vars PROVE Hidden(d)'
  <2>1. Hidden(d)
    BY DEF ExpiryInv
  <2> QED BY <1>2, <2>1 DEF vars, Hidden, Safe, dead, remembered
<1>3. CASE Restart
  <2>1. pc'[d] = "idle" /\ attempt'[d] = "first"
    BY <1>3 DEF Restart
  <2> QED BY <2>1 DEF Hidden
<1>4. ASSUME NEW c \in Calls,
             \/ Begin(c) \/ Validate(c) \/ LoginFails(c) \/ CallFails(c) \/ LateArrives(c) \/ Step(c)
      PROVE  Hidden(d)'
  <2>1. pc'[d] = "idle" => attempt'[d] # "second"
    BY <1>1, <1>4 DEF Begin, Validate, LoginAnswered, LoginStore, Send, ArrayRuns, Answered, Retry,
                      Unauthorized, LoginFails, CallFails, LateArrives, Returns, Step, free
  <2>2. pc'[d] = "rejected" => held'[d] \in dead'
    <3>1. pc'[d] = "rejected" =>
            /\ held'[d] = held[d]
            /\ \/ pc[d] = "rejected"
               \/ /\ pc[d] = "sent" /\ held[d] \notin valid
                  /\ UNCHANGED <<auth, valid, held, late>>
      BY <1>4 DEF Begin, Validate, LoginAnswered, LoginStore, Send, ArrayRuns, Answered, Retry,
                  Unauthorized, LoginFails, CallFails, LateArrives, Returns, Step, free
    <3>2. CASE pc[d] = "rejected"
      BY <1>1, <3>1, <3>2, StepDead
    <3>3. CASE pc[d] # "rejected"
      BY <3>1, <3>3 DEF dead, remembered
    <3> QED BY <3>2, <3>3
  <2>3. expiries' = expiries /\ valid \subseteq valid'
    BY <1>4 DEF Begin, Validate, LoginAnswered, LoginStore, Send, ArrayRuns, Answered, Retry,
                Unauthorized, LoginFails, CallFails, LateArrives, Returns, Step
  <2>4. ASSUME attempt'[d] = "second", expiries' < 2 PROVE Safe(d)'
    <3>1. CASE attempt[d] # "second"
      <4>1. c = d /\ Retry(c)
        BY <1>4, <2>4, <3>1
           DEF Begin, Validate, LoginAnswered, LoginStore, Send, ArrayRuns, Answered, Retry,
               Unauthorized, LoginFails, CallFails, LateArrives, Returns, Step, free
      <4>2. expiries = 1 /\ \A e \in Calls : pc[e] = "store" => held[e] \in valid
        BY <2>3, <2>4, <4>1, StoresAreValid DEF Retry
      <4> QED BY <2>3, <4>1, <4>2 DEF Safe, Retry
    <3>2. CASE attempt[d] = "second"
      <4>1. Safe(d)
        BY <1>1, <2>3, <2>4, <3>2
      <4>2. ASSUME NEW e \in Calls, pc'[e] = "store" PROVE held'[e] \in valid'
        BY <1>4, <4>1, <4>2
           DEF Safe, Begin, Validate, LoginAnswered, LoginStore, Send, ArrayRuns, Answered, Retry,
               Unauthorized, LoginFails, CallFails, LateArrives, Returns, Step, free
      <4>3. ASSUME pc'[d] = "call" PROVE auth' \in valid'
        <5>1. CASE LoginStore(c)
          BY <4>1, <5>1 DEF Safe, LoginStore
        <5>2. CASE ~LoginStore(c)
          <6>1. auth' = auth /\ (pc[d] = "call" \/ Begin(d))
            BY <1>4, <4>3, <5>2
               DEF Begin, Validate, LoginAnswered, LoginStore, Send, ArrayRuns, Answered, Retry,
                   Unauthorized, LoginFails, CallFails, LateArrives, Returns, Step
          <6>2. pc[d] = "call"
            BY <1>1, <3>2, <6>1 DEF Begin, free
          <6> QED BY <2>3, <4>1, <6>1, <6>2 DEF Safe
        <5> QED BY <5>1, <5>2
      <4>4. ASSUME pc'[d] = "sent" PROVE held'[d] \in valid'
        BY <1>4, <4>1, <4>4
           DEF Safe, Begin, Validate, LoginAnswered, LoginStore, Send, ArrayRuns, Answered, Retry,
               Unauthorized, LoginFails, CallFails, LateArrives, Returns, Step, free
      <4>5. pc'[d] # "rejected"
        BY <1>4, <4>1
           DEF Safe, Begin, Validate, LoginAnswered, LoginStore, Send, ArrayRuns, Answered, Retry,
               Unauthorized, LoginFails, CallFails, LateArrives, Returns, Step, free
      <4> QED BY <2>3, <4>1, <4>2, <4>3, <4>4, <4>5 DEF Safe
    <3> QED BY <3>1, <3>2
  <2> QED BY <2>1, <2>2, <2>4 DEF Hidden
<1> QED BY <1>2, <1>3, <1>4 DEF Next

\* Before the first session ends nobody is rejected.
LEMMA ExpireHides ==
  ASSUME SessionInv, ExpiryInv, NEW tok \in Tokens, Expire(tok), NEW d \in Calls PROVE Hidden(d)'
<1> USE SessionAssumption DEF SessionInv, TypeOK
<1>1. /\ UNCHANGED <<pc, attempt, held>>
      /\ expiries' = expiries + 1 /\ dead \subseteq dead'
  BY DEF Expire, dead, remembered
<1>2. Hidden(d)
  BY DEF ExpiryInv
<1>3. attempt'[d] = "second" => ~(expiries' < 2)
  BY <1>1, <1>2 DEF Hidden, Safe
<1>4. /\ pc'[d] = "idle" => attempt'[d] # "second"
      /\ pc'[d] = "rejected" => held'[d] \in dead'
  BY <1>1, <1>2 DEF Hidden
<1> QED BY <1>3, <1>4 DEF Hidden

LEMMA StepExpiry == SessionInv /\ ExpiryInv /\ [Next]_vars => ExpiryInv'
<1> SUFFICES ASSUME SessionInv, ExpiryInv, [Next]_vars PROVE ExpiryInv'
  OBVIOUS
<1>1. ASSUME NEW c \in Calls PROVE Fresh(c)' /\ Hidden(c)'
  BY <1>1, StepFresh, StepHidden, ExpireHides DEF ExpiryInv
<1>2. OneExpiryIsHidden'
  <2> USE SessionAssumption DEF SessionInv, TypeOK
  <2>1. SUFFICES ASSUME expiries' < 2, NEW c \in Calls, result'[c] = "unauthorized" PROVE FALSE
    BY DEF OneExpiryIsHidden
  <2>2. expiries < 2
    BY <2>1 DEF Next, Step, Begin, Validate, LoginAnswered, LoginStore, Send, ArrayRuns, Answered,
                Retry, Unauthorized, LoginFails, CallFails, LateArrives, Returns, Expire, Restart,
                vars
  <2>3. result[c] # "unauthorized"
    BY <2>2 DEF ExpiryInv, OneExpiryIsHidden
  <2>4. Unauthorized(c)
    BY <2>1, <2>3
       DEF Next, Step, Begin, Validate, LoginAnswered, LoginStore, Send, ArrayRuns, Answered,
           Retry, Unauthorized, LoginFails, CallFails, LateArrives, Returns, Expire, Restart, vars
  <2> QED BY <2>2, <2>4 DEF ExpiryInv, Hidden, Safe, Unauthorized
<1> QED BY <1>1, <1>2, StepDead DEF ExpiryInv

(***************************************************************************)
(* OneExpiryIsHidden: "retrying once on 401" hides the end of one session  *)
(* from every caller of arraySession.do, for any number of handlers that   *)
(* log in side by side and store what they got in any order.               *)
(***************************************************************************)
THEOREM ExpiryHidden == Spec => []OneExpiryIsHidden
<1>1. Spec => [](SessionInv /\ ExpiryInv)
  BY InitSession, StepSession, InitExpiry, StepExpiry, PTL DEF Spec
<1>2. ExpiryInv => OneExpiryIsHidden
  BY DEF ExpiryInv
<1> QED BY <1>1, <1>2, PTL

=============================================================================

---------------------------- MODULE RewriterProofs ---------------------------
(***************************************************************************)
(* Theorems about the Rewriter for every host map, set of requests, number *)
(* of threads and bound.  Three inductive invariants, each stronger than   *)
(* the property it is for:                                                 *)
(*                                                                         *)
(*   Typed     TypeOK and Placed: where a handler stands tells which call  *)
(*             it is about to make or has made                             *)
(*   GrantInv  what the cache of grants holds is in place, and a handler   *)
(*             past ensureRealmAccess has its pair in place                *)
(*   LeakInv   every array host that has a connection, or is about to get  *)
(*             one, has a name of px recorded for it                       *)
(*                                                                         *)
(* LeakInv needs one lemma on resolve, the theorem ResolveUnique: a map    *)
(* that tells its nodes apart gives every name at most one array host, so  *)
(* the array host a call is made on is the one its name is recorded for.   *)
(***************************************************************************)
EXTENDS Rewriter, FiniteSetTheorems, TLAPS

\* Where a handler stands tells which call it is about to make or has made.
Placed ==
  \A t \in Threads :
    /\ pc[t] \notin {"idle", "reply"} => req[t] \in Requests /\ call[t] \in Calls
    /\ pc[t] \in {"grant", "granting", "granted", "call", "answered"} =>
         isRealmHost(req[t].host) /\ call[t].host \in ArrayNames
    /\ pc[t] = "grant" => call[t].op = "connect"
    /\ pc[t] \in {"granting", "granted"} => call[t].op = "grant"
    /\ pc[t] \in {"call", "answered", "pass", "passed"} => call[t].op # "grant"
    /\ pc[t] = "pass" => call[t] = callFor(req[t], req[t].host)

Typed == TypeOK /\ Placed

-----------------------------------------------------------------------------
\* What a realm host name is resolved to is one of the configured array hosts.
LEMMA Resolved ==
  ASSUME NEW n, NEW h \in resolve(n)
  PROVE  isRealmHost(n) /\ h \in byNode /\ h.arrayHost \in ArrayHosts
BY DEF resolve, ArrayHosts

\* A host name in use that is a realm host is one px used.
LEMMA RealmHostUsed ==
  ASSUME NEW n \in Names, isRealmHost(n)
  PROVE  n \in HostNamesUsed
BY DEF Names, ArrayNames, isRealmHost, ArrayLevel

\* A request that passes through becomes a well-formed call.
LEMMA PassedCall ==
  ASSUME NEW r \in Requests
  PROVE  /\ r.path = "connections" => r.method # "PATCH"
         /\ callFor(r, r.host) \in Calls
         /\ callFor(r, r.host).op # "grant"
<1>1. /\ r.host.realm \in Realms \union {NoRealm} /\ r.vol \in Volumes \union {NoVolume}
      /\ r.path \in {"hosts", "connections"} /\ r.method \in {"GET", "POST", "DELETE", "PATCH"}
      /\ r.host \in HostNamesUsed /\ r.host \in Names
  BY RewriterAssumption DEF RequestType, HostNamesUsed, Names
<1>2. r.path = "connections" /\ r.method # "GET" =>
        /\ r.method # "PATCH" /\ isRealmHost(r.host) /\ r.vol \in Volumes
        /\ volRealm[r.vol] = r.host.realm
  BY RewriterAssumption
<1>3. CASE r.path = "hosts"
  BY <1>1, <1>3 DEF callFor, opOf, Calls, Ops, realmOf
<1>4. CASE r.path = "connections"
  BY <1>1, <1>2, <1>4 DEF callFor, opOf, Calls, Ops, realmOf
<1> QED BY <1>1, <1>3, <1>4, <1>2

\* A rewritten request becomes a well-formed call on an array host, never itself a grant.
LEMMA RewrittenCall ==
  ASSUME NEW r \in Requests, r.path = "connections", NEW h \in resolve(r.host)
  PROVE  LET c == callFor(r, hostNames(r, h)) IN
         /\ c \in Calls /\ c.host \in ArrayNames /\ c.op # "grant"
         /\ r.method = "POST" => c.op = "connect"
<1>1. /\ r.host.realm \in Realms \union {NoRealm} /\ r.vol \in Volumes \union {NoVolume}
      /\ r.method \in {"GET", "POST", "DELETE", "PATCH"}
  BY RewriterAssumption DEF RequestType
<1>2. r.method # "GET" =>
        /\ r.method # "PATCH" /\ r.vol \in Volumes /\ volRealm[r.vol] = r.host.realm
  BY RewriterAssumption
<1>3. ArrayLevel(h.arrayHost) \in ArrayNames
  BY Resolved DEF ArrayNames
<1>4. ~isRealmHost(ArrayLevel(h.arrayHost))
  BY DEF isRealmHost, ArrayLevel
<1> QED BY <1>1, <1>2, <1>3, <1>4 DEF callFor, opOf, hostNames, Calls, Ops, realmOf, Names

\* Learning a name keeps byArrayHost a map to names px used.
LEMMA LearnedType ==
  ASSUME MapTypeOK, NEW n \in Names, learnRealmHost(n)
  PROVE  byArrayHost' \in [ArrayHosts -> HostNamesUsed \union {NoHost}]
<1>1. CASE resolve(n) = {}
  BY <1>1 DEF learnRealmHost, MapTypeOK
<1>2. CASE resolve(n) # {}
  <2>1. PICK h \in resolve(n) :
          byArrayHost' = IF doublePrefixed(n, h) THEN byArrayHost
                         ELSE [byArrayHost EXCEPT ![h.arrayHost] = n]
    BY <1>2 DEF learnRealmHost
  <2>2. n \in HostNamesUsed
    BY <2>1, Resolved, RealmHostUsed
  <2> QED BY <2>1, <2>2, Resolved DEF MapTypeOK
<1> QED BY <1>1, <1>2

\* Executing a call keeps the array's state well-formed; its answer names known hosts.
LEMMA ExecuteType ==
  ASSUME ArrayTypeOK, NEW c \in Calls, Execute(c)
  PROVE  /\ ArrayTypeOK'
         /\ outcome(c) \in Answers
         /\ mentioned(c) \subseteq Names
<1>1. /\ c.host \in Names /\ c.op \in Ops
      /\ c.op = "createHost" => c.host \in HostNamesUsed
      /\ c.op = "grant" => c.host \in ArrayNames
      /\ c.op \in {"grant", "connect", "disconnect"} => c.vol \in Volumes /\ c.realm = volRealm[c.vol]
  BY DEF Calls
<1>2. c.op = "grant" => <<c.host.rest, c.realm>> \in ArrayHosts \X Realms
  BY <1>1, VolumesAssumption DEF ArrayNames, ArrayLevel
<1>3. c.op = "connect" => Conn(c) \in [host : Names, vol : Volumes]
  BY <1>1 DEF Conn
<1>4. ArrayTypeOK'
  BY <1>1, <1>2, <1>3 DEF Execute, ArrayTypeOK
<1>5. outcome(c) \in Answers
  BY DEF outcome, Answers
<1>6. mentioned(c) \subseteq Names
  BY <1>1 DEF mentioned, listed, connectedHosts, ArrayTypeOK, Names
<1> QED BY <1>4, <1>5, <1>6

-----------------------------------------------------------------------------
\* The calls the shim has given up are a bag: what is added to it, and what is taken out.
LEMMA BagPlus ==
  ASSUME NEW B, IsABag(B), NEW C, IsABag(C)
  PROVE  IsABag(B (+) C) /\ BagToSet(B (+) C) = BagToSet(B) \union BagToSet(C)
BY DEF IsABag, BagToSet, (+)

LEMMA BagMinusOne ==
  ASSUME NEW B, IsABag(B), NEW c \in BagToSet(B)
  PROVE  IsABag(B (-) SetToBag({c})) /\ BagToSet(B (-) SetToBag({c})) \subseteq BagToSet(B)
BY DEF IsABag, BagToSet, SetToBag, (-)

LEMMA CallsOf ==
  ASSUME NEW S \in SUBSET Threads
  PROVE  IsABag(callsOf(S)) /\ BagToSet(callsOf(S)) = {call[t] : t \in S}
<1>1. ASSUME NEW t \in S
      PROVE  Cardinality({u \in S : call[u] = call[t]}) \in Nat \ {0}
  <2> DEFINE C == {u \in S : call[u] = call[t]}
  <2>1. C \in SUBSET Threads /\ C # {}
    OBVIOUS
  <2> HIDE DEF C
  <2>2. IsFiniteSet(C)
    BY <2>1, RewriterAssumption, FS_Subset
  <2>3. Cardinality(C) \in Nat /\ Cardinality(C) # 0
    BY <2>1, <2>2, FS_CardinalityType, FS_EmptySet
  <2> QED BY <2>3 DEF C
<1> QED BY <1>1 DEF IsABag, BagToSet, callsOf

\* A call that is lost may be one more to come late; one that comes late is one less.
LEMMA LateLost ==
  ASSUME TypeOK, NEW t \in Threads, CallLost(t)
  PROVE  /\ IsABag(late')
         /\ \A c \in BagToSet(late') : c \in BagToSet(late) \/ (waiting(t) /\ c = call[t])
<1>1. CASE late' = late
  BY <1>1 DEF TypeOK, BoundTypeOK
<1>2. CASE late' # late
  <2>1. waiting(t) /\ late' = late (+) callsOf({t})
    BY <1>2 DEF CallLost
  <2>2. {t} \in SUBSET Threads /\ {call[u] : u \in {t}} = {call[t]}
    OBVIOUS
  <2>3. IsABag(callsOf({t})) /\ BagToSet(callsOf({t})) = {call[t]}
    BY <2>2, CallsOf
  <2> QED BY <2>1, <2>3, BagPlus DEF TypeOK, BoundTypeOK
<1> QED BY <1>1, <1>2

LEMMA LateArrives ==
  ASSUME TypeOK, LateExec
  PROVE  /\ IsABag(late') /\ BagToSet(late') \subseteq BagToSet(late)
         /\ \E c \in BagToSet(late) : Execute(c)
BY BagMinusOne DEF LateExec, TypeOK, BoundTypeOK

LEMMA LateRestarted ==
  ASSUME TypeOK, Restart
  PROVE  /\ IsABag(late')
         /\ \A c \in BagToSet(late') :
              c \in BagToSet(late) \/ \E t \in Threads : waiting(t) /\ c = call[t]
<1>1. PICK lost \in SUBSET {t \in Threads : waiting(t)} : late' = late (+) callsOf(lost)
  BY DEF Restart
<1>2. IsABag(callsOf(lost)) /\ BagToSet(callsOf(lost)) = {call[t] : t \in lost}
  BY CallsOf
<1> QED BY <1>1, <1>2, BagPlus DEF TypeOK, BoundTypeOK

-----------------------------------------------------------------------------
(***************************************************************************)
(* Type correctness.  One lemma per shape of step, then one step per       *)
(* action.                                                                 *)
(***************************************************************************)
LEMMA WitnessType ==
  ASSUME Witness
  PROVE  met' \subseteq Threads
BY DEF Witness

\* A thread takes a request.
LEMMA AcceptTyped ==
  ASSUME Typed, NEW t \in Threads, NEW r \in Requests, NEW to, NEW c, Accept(t, r, to, c),
         \/ to = "reply" /\ c = NoCall
         \/ /\ to = "pass" /\ c \in Calls /\ c.op # "grant" /\ c = callFor(r, r.host)
         \/ /\ to \in {"grant", "call"} /\ c \in Calls /\ c.op # "grant"
            /\ c.host \in ArrayNames /\ isRealmHost(r.host)
            /\ to = "grant" => c.op = "connect",
         byArrayHost' \in [ArrayHosts -> HostNamesUsed \union {NoHost}],
         status' \in [Threads -> {0, 200, 400, 502}],
         body' \in [Threads -> SUBSET Items]
  PROVE  Typed'
<1> USE DEF Typed, TypeOK
<1>1. ArrayTypeOK' /\ BoundTypeOK' /\ MapTypeOK'
  BY DEF Accept, ArrayTypeOK, BoundTypeOK, MapTypeOK, arrayVars, boundVars
<1>2. ThreadTypeOK'
  BY DEF Accept, ThreadTypeOK, Locations
<1>3. Placed'
  BY DEF Accept, Placed, ThreadTypeOK
<1>4. met' \subseteq Threads /\ shown' \subseteq Items
  BY WitnessType DEF Accept
<1> QED BY <1>1, <1>2, <1>3, <1>4

\* A thread's response is ready.
LEMMA ReplyTyped ==
  ASSUME Typed, NEW t \in Threads, NEW s \in {200, 400, 502}, NEW b \in SUBSET Items,
         Reply(t, s, b), IsABag(late'), BagToSet(late') \subseteq Calls, faults' \in 0 .. MaxFaults
  PROVE  Typed'
<1> USE DEF Typed, TypeOK
<1>1. ArrayTypeOK' /\ BoundTypeOK' /\ MapTypeOK'
  BY DEF Reply, ArrayTypeOK, BoundTypeOK, MapTypeOK, arrayVars, shimVars
<1>2. ThreadTypeOK'
  BY DEF Reply, ThreadTypeOK, Locations
<1>3. Placed'
  BY DEF Reply, Placed, ThreadTypeOK
<1>4. met' \subseteq Threads /\ shown' \subseteq Items
  BY WitnessType DEF Reply
<1> QED BY <1>1, <1>2, <1>3, <1>4

\* A thread turns from the connection to its grant, or back.
LEMMA SetCallTyped ==
  ASSUME Typed, NEW t \in Threads, NEW op, NEW to, setCall(t, op, to),
         \/ pc[t] = "grant" /\ op = "grant" /\ to = "granting"
         \/ pc[t] \in {"grant", "granted"} /\ op = "connect" /\ to = "call",
         granted' \subseteq granted \union {grantKey(t)}
  PROVE  Typed'
<1> USE DEF Typed, TypeOK
<1>1. /\ req[t] \in Requests /\ call[t] \in Calls
      /\ isRealmHost(req[t].host) /\ call[t].host \in ArrayNames
      /\ call[t].op \in {"grant", "connect"}
  BY DEF Placed
<1>2. [call[t] EXCEPT !.op = op] \in Calls
  BY <1>1 DEF Calls, Ops
<1>3. ArrayTypeOK' /\ BoundTypeOK'
  BY DEF setCall, ArrayTypeOK, BoundTypeOK, arrayVars, boundVars
<1>4. grantKey(t) \in ArrayHosts \X Realms
  BY <1>1, VolumesAssumption DEF grantKey, Calls, ArrayNames, ArrayLevel
<1>5. MapTypeOK'
  BY <1>4 DEF setCall, MapTypeOK
<1>6. ThreadTypeOK'
  BY <1>2 DEF setCall, ThreadTypeOK, Locations
<1>7. Placed'
  BY <1>1, <1>2 DEF setCall, Placed, ThreadTypeOK
<1>8. met' \subseteq Threads /\ shown' \subseteq Items
  BY WitnessType DEF setCall
<1> QED BY <1>3, <1>5, <1>6, <1>7, <1>8

\* A rewriting loop visits an item.
LEMMA RewriteItemTyped ==
  ASSUME Typed, NEW t \in Threads, NEW i \in Items, NEW j \in Items, RewriteItem(t, i, j),
         byArrayHost' \in [ArrayHosts -> HostNamesUsed \union {NoHost}]
  PROVE  Typed'
<1> USE DEF Typed, TypeOK
<1>1. ArrayTypeOK' /\ BoundTypeOK' /\ MapTypeOK'
  BY DEF RewriteItem, ArrayTypeOK, BoundTypeOK, MapTypeOK, arrayVars, boundVars
<1>2. ThreadTypeOK'
  BY DEF RewriteItem, ThreadTypeOK
<1>3. Placed'
  BY DEF RewriteItem, Placed
<1>4. met' \subseteq Threads /\ shown' \subseteq Items
  BY WitnessType DEF RewriteItem
<1> QED BY <1>1, <1>2, <1>3, <1>4

\* Requests px makes are taken with everything in place.
LEMMA SendTyped ==
  ASSUME Typed, NEW t \in Threads, NEW r \in Requests, Send(t, r)
  PROVE  Typed'
<1> USE DEF Typed
<1>1. /\ MapTypeOK /\ ThreadTypeOK
      /\ r.host \in Names /\ r.host \in HostNamesUsed
  BY DEF TypeOK, Names, HostNamesUsed
<1>2. CASE FakePatch(t, r)
  BY <1>1, <1>2, AcceptTyped DEF FakePatch, MapTypeOK, ThreadTypeOK
<1>3. CASE SynthHost(t, r)
  <2>1. PICK h \in resolve(r.host) : body' = [body EXCEPT ![t] = {Item(r.host, h.arrayHost)}]
    BY <1>3 DEF SynthHost
  <2>2. Item(r.host, h.arrayHost) \in Items
    BY <1>1, Resolved DEF Item, Items
  <2>3. body' \in [Threads -> SUBSET Items]
    BY <1>1, <2>1, <2>2 DEF ThreadTypeOK
  <2>4. status' \in [Threads -> {0, 200, 400, 502}]
    BY <1>1, <1>3 DEF SynthHost, ThreadTypeOK
  <2> QED BY <1>1, <1>3, <2>3, <2>4, AcceptTyped DEF SynthHost, MapTypeOK
<1>4. CASE RewriteConnection(t, r)
  <2>1. r.path = "connections" /\ learnRealmHost(r.host)
    BY <1>4 DEF RewriteConnection, rewritable
  <2>2. PICK h \in resolve(r.host) :
          Accept(t, r, IF r.method = "POST" THEN "grant" ELSE "call", callFor(r, hostNames(r, h)))
    BY <1>4 DEF RewriteConnection
  <2>3. byArrayHost' \in [ArrayHosts -> HostNamesUsed \union {NoHost}]
    BY <1>1, <2>1, LearnedType
  <2>4. /\ body' \in [Threads -> SUBSET Items]
        /\ status' \in [Threads -> {0, 200, 400, 502}]
    BY <1>1, <1>4 DEF RewriteConnection, ThreadTypeOK
  <2>5. isRealmHost(r.host)
    BY <2>2, Resolved
  <2> DEFINE c == callFor(r, hostNames(r, h))
  <2>6. /\ c \in Calls /\ c.host \in ArrayNames /\ c.op # "grant"
        /\ r.method = "POST" => c.op = "connect"
    BY <2>1, <2>2, RewrittenCall
  <2> HIDE DEF c
  <2>7. CASE r.method = "POST"
    <3>1. Accept(t, r, "grant", c)
      BY <2>2, <2>7 DEF c
    <3> QED BY <2>3, <2>4, <2>5, <2>6, <2>7, <3>1, AcceptTyped
  <2>8. CASE r.method # "POST"
    <3>1. Accept(t, r, "call", c)
      BY <2>2, <2>8 DEF c
    <3> QED BY <2>3, <2>4, <2>5, <2>6, <3>1, AcceptTyped
  <2> QED BY <2>7, <2>8
<1>5. CASE PassThrough(t, r)
  <2>1. Accept(t, r, "pass", callFor(r, r.host))
    BY <1>5 DEF PassThrough
  <2>2. byArrayHost' \in [ArrayHosts -> HostNamesUsed \union {NoHost}]
    BY <1>1, <1>5, LearnedType DEF PassThrough, MapTypeOK
  <2>3. /\ body' \in [Threads -> SUBSET Items]
        /\ status' \in [Threads -> {0, 200, 400, 502}]
    BY <1>1, <1>5 DEF PassThrough, ThreadTypeOK
  <2>4. callFor(r, r.host) \in Calls /\ callFor(r, r.host).op # "grant"
    BY PassedCall
  <2> QED BY <2>1, <2>2, <2>3, <2>4, AcceptTyped
<1> QED BY <1>2, <1>3, <1>4, <1>5 DEF Send

\* The handler's own steps keep the types.
LEMMA HandleTyped ==
  ASSUME Typed, NEW t \in Threads, Handle(t)
  PROVE  Typed'
<1> USE DEF Typed
<1>1. /\ TypeOK /\ ArrayTypeOK /\ MapTypeOK /\ ThreadTypeOK /\ BoundTypeOK /\ Placed
  BY DEF TypeOK
<1>2. body[t] \in SUBSET Items /\ todo[t] \in SUBSET Items
  BY <1>1 DEF ThreadTypeOK
<1>3. CASE GrantCached(t)
  BY <1>3, SetCallTyped DEF GrantCached
<1>4. CASE GrantSend(t)
  BY <1>4, SetCallTyped DEF GrantSend
<1>5. CASE GrantStore(t)
  BY <1>5, SetCallTyped DEF GrantStore
<1>6. CASE GrantError(t)
  BY <1>1, <1>6, ReplyTyped DEF GrantError, BoundTypeOK
<1>7. CASE AnswerConnection(t)
  <2> DEFINE own(n) == IF n = call[t].host THEN req[t].host ELSE n
             named == {Item(own(i.name), i.owner) : i \in body[t]}
             b == IF req[t].method = "POST" /\ answer[t] = "exists"
                  THEN {Item(req[t].host, NoOwner)} ELSE named
             s == statusOf(req[t].method, answer[t])
  <2>1. req[t].host \in Names
    BY <1>1, <1>7 DEF AnswerConnection, Placed, Names, HostNamesUsed
  <2>2. b \in SUBSET Items
    BY <1>2, <2>1 DEF Items, Item
  <2>3. s \in {200, 400, 502}
    BY DEF statusOf
  <2>4. Reply(t, s, b) /\ UNCHANGED <<late, faults>>
    BY <1>7 DEF AnswerConnection
  <2> HIDE DEF b, s
  <2> QED BY <1>1, <2>2, <2>3, <2>4, ReplyTyped DEF BoundTypeOK
<1>8. CASE EmptyHosts(t)
  BY <1>1, <1>8, ReplyTyped DEF EmptyHosts, BoundTypeOK
<1>9. CASE ForwardAsIs(t)
  <2>1. Reply(t, 200, body[t]) \/ Reply(t, 400, body[t])
    BY <1>9 DEF ForwardAsIs
  <2> QED BY <1>1, <1>2, <1>9, <2>1, ReplyTyped DEF ForwardAsIs, BoundTypeOK
<1>10. CASE BeginRewrite(t)
  <2>1. ArrayTypeOK' /\ BoundTypeOK' /\ MapTypeOK'
    BY <1>1, <1>10
       DEF BeginRewrite, ArrayTypeOK, BoundTypeOK, MapTypeOK, arrayVars, boundVars, shimVars
  <2>2. ThreadTypeOK'
    BY <1>1, <1>2, <1>10 DEF BeginRewrite, ThreadTypeOK, Locations
  <2>3. Placed'
    BY <1>1, <1>10 DEF BeginRewrite, Placed, ThreadTypeOK
  <2>4. met' \subseteq Threads /\ shown' \subseteq Items
    BY <1>1, <1>10, WitnessType DEF BeginRewrite, TypeOK
  <2> QED BY <2>1, <2>2, <2>3, <2>4 DEF TypeOK
<1>11. CASE InjectItem(t)
  <2>1. PICK i \in todo[t] :
          \/ RewriteItem(t, i, i) /\ UNCHANGED byArrayHost
          \/ /\ \E h \in resolve(i.name) : RewriteItem(t, i, Item(i.name, h.arrayHost))
             /\ learnRealmHost(i.name)
    BY <1>11 DEF InjectItem
  <2>2. i \in Items /\ i.name \in Names
    BY <1>2 DEF Items
  <2>3. CASE RewriteItem(t, i, i) /\ UNCHANGED byArrayHost
    BY <1>1, <2>2, <2>3, RewriteItemTyped DEF MapTypeOK
  <2>4. ASSUME NEW h \in resolve(i.name), RewriteItem(t, i, Item(i.name, h.arrayHost)),
               learnRealmHost(i.name)
        PROVE  Typed'
    <3>1. Item(i.name, h.arrayHost) \in Items
      BY <2>2, Resolved DEF Item, Items
    <3> QED BY <1>1, <2>2, <2>4, <3>1, LearnedType, RewriteItemTyped
  <2> QED BY <2>1, <2>3, <2>4
<1>12. CASE MapBackItem(t)
  <2>1. PICK i \in todo[t] :
          LET learned == IF ~isRealmHost(i.name) /\ i.name.rest \in ArrayHosts
                         THEN byArrayHost[i.name.rest] ELSE NoHost
          IN  RewriteItem(t, i, IF learned = NoHost THEN i ELSE Item(learned, i.owner))
    BY <1>12 DEF MapBackItem
  <2> DEFINE learned == IF ~isRealmHost(i.name) /\ i.name.rest \in ArrayHosts
                        THEN byArrayHost[i.name.rest] ELSE NoHost
             j == IF learned = NoHost THEN i ELSE Item(learned, i.owner)
  <2>2. i \in Items /\ i.owner \in ArrayHosts \union {NoOwner}
    BY <1>2 DEF Items
  <2>3. learned = NoHost \/ learned \in Names
    BY <1>1 DEF MapTypeOK, Names
  <2>4. j \in Items
    BY <2>2, <2>3 DEF Item, Items
  <2>5. RewriteItem(t, i, j)
    BY <2>1
  <2>6. byArrayHost' \in [ArrayHosts -> HostNamesUsed \union {NoHost}]
    BY <1>1, <1>12 DEF MapBackItem, MapTypeOK
  <2> HIDE DEF j
  <2> QED BY <2>2, <2>4, <2>5, <2>6, RewriteItemTyped
<1>13. CASE EndRewrite(t)
  <2>1. Reply(t, 200, body[t]) \/ Reply(t, 400, body[t])
    BY <1>13 DEF EndRewrite
  <2> QED BY <1>1, <1>2, <1>13, <2>1, ReplyTyped DEF EndRewrite, BoundTypeOK
<1>14. CASE Deliver(t)
  <2>1. ArrayTypeOK' /\ BoundTypeOK' /\ MapTypeOK'
    BY <1>1, <1>14 DEF Deliver, ArrayTypeOK, BoundTypeOK, MapTypeOK, arrayVars, boundVars, shimVars
  <2>2. ThreadTypeOK'
    BY <1>1, <1>14 DEF Deliver, ThreadTypeOK, Locations
  <2>3. Placed'
    BY <1>1, <1>14 DEF Deliver, Placed, ThreadTypeOK
  <2>4. met' \subseteq Threads /\ shown' \subseteq Items
    BY <1>1, <1>2, <1>14, WitnessType DEF Deliver, TypeOK
  <2> QED BY <2>1, <2>2, <2>3, <2>4 DEF TypeOK
<1>15. CASE ArrayExec(t)
  <2>1. /\ pc[t] \in {"granting", "call", "pass"}
        /\ pc' = [pc EXCEPT ![t] = awaits[pc[t]]]
        /\ awaits[pc[t]] = IF pc[t] = "granting" THEN "granted"
                           ELSE IF pc[t] = "call" THEN "answered" ELSE "passed"
    BY <1>15 DEF ArrayExec, waiting, awaits
  <2>2. call[t] \in Calls /\ req[t] \in Requests
    BY <1>1, <2>1 DEF Placed
  <2>3. ArrayTypeOK' /\ outcome(call[t]) \in Answers /\ mentioned(call[t]) \subseteq Names
    BY <1>1, <1>15, <2>2, ExecuteType DEF ArrayExec
  <2>4. {Item(n, NoOwner) : n \in mentioned(call[t])} \subseteq Items
    BY <2>3 DEF Item, Items
  <2>5. BoundTypeOK' /\ MapTypeOK'
    BY <1>1, <1>15 DEF ArrayExec, BoundTypeOK, MapTypeOK, boundVars, shimVars
  <2>6. ThreadTypeOK'
    BY <1>1, <1>15, <2>1, <2>3, <2>4 DEF ArrayExec, ThreadTypeOK, Locations
  <2>7. Placed'
    BY <1>1, <1>15, <2>1 DEF ArrayExec, Placed, ThreadTypeOK
  <2>8. met' \subseteq Threads /\ shown' \subseteq Items
    BY <1>1, <1>15, WitnessType DEF ArrayExec, TypeOK
  <2> QED BY <2>3, <2>5, <2>6, <2>7, <2>8 DEF TypeOK
<1> QED
  BY <1>3, <1>4, <1>5, <1>6, <1>7, <1>8, <1>9, <1>10, <1>11, <1>12, <1>13, <1>14, <1>15
     DEF Handle

\* Faults, late calls, restarts and operators keep the types.
LEMMA EnvironmentTyped ==
  ASSUME Typed,
         \/ \E t \in Threads : ArrayRefuse(t) \/ CallLost(t)
         \/ LateExec \/ Restart \/ Reprovision
  PROVE  Typed'
<1> USE DEF Typed
<1>1. /\ TypeOK /\ ArrayTypeOK /\ MapTypeOK /\ ThreadTypeOK /\ BoundTypeOK /\ Placed
  BY DEF TypeOK
<1>2. MaxFaults \in Nat /\ MaxRestarts \in Nat /\ MaxReprovisions \in Nat
  BY RewriterAssumption
<1>3. \A t \in Threads : waiting(t) => call[t] \in Calls
  BY <1>1 DEF waiting, awaits, Placed
<1>4. ASSUME NEW t \in Threads, ArrayRefuse(t) PROVE Typed'
  <2>1. /\ pc[t] \in {"granting", "call", "pass"}
        /\ pc' = [pc EXCEPT ![t] = awaits[pc[t]]]
        /\ awaits[pc[t]] = IF pc[t] = "granting" THEN "granted"
                           ELSE IF pc[t] = "call" THEN "answered" ELSE "passed"
    BY <1>4 DEF ArrayRefuse, waiting, awaits
  <2>2. ArrayTypeOK' /\ MapTypeOK'
    BY <1>1, <1>4 DEF ArrayRefuse, ArrayTypeOK, MapTypeOK, arrayVars, shimVars
  <2>3. BoundTypeOK'
    BY <1>1, <1>2, <1>4 DEF ArrayRefuse, BoundTypeOK
  <2>4. ThreadTypeOK'
    BY <1>1, <1>4, <2>1 DEF ArrayRefuse, ThreadTypeOK, Locations, Answers
  <2>5. Placed'
    BY <1>1, <1>4, <2>1 DEF ArrayRefuse, Placed, ThreadTypeOK
  <2>6. met' \subseteq Threads /\ shown' \subseteq Items
    BY <1>1, <1>4, WitnessType DEF ArrayRefuse, TypeOK
  <2> QED BY <2>2, <2>3, <2>4, <2>5, <2>6 DEF TypeOK
<1>5. ASSUME NEW t \in Threads, CallLost(t) PROVE Typed'
  <2>1. IsABag(late') /\ BagToSet(late') \subseteq Calls
    BY <1>1, <1>3, <1>5, LateLost DEF BoundTypeOK
  <2>2. faults' \in 0 .. MaxFaults
    BY <1>1, <1>2, <1>5 DEF CallLost, BoundTypeOK
  <2> QED BY <1>5, <2>1, <2>2, ReplyTyped DEF CallLost
<1>6. CASE LateExec
  <2>1. PICK c \in BagToSet(late) : Execute(c)
    BY <1>6 DEF LateExec
  <2>2. ArrayTypeOK'
    BY <1>1, <2>1, ExecuteType DEF BoundTypeOK
  <2>3. MapTypeOK' /\ ThreadTypeOK' /\ Placed'
    BY <1>1, <1>6 DEF LateExec, MapTypeOK, ThreadTypeOK, Placed, shimVars, threadVars
  <2>4. BoundTypeOK'
    BY <1>1, <1>6, LateArrives DEF LateExec, BoundTypeOK
  <2>5. met' \subseteq Threads /\ shown' \subseteq Items
    BY <1>1, <1>6, WitnessType DEF LateExec, TypeOK
  <2> QED BY <2>2, <2>3, <2>4, <2>5 DEF TypeOK
<1>7. CASE Restart
  <2>1. ArrayTypeOK' /\ MapTypeOK'
    BY <1>1, <1>7 DEF Restart, ArrayTypeOK, MapTypeOK, arrayVars
  <2>2. IsABag(late') /\ BagToSet(late') \subseteq Calls
    BY <1>1, <1>3, <1>7, LateRestarted DEF BoundTypeOK
  <2>3. BoundTypeOK'
    BY <1>1, <1>2, <1>7, <2>2 DEF Restart, BoundTypeOK
  <2>4. ThreadTypeOK' /\ Placed'
    BY <1>1, <1>7 DEF Restart, ThreadTypeOK, Placed, Locations
  <2>5. met' \subseteq Threads /\ shown' \subseteq Items
    BY <1>1, <1>7, WitnessType DEF Restart, TypeOK
  <2> QED BY <2>1, <2>3, <2>4, <2>5 DEF TypeOK
<1>8. CASE Reprovision
  <2>1. MapTypeOK' /\ ThreadTypeOK' /\ Placed'
    BY <1>1, <1>8 DEF Reprovision, MapTypeOK, ThreadTypeOK, Placed, shimVars, threadVars
  <2>2. ArrayTypeOK'
    <3>1. CASE \E a \in ArrayHosts : Provision(a)
      BY <1>1, <3>1 DEF Provision, ArrayTypeOK
    <3>2. CASE \E a \in ArrayHosts : Deprovision(a)
      BY <1>1, <3>2 DEF Deprovision, ArrayTypeOK
    <3>3. CASE \E a \in ArrayHosts, realm \in Realms : OperatorGrant(a, realm)
      BY <1>1, <3>3 DEF OperatorGrant, ArrayTypeOK
    <3>4. CASE \E k \in conns : OperatorDisconnect(k)
      BY <1>1, <3>4 DEF OperatorDisconnect, ArrayTypeOK
    <3> QED BY <1>8, <3>1, <3>2, <3>3, <3>4 DEF Reprovision
  <2>3. BoundTypeOK'
    BY <1>1, <1>2, <1>8 DEF Reprovision, BoundTypeOK
  <2>4. met' \subseteq Threads /\ shown' \subseteq Items
    BY <1>1, <1>8, WitnessType DEF Reprovision, TypeOK
  <2> QED BY <2>1, <2>2, <2>3, <2>4 DEF TypeOK
<1> QED BY <1>4, <1>5, <1>6, <1>7, <1>8

\* Init has the types.
LEMMA InitTyped == Init => Typed
<1> SUFFICES ASSUME Init PROVE Typed
  OBVIOUS
<1>1. MaxFaults \in Nat /\ MaxRestarts \in Nat /\ MaxReprovisions \in Nat
  BY RewriterAssumption
<1>2. ArrayTypeOK
  BY RewriterAssumption DEF Init, ArrayTypeOK, HostNamesUsed
<1>3. MapTypeOK /\ ThreadTypeOK
  BY DEF Init, MapTypeOK, ThreadTypeOK, Locations
<1>4. BoundTypeOK
  BY <1>1 DEF Init, BoundTypeOK, EmptyBag, SetToBag, IsABag, BagToSet
<1>5. Placed
  BY DEF Init, Placed
<1> QED BY <1>2, <1>3, <1>4, <1>5 DEF Init, Typed, TypeOK

\* Every step keeps the types.
LEMMA StepTyped == Typed /\ [Next]_vars => Typed'
<1> SUFFICES ASSUME Typed, [Next]_vars PROVE Typed'
  OBVIOUS
<1>1. CASE Next
  BY <1>1, SendTyped, HandleTyped, EnvironmentTyped DEF Next
<1>2. CASE UNCHANGED vars
  BY <1>2 DEF Typed, TypeOK, ArrayTypeOK, MapTypeOK, ThreadTypeOK, BoundTypeOK, Placed,
              vars, arrayVars, shimVars, threadVars, boundVars
<1> QED BY <1>1, <1>2

(***************************************************************************)
(* The Rewriter is type correct: for any host map, requests and bounds,    *)
(* every variable keeps its type; the shim records only names px used, and *)
(* asks for grants only for array hosts of its map and realms of volumes.  *)
(***************************************************************************)
THEOREM TypeCorrect == Spec => []TypeOK
<1>1. Spec => []Typed
  BY InitTyped, StepTyped, PTL DEF Spec
<1>2. Typed => TypeOK
  BY DEF Typed
<1> QED BY <1>1, <1>2, PTL

-----------------------------------------------------------------------------
(***************************************************************************)
(* The grant comes before the connection.  While no operator interferes    *)
(* the array only ever gains accesses, so a grant that was once answered   *)
(* stays in place, and what the cache holds is in place; a handler that    *)
(* has got past ensureRealmAccess has found its pair there.                *)
(***************************************************************************)
GrantInv ==
  /\ arrayHosts = ArrayHosts
  /\ granted \subseteq grants
  /\ \A t \in Threads :
       /\ pc[t] = "granted" /\ answer[t] \in {"ok"} \union containsExist => grantKey(t) \in grants
       /\ pc[t] = "call" /\ call[t].op = "connect" => grantKey(t) \in grants
       /\ answer[t] # "noaccess"

\* The array gains accesses and keeps its hosts, whatever call it carries out.
LEMMA ExecuteGrants ==
  ASSUME NEW c, Execute(c)
  PROVE  /\ grants \subseteq grants' /\ arrayHosts' = arrayHosts
         /\ c.op = "grant" /\ outcome(c) \in {"ok", "exists"} => <<c.host.rest, c.realm>> \in grants'
BY DEF Execute, outcome, succeeds

\* Only a connect without access is answered with "noaccess".
LEMMA NoAccess ==
  ASSUME NEW c, outcome(c) = "noaccess"
  PROVE  c.op = "connect" /\ ~hasAccess(c.host, volRealm[c.vol])
BY DEF outcome

\* A connect that passes through is made on a realm host.
LEMMA PassedConnect ==
  ASSUME NEW r \in Requests, callFor(r, r.host).op = "connect"
  PROVE  isRealmHost(r.host) /\ r.path = "connections" /\ r.method = "POST"
<1>1. /\ r.path \in {"hosts", "connections"} /\ r.method \in {"GET", "POST", "DELETE", "PATCH"}
      /\ r.path = "connections" => r.method # "PATCH"
  BY RewriterAssumption, PassedCall DEF RequestType
<1>2. r.path = "connections" /\ r.method = "POST"
  BY <1>1 DEF callFor, opOf
<1> QED BY <1>2, RewriterAssumption

\* Without an operator, every step keeps GrantInv.
LEMMA StepGrantInv ==
  ASSUME MaxReprovisions = 0
  PROVE  Typed /\ GrantInv /\ [Next]_vars => GrantInv'
<1> SUFFICES ASSUME Typed, GrantInv, [Next]_vars PROVE GrantInv'
  OBVIOUS
<1> USE DEF GrantInv
<1>1. ThreadTypeOK /\ BoundTypeOK /\ Placed
  BY DEF Typed, TypeOK
<1>2. ASSUME NEW t \in Threads, NEW r \in Requests, Send(t, r) PROVE GrantInv'
  <2>1. PICK to, c : /\ Accept(t, r, to, c)
                     /\ to \in {"reply", "grant", "pass"} \/ (to = "call" /\ c.op # "connect")
    <3>1. CASE RewriteConnection(t, r)
      <4>1. PICK h \in resolve(r.host) :
              Accept(t, r, IF r.method = "POST" THEN "grant" ELSE "call",
                     callFor(r, hostNames(r, h)))
        BY <3>1 DEF RewriteConnection
      <4>2. r.method # "POST" => callFor(r, hostNames(r, h)).op # "connect"
        <5>1. /\ r.path = "connections" /\ r.method \in {"GET", "POST", "DELETE", "PATCH"}
              /\ r.method # "PATCH"
          BY <3>1, RewriterAssumption, PassedCall DEF RequestType, RewriteConnection, rewritable
        <5> QED BY <5>1 DEF callFor, opOf
      <4> QED BY <4>1, <4>2
    <3>2. CASE ~RewriteConnection(t, r)
      BY <1>2, <3>2 DEF Send, FakePatch, SynthHost, PassThrough
    <3> QED BY <3>1, <3>2
  <2>2. arrayHosts' = arrayHosts /\ grants' = grants /\ granted' = granted /\ answer' = answer
    BY <2>1 DEF Accept, arrayVars
  <2>3. \A u \in Threads : u # t => pc'[u] = pc[u] /\ call'[u] = call[u]
    BY <1>1, <2>1 DEF Accept, ThreadTypeOK
  <2>4. pc'[t] = to /\ call'[t] = c
    BY <1>1, <2>1 DEF Accept, ThreadTypeOK
  <2> QED BY <2>1, <2>2, <2>3, <2>4 DEF grantKey
<1>3. ASSUME NEW t \in Threads, Handle(t) PROVE GrantInv'
  <2>1. CASE GrantCached(t)
    BY <1>1, <2>1 DEF GrantCached, setCall, arrayVars, ThreadTypeOK, grantKey
  <2>2. CASE GrantSend(t)
    BY <1>1, <2>2 DEF GrantSend, setCall, arrayVars, ThreadTypeOK, grantKey
  <2>3. CASE GrantStore(t)
    BY <1>1, <2>3 DEF GrantStore, setCall, arrayVars, ThreadTypeOK, grantKey
  <2>4. ASSUME NEW s, NEW b, Reply(t, s, b) PROVE GrantInv'
    BY <1>1, <2>4 DEF Reply, arrayVars, shimVars, ThreadTypeOK, grantKey
  <2>5. CASE BeginRewrite(t)
    BY <1>1, <2>5 DEF BeginRewrite, arrayVars, shimVars, ThreadTypeOK, grantKey
  <2>6. ASSUME NEW i, NEW j, RewriteItem(t, i, j) PROVE GrantInv'
    BY <1>1, <2>6 DEF RewriteItem, arrayVars, ThreadTypeOK, grantKey
  <2>7. CASE Deliver(t)
    BY <1>1, <2>7 DEF Deliver, arrayVars, shimVars, ThreadTypeOK, grantKey
  <2>8. CASE ArrayExec(t)
    <3>1. /\ pc[t] \in {"granting", "call", "pass"}
          /\ pc' = [pc EXCEPT ![t] = awaits[pc[t]]]
          /\ awaits[pc[t]] = IF pc[t] = "granting" THEN "granted"
                             ELSE IF pc[t] = "call" THEN "answered" ELSE "passed"
      BY <2>8 DEF ArrayExec, waiting, awaits
    <3>2. /\ Execute(call[t]) /\ answer' = [answer EXCEPT ![t] = outcome(call[t])]
          /\ granted' = granted /\ call' = call
      BY <2>8 DEF ArrayExec, shimVars
    <3>3. /\ grants \subseteq grants' /\ arrayHosts' = arrayHosts
          /\ call[t].op = "grant" /\ outcome(call[t]) \in {"ok", "exists"} =>
               grantKey(t) \in grants'
      BY <3>2, ExecuteGrants DEF grantKey
    <3>4. call[t] \in Calls /\ req[t] \in Requests
      BY <1>1, <3>1 DEF Placed
    <3>5. pc[t] = "granting" => outcome(call[t]) # "absent" /\ call[t].op = "grant"
      <4>1. pc[t] = "granting" => call[t].op = "grant" /\ call[t].host \in ArrayNames
        BY <1>1 DEF Placed
      <4>2. pc[t] = "granting" => exists(call[t].host)
        BY <4>1 DEF exists, ArrayNames, ArrayLevel, isRealmHost
      <4> QED BY <4>1, <4>2 DEF outcome
    <3>6. outcome(call[t]) # "noaccess"
      <4> SUFFICES ASSUME outcome(call[t]) = "noaccess" PROVE FALSE
        OBVIOUS
      <4>1. call[t].op = "connect" /\ ~hasAccess(call[t].host, volRealm[call[t].vol])
        BY NoAccess
      <4>2. /\ call[t].realm = volRealm[call[t].vol]
            /\ isRealmHost(call[t].host) => call[t].host.realm = call[t].realm
        BY <3>4, <4>1 DEF Calls
      <4>3. CASE pc[t] = "call"
        <5>1. grantKey(t) \in grants /\ call[t].host \in ArrayNames
          BY <1>1, <4>1, <4>3 DEF Placed
        <5> QED BY <4>1, <4>2, <5>1 DEF hasAccess, grantKey
      <4>4. CASE pc[t] = "pass"
        <5>1. isRealmHost(call[t].host)
          <6>1. call[t] = callFor(req[t], req[t].host)
            BY <1>1, <4>4 DEF Placed
          <6> QED BY <3>4, <4>1, <6>1, PassedConnect DEF callFor
        <5> QED BY <4>1, <4>2, <5>1 DEF hasAccess
      <4>5. CASE pc[t] = "granting"
        BY <3>5, <4>1, <4>5
      <4> QED BY <3>1, <4>3, <4>4, <4>5
    <3>7. \A u \in Threads : u # t => pc'[u] = pc[u] /\ answer'[u] = answer[u]
      BY <1>1, <3>1, <3>2 DEF ThreadTypeOK
    <3>8. pc'[t] = awaits[pc[t]] /\ answer'[t] = outcome(call[t])
      BY <1>1, <3>1, <3>2 DEF ThreadTypeOK
    <3> QED BY <3>1, <3>2, <3>3, <3>5, <3>6, <3>7, <3>8 DEF grantKey, containsExist
  <2> QED
    BY <1>3, <2>1, <2>2, <2>3, <2>4, <2>5, <2>6, <2>7, <2>8
       DEF Handle, GrantError, AnswerConnection, EmptyHosts, ForwardAsIs, EndRewrite,
           InjectItem, MapBackItem
<1>4. ASSUME NEW t \in Threads, ArrayRefuse(t) PROVE GrantInv'
  <2>1. awaits[pc[t]] # "call" /\ answer' = [answer EXCEPT ![t] = "refused"]
        /\ pc' = [pc EXCEPT ![t] = awaits[pc[t]]]
    BY <1>4 DEF ArrayRefuse, waiting, awaits
  <2> QED BY <1>1, <1>4, <2>1
          DEF ArrayRefuse, arrayVars, shimVars, ThreadTypeOK, grantKey, containsExist
<1>5. ASSUME NEW t \in Threads, CallLost(t) PROVE GrantInv'
  BY <1>1, <1>5 DEF CallLost, Reply, arrayVars, shimVars, ThreadTypeOK, grantKey
<1>6. CASE LateExec
  <2>1. PICK c \in BagToSet(late) : Execute(c)
    BY <1>6 DEF LateExec
  <2> QED BY <1>6, <2>1, ExecuteGrants DEF LateExec, shimVars, threadVars, grantKey
<1>7. CASE Restart
  BY <1>7 DEF Restart, arrayVars, containsExist
<1>8. ~Reprovision
  BY <1>1 DEF Reprovision, BoundTypeOK
<1>9. CASE UNCHANGED vars
  BY <1>9 DEF vars, arrayVars, shimVars, threadVars, grantKey
<1> QED BY <1>2, <1>3, <1>4, <1>5, <1>6, <1>7, <1>8, <1>9 DEF Next

LEMMA InitGrantInv ==
  ASSUME Provisioned = ArrayHosts
  PROVE  Init => GrantInv
BY DEF Init, GrantInv

(***************************************************************************)
(* GrantedBeforeConnect for any number of requests, host maps, faults and  *)
(* restarts: if the array hosts of the map exist when the shim is started  *)
(* and no operator interferes with them, no connection is refused for want *)
(* of an access.                                                           *)
(***************************************************************************)
THEOREM GrantFirst ==
  ASSUME MaxReprovisions = 0, Provisioned = ArrayHosts
  PROVE  Spec => []GrantedBeforeConnect
<1>1. Spec => [](Typed /\ GrantInv)
  <2>1. Init => Typed /\ GrantInv
    BY InitTyped, InitGrantInv
  <2>2. Typed /\ GrantInv /\ [Next]_vars => Typed' /\ GrantInv'
    BY StepTyped, StepGrantInv
  <2> QED BY <2>1, <2>2, PTL DEF Spec
<1>2. GrantInv => GrantedBeforeConnect
  BY DEF GrantInv, GrantedBeforeConnect
<1> QED BY <1>1, <1>2, PTL

(***************************************************************************)
(* Under the same assumptions the cache of grants is sound: what it holds  *)
(* is in place on the array.  (The run "poison" shows that it needs the    *)
(* array hosts to exist.)                                                  *)
(***************************************************************************)
THEOREM CacheSound ==
  ASSUME MaxReprovisions = 0, Provisioned = ArrayHosts
  PROVE  Spec => []CachedMeansGranted
<1>1. Spec => [](Typed /\ GrantInv)
  <2>1. Init => Typed /\ GrantInv
    BY InitTyped, InitGrantInv
  <2>2. Typed /\ GrantInv /\ [Next]_vars => Typed' /\ GrantInv'
    BY StepTyped, StepGrantInv
  <2> QED BY <2>1, <2>2, PTL DEF Spec
<1>2. GrantInv => CachedMeansGranted
  BY DEF GrantInv, CachedMeansGranted
<1> QED BY <1>1, <1>2, PTL

-----------------------------------------------------------------------------
\* Listings hold px's names.  A name is covered when it is px's own or an array host the shim
\* has a name of px for.
Covered(n) == isRealmHost(n) \/ (n \in ArrayNames /\ byArrayHost[n.rest] # NoHost)

\* ... as far as one thread is concerned.
LeakInvOf(t) ==
  /\ pc[t] \in {"idle", "grant", "granting", "granted", "call", "pass"} => body[t] = {}
  /\ pc[t] \in {"grant", "granting", "granted", "call", "answered"} => Covered(call[t].host)
  /\ pc[t] = "call" => call[t].op # "listHosts"
  /\ pc[t] = "answered" => \A i \in body[t] : i.name = call[t].host
  /\ pc[t] = "passed" /\ req[t].path = "connections" =>
       \A i \in body[t] : /\ Covered(i.name)
                          /\ req[t].method # "GET" => isRealmHost(i.name)
  /\ pc[t] = "inject" => req[t].path = "hosts"
  /\ pc[t] = "mapback" => /\ \A i \in todo[t] : Covered(i.name)
                          /\ \A i \in body[t] \ todo[t] : isRealmHost(i.name)
  /\ pc[t] = "reply" /\ req[t].path = "connections" => \A i \in body[t] : isRealmHost(i.name)

LeakInv ==
  /\ \A a \in ArrayHosts : byArrayHost[a] # NoHost => isRealmHost(byArrayHost[a])
  /\ \A k \in conns : Covered(k.host)
  /\ \A c \in BagToSet(late) : c.op = "connect" => Covered(c.host)
  /\ \A t \in Threads : LeakInvOf(t)

\* What the listing theorem assumes of the host map and of px: the map tells its nodes apart,
\* and px calls /connections under names it chose, never under one derived from an array host.
OwnNamesOnly ==
  \A r \in Requests : r.path = "connections" => \A h \in byNode : ~doublePrefixed(r.host, h)

LEMMA NodesTyped ==
  ASSUME NEW h \in byNode
  PROVE  h.node \in Seq(STRING) /\ h.arrayHost \in Seq(STRING) /\ h.arrayHost # <<>>
<1> DEFINE Mapping == [node : Seq(STRING) \ {<<>>}, arrayHost : Seq(STRING) \ {<<>>}]
<1>1. PICK i \in DOMAIN Hosts : h = Hosts[i]
  BY DEF byNode
<1>2. Hosts \in Seq(Mapping)
  BY HostsAssumption
<1>3. h \in Mapping
  <2> HIDE DEF Mapping
  <2> QED BY <1>1, <1>2
<1> QED BY <1>3

(***************************************************************************)
(* With a map that tells its nodes apart, resolve has one answer, so the   *)
(* order in which the code walks its Go map does not matter.               *)
(***************************************************************************)
THEOREM ResolveUnique ==
  ASSUME PrefixFree, NEW n, NEW h \in resolve(n), NEW g \in resolve(n)
  PROVE  h = g
<1> SUFFICES ASSUME h # g PROVE FALSE
  OBVIOUS
<1>1. h \in byNode /\ g \in byNode /\ matches(n.rest, h) /\ matches(n.rest, g)
  BY DEF resolve
<1>2. Len(h.node) \in Nat /\ Len(g.node) \in Nat
  BY <1>1, NodesTyped
<1>3. /\ ~Prefix(h.node, g.node) /\ ~Prefix(g.node, h.node)
      /\ ~Prefix(h.node, g.arrayHost) /\ ~Prefix(g.node, h.arrayHost)
      /\ h.arrayHost # g.arrayHost
  BY <1>1 DEF PrefixFree
<1>4. ~(Prefix(h.node, n.rest) /\ Prefix(g.node, n.rest))
  BY <1>2, <1>3 DEF Prefix
<1> QED BY <1>1, <1>3, <1>4 DEF matches

\* Learning never uncovers a name, and covers the array host px's name is resolved to.
LEMMA LearnedCovers ==
  ASSUME Typed, NEW n \in Names, learnRealmHost(n)
  PROVE  /\ \A m : Covered(m) => Covered(m)'
         /\ LeakInv => \A a \in ArrayHosts :
                         byArrayHost'[a] # NoHost => isRealmHost(byArrayHost'[a])
         /\ PrefixFree => \A h \in resolve(n) : ~doublePrefixed(n, h) =>
                            Covered(ArrayLevel(h.arrayHost))'
<1>1. byArrayHost \in [ArrayHosts -> HostNamesUsed \union {NoHost}]
  BY DEF Typed, TypeOK, MapTypeOK
<1>2. CASE resolve(n) = {}
  BY <1>2 DEF learnRealmHost, Covered, LeakInv
<1>3. CASE resolve(n) # {}
  <2>1. PICK h \in resolve(n) :
          byArrayHost' = IF doublePrefixed(n, h) THEN byArrayHost
                         ELSE [byArrayHost EXCEPT ![h.arrayHost] = n]
    BY <1>3 DEF learnRealmHost
  <2>2. n # NoHost /\ h.arrayHost \in ArrayHosts
    BY <2>1, Resolved DEF NoHost, ArrayLevel, isRealmHost
  <2>3. \A m : Covered(m) => Covered(m)'
    BY <1>1, <2>1, <2>2 DEF Covered
  <2>4. ASSUME PrefixFree, NEW g \in resolve(n), ~doublePrefixed(n, g)
        PROVE  Covered(ArrayLevel(g.arrayHost))'
    <3>1. g = h
      BY <2>1, <2>4, ResolveUnique
    <3>2. byArrayHost'[h.arrayHost] = n
      BY <1>1, <2>1, <2>2, <2>4, <3>1
    <3> QED BY <2>2, <3>1, <3>2 DEF Covered, ArrayNames, ArrayLevel
  <2>5. LeakInv => \A a \in ArrayHosts :
                     byArrayHost'[a] # NoHost => isRealmHost(byArrayHost'[a])
    BY <1>1, <2>1, <2>2, Resolved DEF LeakInv
  <2> QED BY <2>3, <2>4, <2>5
<1> QED BY <1>2, <1>3

\* A call leaves and mentions covered names only, if a connect was made on one.
LEMMA ExecuteCovers ==
  ASSUME NEW c, Execute(c), \A k \in conns : Covered(k.host),
         c.op = "connect" => Covered(c.host), UNCHANGED byArrayHost
  PROVE  /\ \A k \in conns' : Covered(k.host)'
         /\ c.op # "listHosts" =>
              \A n \in mentioned(c) :
                /\ Covered(n)'
                /\ c.op \in {"listConnections", "connect"}
                /\ (c.op = "listConnections" /\ c.host = NoHost) \/ n = c.host
<1>1. \A n : Covered(n)' = Covered(n)
  BY DEF Covered
<1>2. \A k \in conns' : k \in conns \/ (c.op = "connect" /\ k.host = c.host)
  BY DEF Execute, Conn
<1>3. \A n \in connectedHosts(c) : Covered(n) /\ (c.host # NoHost => n = c.host)
  BY DEF connectedHosts
<1>4. \A k \in conns' : Covered(k.host)'
  BY <1>1, <1>2
<1>5. c.op # "listHosts" =>
        \A n \in mentioned(c) : (c.op = "listConnections" /\ n \in connectedHosts(c))
                               \/ (c.op = "connect" /\ n = c.host)
  BY DEF mentioned
<1>6. c.op # "listHosts" => \A n \in mentioned(c) : Covered(n)
  BY <1>3, <1>5
<1>7. c.op # "listHosts" => \A n \in mentioned(c) : Covered(n)'
  BY <1>1, <1>6
<1> QED BY <1>3, <1>4, <1>5, <1>7

\* A step of thread t leaves what LeakInv says of the others.
LEMMA OthersKept ==
  ASSUME LeakInv, NEW t \in Threads,
         \A n : Covered(n) => Covered(n)',
         \A u \in Threads : u # t =>
           /\ pc'[u] = pc[u] /\ req'[u] = req[u] /\ call'[u] = call[u]
           /\ body'[u] = body[u] /\ todo'[u] = todo[u]
  PROVE  \A u \in Threads : u # t => LeakInvOf(u)'
<1> TAKE u \in Threads
<1> HAVE u # t
<1>1. LeakInvOf(u)
  BY DEF LeakInv
<1> QED BY <1>1 DEF LeakInvOf

\* A request that is taken keeps LeakInv: the name a rewritten call is for is learned with it.
LEMMA SendLeakInv ==
  ASSUME PrefixFree, OwnNamesOnly, Typed, LeakInv,
         NEW t \in Threads, NEW r \in Requests, Send(t, r)
  PROVE  LeakInv'
<1>1. ThreadTypeOK /\ r.host \in Names
  BY DEF Typed, TypeOK, Names, HostNamesUsed
<1>2. PICK to, c : Accept(t, r, to, c)
  BY DEF Send, FakePatch, SynthHost, RewriteConnection, PassThrough
<1>3. /\ pc[t] = "idle" /\ pc'[t] = to /\ req'[t] = r /\ call'[t] = c
      /\ conns' = conns /\ late' = late /\ todo' = todo
      /\ \A u \in Threads : u # t => pc'[u] = pc[u] /\ req'[u] = req[u] /\ call'[u] = call[u]
  BY <1>1, <1>2 DEF Accept, ThreadTypeOK, arrayVars, boundVars
<1>4. body[t] = {}
  BY <1>3 DEF LeakInv, LeakInvOf
<1>5. \A u \in Threads : u # t => body'[u] = body[u]
  BY <1>1 DEF Send, FakePatch, SynthHost, RewriteConnection, PassThrough, ThreadTypeOK
<1>6. UNCHANGED byArrayHost \/ learnRealmHost(r.host)
  BY DEF Send, FakePatch, SynthHost, RewriteConnection, PassThrough
<1>7. /\ \A n : Covered(n) => Covered(n)'
      /\ \A a \in ArrayHosts : byArrayHost'[a] # NoHost => isRealmHost(byArrayHost'[a])
  <2>1. CASE UNCHANGED byArrayHost
    BY <2>1 DEF Covered, LeakInv
  <2>2. CASE learnRealmHost(r.host)
    BY <1>1, <2>2, LearnedCovers
  <2> QED BY <1>6, <2>1, <2>2
<1>8. LeakInvOf(t)'
  <2>1. CASE FakePatch(t, r) \/ SynthHost(t, r)
    <3>1. r.path = "hosts" /\ pc'[t] = "reply"
      BY <1>1, <2>1 DEF FakePatch, SynthHost, Accept, ThreadTypeOK
    <3> QED BY <1>3, <3>1 DEF LeakInvOf
  <2>2. CASE RewriteConnection(t, r)
    <3>1. PICK h \in resolve(r.host) :
            Accept(t, r, IF r.method = "POST" THEN "grant" ELSE "call",
                   callFor(r, hostNames(r, h)))
      BY <2>2 DEF RewriteConnection
    <3>2. /\ pc'[t] \in {"grant", "call"} /\ call'[t].host = ArrayLevel(h.arrayHost)
          /\ body'[t] = {}
      BY <1>1, <1>4, <2>2, <3>1
         DEF RewriteConnection, Accept, ThreadTypeOK, callFor, hostNames
    <3>3. ~doublePrefixed(r.host, h)
      BY <2>2, <3>1, Resolved DEF OwnNamesOnly, RewriteConnection, rewritable
    <3>4. Covered(ArrayLevel(h.arrayHost))'
      BY <1>1, <2>2, <3>1, <3>3, LearnedCovers DEF RewriteConnection
    <3>5. call'[t].op # "listHosts"
      <4>1. r.path = "connections" /\ r.method \in {"GET", "POST", "DELETE", "PATCH"}
            /\ r.method # "PATCH"
        BY <2>2, RewriterAssumption, PassedCall DEF RequestType, RewriteConnection, rewritable
      <4>2. call'[t] = callFor(r, hostNames(r, h))
        BY <1>1, <3>1 DEF Accept, ThreadTypeOK
      <4> QED BY <4>1, <4>2 DEF callFor, opOf
    <3> QED BY <3>2, <3>4, <3>5 DEF LeakInvOf, Covered
  <2>3. CASE PassThrough(t, r)
    <3>1. pc'[t] = "pass" /\ body'[t] = {}
      BY <1>1, <1>4, <2>3 DEF PassThrough, Accept, ThreadTypeOK
    <3> QED BY <3>1 DEF LeakInvOf
  <2> QED BY <2>1, <2>2, <2>3 DEF Send
<1>9. \A u \in Threads : LeakInvOf(u)'
  BY <1>3, <1>5, <1>7, <1>8, OthersKept
<1>10. /\ \A k \in conns' : Covered(k.host)'
       /\ \A d \in BagToSet(late') : d.op = "connect" => Covered(d.host)'
  BY <1>3, <1>7 DEF LeakInv
<1> QED BY <1>7, <1>9, <1>10 DEF LeakInv

\* A handler that replies keeps LeakInv if its connection listing names px's hosts.
LEMMA ReplyLeakInv ==
  ASSUME Typed, LeakInv, NEW t \in Threads, NEW s, NEW b, Reply(t, s, b),
         req[t].path = "connections" => \A i \in b : isRealmHost(i.name),
         \A c \in BagToSet(late') : c.op = "connect" => Covered(c.host)
  PROVE  LeakInv'
<1>1. ThreadTypeOK
  BY DEF Typed, TypeOK
<1>2. /\ pc'[t] = "reply" /\ body'[t] = b
      /\ conns' = conns /\ byArrayHost' = byArrayHost /\ req' = req /\ call' = call
      /\ \A u \in Threads : u # t => pc'[u] = pc[u] /\ body'[u] = body[u] /\ todo'[u] = todo[u]
  BY <1>1 DEF Reply, ThreadTypeOK, arrayVars, shimVars
<1>3. \A n : Covered(n)' = Covered(n)
  BY <1>2 DEF Covered
<1>4. LeakInvOf(t)'
  BY <1>2 DEF LeakInvOf
<1>5. \A u \in Threads : LeakInvOf(u)'
  BY <1>2, <1>3, <1>4, OthersKept
<1> QED BY <1>2, <1>3, <1>5 DEF LeakInv
\* What passes the array unrewritten is a connect only for a realm host.
LEMMA WaitingCovered ==
  ASSUME Typed, LeakInv, NEW t \in Threads, waiting(t), call[t].op = "connect"
  PROVE  Covered(call[t].host)
<1>1. pc[t] \in {"granting", "call", "pass"}
  BY DEF waiting, awaits
<1>2. CASE pc[t] \in {"granting", "call"}
  BY <1>2 DEF LeakInv, LeakInvOf
<1>3. CASE pc[t] = "pass"
  <2>1. req[t] \in Requests /\ call[t] = callFor(req[t], req[t].host)
    BY <1>3 DEF Typed, Placed
  <2> QED BY <2>1, PassedConnect DEF callFor, Covered
<1> QED BY <1>1, <1>2, <1>3

\* The array's answer to thread t keeps LeakInv.
LEMMA AnswerLeakInv ==
  ASSUME Typed, LeakInv, NEW t \in Threads, ArrayExec(t)
  PROVE  LeakInv'
<1>1. ThreadTypeOK /\ Placed
  BY DEF Typed, TypeOK
<1>2. /\ waiting(t) /\ Execute(call[t]) /\ UNCHANGED byArrayHost /\ late' = late
      /\ req' = req /\ call' = call /\ todo' = todo
  BY DEF ArrayExec, shimVars, boundVars
<1>3. /\ pc[t] \in {"granting", "call", "pass"}
      /\ pc'[t] = IF pc[t] = "granting" THEN "granted"
                  ELSE IF pc[t] = "call" THEN "answered" ELSE "passed"
      /\ body'[t] = {Item(n, NoOwner) : n \in mentioned(call[t])}
      /\ \A u \in Threads : u # t => pc'[u] = pc[u] /\ body'[u] = body[u]
  BY <1>1 DEF ArrayExec, waiting, awaits, ThreadTypeOK
<1>4. \A n : Covered(n)' = Covered(n)
  BY <1>2 DEF Covered
<1>5. /\ \A k \in conns' : Covered(k.host)'
      /\ call[t].op # "listHosts" =>
           \A n \in mentioned(call[t]) :
             /\ Covered(n)'
             /\ call[t].op \in {"listConnections", "connect"}
             /\ (call[t].op = "listConnections" /\ call[t].host = NoHost) \/ n = call[t].host
  BY <1>2, WaitingCovered, ExecuteCovers DEF LeakInv
<1>6. LeakInvOf(t)
  BY DEF LeakInv
<1>7. LeakInvOf(t)'
  <2>1. CASE pc[t] = "granting"
    <3>1. mentioned(call[t]) = {}
      BY <1>1, <2>1 DEF Placed, mentioned
    <3> QED BY <1>2, <1>3, <1>4, <1>6, <2>1, <3>1 DEF LeakInvOf
  <2>2. CASE pc[t] = "call"
    <3>1. call[t].host # NoHost
      BY <1>1, <2>2, NodesTyped DEF Placed, ArrayNames, ArrayHosts, ArrayLevel, NoHost
    <3>2. \A n \in mentioned(call[t]) : n = call[t].host
      BY <1>5, <1>6, <2>2, <3>1 DEF LeakInvOf
    <3>3. \A i \in body'[t] : i.name = call'[t].host
      BY <1>2, <1>3, <3>2 DEF Item
    <3> QED BY <1>2, <1>3, <1>4, <1>6, <2>2, <3>3 DEF LeakInvOf
  <2>3. CASE pc[t] = "pass"
    <3>1. req[t] \in Requests /\ call[t] = callFor(req[t], req[t].host)
      BY <1>1, <2>3 DEF Placed
    <3>2. ASSUME req[t].path = "connections", NEW n \in mentioned(call[t])
          PROVE  Covered(n)' /\ (req[t].method # "GET" => isRealmHost(n))
      <4>1. req[t].method \in {"GET", "POST", "DELETE"}
        BY <3>1, <3>2, RewriterAssumption, PassedCall DEF RequestType
      <4>2. /\ call[t].op # "listHosts"
            /\ req[t].method # "GET" => call[t].op # "listConnections"
        BY <3>1, <3>2, <4>1 DEF callFor, opOf
      <4>3. req[t].method # "GET" => call[t].op = "connect" /\ n = call[t].host
        BY <1>5, <3>2, <4>2
      <4>4. req[t].method # "GET" => isRealmHost(n)
        BY <3>1, <4>3, PassedConnect DEF callFor
      <4> QED BY <1>5, <3>2, <4>2, <4>4
    <3>3. \A i \in body'[t] : req'[t].path = "connections" =>
            Covered(i.name)' /\ (req'[t].method # "GET" => isRealmHost(i.name))
      BY <1>2, <1>3, <3>2 DEF Item
    <3>4. pc'[t] = "passed"
      BY <1>3, <2>3
    <3> QED BY <3>3, <3>4 DEF LeakInvOf
  <2> QED BY <1>3, <2>1, <2>2, <2>3
<1>8. \A u \in Threads : LeakInvOf(u)'
  BY <1>2, <1>3, <1>4, <1>7, OthersKept
<1> QED BY <1>2, <1>4, <1>5, <1>8 DEF LeakInv

\* A visited item of a listing keeps LeakInv: an array host's name becomes px's.
LEMMA RewrittenItemLeakInv ==
  ASSUME PrefixFree, Typed, LeakInv, NEW t \in Threads, InjectItem(t) \/ MapBackItem(t)
  PROVE  LeakInv'
<1>1. ThreadTypeOK /\ LeakInvOf(t)
  BY DEF Typed, TypeOK, LeakInv
<1>2. PICK i, j : i \in todo[t] /\ RewriteItem(t, i, j)
  BY DEF InjectItem, MapBackItem
<1>3. /\ conns' = conns /\ late' = late /\ pc' = pc /\ req' = req /\ call' = call
      /\ body'[t] = (body[t] \ {i}) \union {j} /\ todo'[t] = todo[t] \ {i}
      /\ \A u \in Threads : u # t => body'[u] = body[u] /\ todo'[u] = todo[u]
  BY <1>1, <1>2 DEF RewriteItem, ThreadTypeOK, arrayVars, boundVars
<1>4. CASE InjectItem(t)
  <2>1. \/ UNCHANGED byArrayHost
        \/ \E n \in Names : learnRealmHost(n)
    BY <1>1, <1>4 DEF InjectItem, ThreadTypeOK, Items
  <2>2. /\ \A n : Covered(n) => Covered(n)'
        /\ \A a \in ArrayHosts : byArrayHost'[a] # NoHost => isRealmHost(byArrayHost'[a])
    <3>1. CASE UNCHANGED byArrayHost
      BY <3>1 DEF Covered, LeakInv
    <3>2. CASE \E n \in Names : learnRealmHost(n)
      BY <3>2, LearnedCovers
    <3> QED BY <2>1, <3>1, <3>2
  <2>3. LeakInvOf(t)'
    BY <1>1, <1>3, <1>4 DEF InjectItem, LeakInvOf
  <2>4. \A u \in Threads : LeakInvOf(u)'
    BY <1>3, <2>2, <2>3, OthersKept
  <2> QED BY <1>3, <2>2, <2>4 DEF LeakInv
<1>5. CASE MapBackItem(t)
  <2>1. PICK x \in todo[t] :
          LET learned == IF ~isRealmHost(x.name) /\ x.name.rest \in ArrayHosts
                         THEN byArrayHost[x.name.rest] ELSE NoHost
          IN  RewriteItem(t, x, IF learned = NoHost THEN x ELSE Item(learned, x.owner))
    BY <1>5 DEF MapBackItem
  <2> DEFINE learned == IF ~isRealmHost(x.name) /\ x.name.rest \in ArrayHosts
                        THEN byArrayHost[x.name.rest] ELSE NoHost
             y == IF learned = NoHost THEN x ELSE Item(learned, x.owner)
  <2>2. pc[t] = "mapback" /\ UNCHANGED byArrayHost
    BY <1>5 DEF MapBackItem
  <2>3. Covered(x.name)
    BY <1>1, <2>1, <2>2 DEF LeakInvOf
  <2>4. isRealmHost(y.name)
    <3>1. CASE isRealmHost(x.name)
      BY <3>1
    <3>2. CASE ~isRealmHost(x.name)
      <4>1. x.name.rest \in ArrayHosts /\ byArrayHost[x.name.rest] # NoHost
        BY <2>3, <3>2 DEF Covered, ArrayNames, ArrayLevel
      <4>2. isRealmHost(byArrayHost[x.name.rest])
        BY <4>1 DEF LeakInv
      <4> QED BY <3>2, <4>1, <4>2 DEF Item
    <3> QED BY <3>1, <3>2
  <2>5. RewriteItem(t, x, y)
    BY <2>1
  <2> HIDE DEF y
  <2>6. body'[t] = (body[t] \ {x}) \union {y} /\ todo'[t] = todo[t] \ {x}
    BY <1>1, <2>5 DEF RewriteItem, ThreadTypeOK
  <2>7. \A n : Covered(n)' = Covered(n)
    BY <2>2 DEF Covered
  <2>8. LeakInvOf(t)'
    BY <1>1, <1>3, <2>2, <2>4, <2>6, <2>7 DEF LeakInvOf
  <2>9. \A u \in Threads : LeakInvOf(u)'
    BY <1>3, <2>7, <2>8, OthersKept
  <2> QED BY <1>3, <2>2, <2>7, <2>9 DEF LeakInv
<1> QED BY <1>4, <1>5

\* The handler's own steps keep LeakInv.
LEMMA HandleLeakInv ==
  ASSUME RewriteEnabled, PrefixFree, Typed, LeakInv, NEW t \in Threads, Handle(t)
  PROVE  LeakInv'
<1>1. ThreadTypeOK /\ Placed /\ LeakInvOf(t)
  BY DEF Typed, TypeOK, LeakInv
<1>2. ASSUME NEW s, NEW b, Reply(t, s, b), late' = late,
             req[t].path = "connections" => \A i \in b : isRealmHost(i.name)
      PROVE  LeakInv'
  <2>1. \A c \in BagToSet(late') : c.op = "connect" => Covered(c.host)
    BY <1>2 DEF LeakInv
  <2> QED BY <1>2, <2>1, ReplyLeakInv
<1>3. ASSUME NEW op, NEW to, setCall(t, op, to), pc[t] \in {"grant", "granted"},
             op \in {"grant", "connect"}, to \in {"granting", "call"}
      PROVE  LeakInv'
  <2>1. /\ conns' = conns /\ late' = late /\ byArrayHost' = byArrayHost
        /\ req' = req /\ body' = body /\ todo' = todo
        /\ pc'[t] = to /\ call'[t].host = call[t].host /\ call'[t].op = op
        /\ \A u \in Threads : u # t => pc'[u] = pc[u] /\ call'[u] = call[u]
    BY <1>1, <1>3 DEF setCall, ThreadTypeOK, Placed, Calls, arrayVars, boundVars
  <2>2. \A n : Covered(n)' = Covered(n)
    BY <2>1 DEF Covered
  <2>3. LeakInvOf(t)'
    BY <1>1, <1>3, <2>1, <2>2 DEF LeakInvOf
  <2>4. \A u \in Threads : LeakInvOf(u)'
    BY <2>1, <2>2, <2>3, OthersKept
  <2> QED BY <2>1, <2>2, <2>4 DEF LeakInv
<1>4. CASE GrantCached(t) \/ GrantSend(t) \/ GrantStore(t)
  BY <1>3, <1>4 DEF GrantCached, GrantSend, GrantStore
<1>5. CASE GrantError(t) \/ EmptyHosts(t)
  BY <1>2, <1>5 DEF GrantError, EmptyHosts
<1>6. CASE AnswerConnection(t)
  <2> DEFINE own(n) == IF n = call[t].host THEN req[t].host ELSE n
             named == {Item(own(i.name), i.owner) : i \in body[t]}
             b == IF req[t].method = "POST" /\ answer[t] = "exists"
                  THEN {Item(req[t].host, NoOwner)} ELSE named
  <2>1. isRealmHost(req[t].host) /\ \A i \in body[t] : i.name = call[t].host
    BY <1>1, <1>6 DEF AnswerConnection, Placed, LeakInvOf
  <2>2. \A i \in b : isRealmHost(i.name)
    BY <2>1 DEF Item
  <2>3. Reply(t, statusOf(req[t].method, answer[t]), b) /\ late' = late
    BY <1>6 DEF AnswerConnection
  <2> HIDE DEF b
  <2> QED BY <1>2, <2>2, <2>3
<1>7. CASE ForwardAsIs(t)
  <2>1. pc[t] = "passed" /\ ~(req[t].path = "connections" /\ req[t].method = "GET")
    BY <1>7 DEF ForwardAsIs, ConnList
  <2>2. req[t].path = "connections" => \A i \in body[t] : isRealmHost(i.name)
    BY <1>1, <2>1 DEF LeakInvOf
  <2> QED BY <1>2, <1>7, <2>2 DEF ForwardAsIs
<1>8. CASE BeginRewrite(t)
  <2>1. /\ conns' = conns /\ late' = late /\ byArrayHost' = byArrayHost
        /\ req' = req /\ body' = body /\ call' = call
        /\ todo'[t] = body[t]
        /\ \A u \in Threads : u # t => pc'[u] = pc[u] /\ todo'[u] = todo[u]
    BY <1>1, <1>8 DEF BeginRewrite, ThreadTypeOK, arrayVars, shimVars, boundVars
  <2>2. \A n : Covered(n)' = Covered(n)
    BY <2>1 DEF Covered
  <2>3. \/ pc'[t] = "inject" /\ req[t].path = "hosts"
        \/ pc'[t] = "mapback" /\ req[t].path = "connections"
    BY <1>1, <1>8 DEF BeginRewrite, HostList, ConnList, ThreadTypeOK
  <2>4. LeakInvOf(t)'
    BY <1>1, <1>8, <2>1, <2>2, <2>3 DEF BeginRewrite, LeakInvOf
  <2>5. \A u \in Threads : LeakInvOf(u)'
    BY <2>1, <2>2, <2>4, OthersKept
  <2> QED BY <2>1, <2>2, <2>5 DEF LeakInv
<1>9. CASE InjectItem(t) \/ MapBackItem(t)
  BY <1>9, RewrittenItemLeakInv
<1>10. CASE EndRewrite(t)
  <2>1. req[t].path = "connections" => \A i \in body[t] : isRealmHost(i.name)
    BY <1>1, <1>10 DEF EndRewrite, LeakInvOf
  <2> QED BY <1>2, <1>10, <2>1 DEF EndRewrite
<1>11. CASE Deliver(t)
  <2>1. /\ conns' = conns /\ late' = late /\ byArrayHost' = byArrayHost /\ todo' = todo
        /\ pc'[t] = "idle" /\ body'[t] = {}
        /\ \A u \in Threads : u # t => /\ pc'[u] = pc[u] /\ req'[u] = req[u]
                                      /\ call'[u] = call[u] /\ body'[u] = body[u]
    BY <1>1, <1>11 DEF Deliver, ThreadTypeOK, arrayVars, shimVars, boundVars
  <2>2. \A n : Covered(n)' = Covered(n)
    BY <2>1 DEF Covered
  <2>3. LeakInvOf(t)'
    BY <2>1 DEF LeakInvOf
  <2>4. \A u \in Threads : LeakInvOf(u)'
    BY <2>1, <2>2, <2>3, OthersKept
  <2> QED BY <2>1, <2>2, <2>4 DEF LeakInv
<1>12. CASE ArrayExec(t)
  BY <1>12, AnswerLeakInv
<1> QED
  BY <1>4, <1>5, <1>6, <1>7, <1>8, <1>9, <1>10, <1>11, <1>12 DEF Handle

\* Faults, late calls and operators keep LeakInv; only a restart uncovers names.
LEMMA EnvironmentLeakInv ==
  ASSUME Typed, LeakInv,
         \/ \E t \in Threads : ArrayRefuse(t) \/ CallLost(t)
         \/ LateExec \/ Reprovision
  PROVE  LeakInv'
<1>1. ThreadTypeOK /\ TypeOK
  BY DEF Typed, TypeOK
<1>2. ASSUME NEW t \in Threads, ArrayRefuse(t) PROVE LeakInv'
  <2>1. /\ conns' = conns /\ late' = late /\ byArrayHost' = byArrayHost
        /\ req' = req /\ call' = call /\ body' = body /\ todo' = todo
        /\ pc[t] \in {"granting", "call", "pass"}
        /\ pc'[t] = IF pc[t] = "granting" THEN "granted"
                    ELSE IF pc[t] = "call" THEN "answered" ELSE "passed"
        /\ \A u \in Threads : u # t => pc'[u] = pc[u]
    BY <1>1, <1>2 DEF ArrayRefuse, waiting, awaits, ThreadTypeOK, arrayVars, shimVars
  <2>2. \A n : Covered(n)' = Covered(n)
    BY <2>1 DEF Covered
  <2>3. LeakInvOf(t)'
    BY <2>1, <2>2 DEF LeakInv, LeakInvOf
  <2>4. \A u \in Threads : LeakInvOf(u)'
    BY <2>1, <2>2, <2>3, OthersKept
  <2> QED BY <2>1, <2>2, <2>4 DEF LeakInv
<1>3. ASSUME NEW t \in Threads, CallLost(t) PROVE LeakInv'
  <2>1. \A c \in BagToSet(late') : c \in BagToSet(late) \/ (waiting(t) /\ c = call[t])
    BY <1>1, <1>3, LateLost
  <2>2. \A c \in BagToSet(late') : c.op = "connect" => Covered(c.host)
    BY <2>1, WaitingCovered DEF LeakInv
  <2> QED BY <1>3, <2>2, ReplyLeakInv DEF CallLost
<1>4. CASE LateExec
  <2>1. PICK c \in BagToSet(late) : Execute(c)
    BY <1>4 DEF LateExec
  <2>2. byArrayHost' = byArrayHost /\ UNCHANGED threadVars
    BY <1>4 DEF LateExec, shimVars
  <2>3. \A n : Covered(n)' = Covered(n)
    BY <2>2 DEF Covered
  <2>4. \A k \in conns' : Covered(k.host)'
    BY <2>1, <2>2, ExecuteCovers DEF LeakInv
  <2>5. \A u \in Threads : LeakInvOf(u)'
    BY <2>2, <2>3 DEF LeakInv, LeakInvOf, threadVars
  <2>6. BagToSet(late') \subseteq BagToSet(late)
    BY <1>1, <1>4, LateArrives
  <2> QED BY <2>2, <2>3, <2>4, <2>5, <2>6 DEF LeakInv
<1>5. CASE Reprovision
  <2>1. byArrayHost' = byArrayHost /\ UNCHANGED threadVars /\ late' = late
    BY <1>5 DEF Reprovision, shimVars
  <2>2. conns' \subseteq conns
    BY <1>5 DEF Reprovision, Provision, Deprovision, OperatorGrant, OperatorDisconnect
  <2>3. \A n : Covered(n)' = Covered(n)
    BY <2>1 DEF Covered
  <2>4. \A u \in Threads : LeakInvOf(u)'
    BY <2>1, <2>3 DEF LeakInv, LeakInvOf, threadVars
  <2> QED BY <2>1, <2>2, <2>3, <2>4 DEF LeakInv
<1> QED BY <1>2, <1>3, <1>4, <1>5

\* Every step of a shim that never restarts keeps LeakInv.
LEMMA StepLeakInv ==
  ASSUME RewriteEnabled, MaxRestarts = 0, PrefixFree, OwnNamesOnly
  PROVE  Typed /\ LeakInv /\ [Next]_vars => LeakInv'
<1> SUFFICES ASSUME Typed, LeakInv, [Next]_vars PROVE LeakInv'
  OBVIOUS
<1>1. ~Restart
  BY DEF Restart, Typed, TypeOK, BoundTypeOK
<1>2. CASE Next
  BY <1>1, <1>2, SendLeakInv, HandleLeakInv, EnvironmentLeakInv DEF Next
<1>3. CASE UNCHANGED vars
  <2>1. \A n : Covered(n)' = Covered(n)
    BY <1>3 DEF Covered, vars, shimVars
  <2>2. \A u \in Threads : LeakInvOf(u)'
    BY <1>3, <2>1 DEF LeakInv, LeakInvOf, vars, threadVars
  <2> QED BY <1>3, <2>1, <2>2 DEF LeakInv, vars, arrayVars, shimVars, boundVars
<1> QED BY <1>2, <1>3

LEMMA InitLeakInv == Init => LeakInv
BY DEF Init, LeakInv, LeakInvOf, EmptyBag, SetToBag, BagToSet

(***************************************************************************)
(* NoArrayHostLeak for any number of requests, realms, nodes and faults:   *)
(* if the shim has not been restarted, its map tells the nodes apart and   *)
(* px calls /connections under its own names, px is never shown an array   *)
(* host's name in an answer about connections, whatever was made, listed   *)
(* or executed late by whichever thread.  LeakHeals is what is left of it  *)
(* after a restart.                                                        *)
(***************************************************************************)
THEOREM OwnNamesInListings ==
  ASSUME RewriteEnabled, MaxRestarts = 0, PrefixFree, OwnNamesOnly
  PROVE  Spec => []NoArrayHostLeak
<1>1. Spec => [](Typed /\ LeakInv)
  <2>1. Init => Typed /\ LeakInv
    BY InitTyped, InitLeakInv
  <2>2. Typed /\ LeakInv /\ [Next]_vars => Typed' /\ LeakInv'
    BY StepTyped, StepLeakInv
  <2> QED BY <2>1, <2>2, PTL DEF Spec
<1>2. LeakInv => NoArrayHostLeak
  BY DEF LeakInv, LeakInvOf, NoArrayHostLeak
<1> QED BY <1>1, <1>2, PTL

==============================================================================

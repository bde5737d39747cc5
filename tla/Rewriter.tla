------------------------------- MODULE Rewriter ------------------------------
(***************************************************************************)
(* The shim's Rewriter (internal/proxy/rewrite.go) between px and the      *)
(* array.  Each thread is one HTTP request the shim is handling; requests  *)
(* of several threads interleave at every call to the array and at every   *)
(* access to the two shared maps, byArrayHost and granted.                 *)
(*                                                                         *)
(* px is any client: an idle thread may issue any of Requests.  The array  *)
(* executes a call some time after it is sent; the call, or its answer,    *)
(* may be lost or time out, and a timed-out call may still be executed     *)
(* later, even after the shim restarts.                                    *)
(*                                                                         *)
(* arraySession.do is one call here: what it does about tokens is module   *)
(* ArraySession's subject.                                                 *)
(***************************************************************************)
EXTENDS FlashArray, Bags

CONSTANTS
  Threads,         \* requests the shim handles at a time
  Requests,        \* the requests px makes
  RewriteEnabled,  \* cfg.RewriteEnabled
  HasArrayToken,   \* cfg.ArrayToken # "", so rw.arr # nil
  MaxFaults,       \* bound: calls lost, timed out or refused for other reasons
  MaxRestarts,     \* bound: restarts of the shim
  MaxReprovisions, \* bound: what an operator does to array hosts, their accesses and connections
  Provisioned      \* array hosts there are when the shim is started

RequestType ==
  [method : {"GET", "POST", "DELETE", "PATCH"}, path : {"hosts", "connections"},
   host : [realm : Realms \union {NoRealm}, rest : Seq(STRING)], vol : Volumes \union {NoVolume}]

\* A call to /connections that names a realm host is for a volume of that realm:
\* px makes it with that realm's backend and token.
ASSUME RewriterAssumption ==
  /\ Requests \subseteq RequestType
  /\ \A r \in Requests :
       /\ r.path = "connections" /\ r.method # "GET" =>
            /\ r.method # "PATCH" /\ isRealmHost(r.host) /\ r.vol \in Volumes
            /\ volRealm[r.vol] = r.host.realm
       /\ r.path = "hosts" /\ r.method # "GET" => isRealmHost(r.host)
  /\ RewriteEnabled \in BOOLEAN /\ HasArrayToken \in BOOLEAN
  /\ IsFiniteSet(Threads)
  /\ MaxFaults \in Nat /\ MaxRestarts \in Nat /\ MaxReprovisions \in Nat
  /\ Provisioned \subseteq ArrayHosts

VARIABLES
  byArrayHost,   \* array host -> the realm host name px uses for it (NoHost: no entry)
  granted,       \* pairs <<array host, realm>> the shim has granted access for
  pc, req,       \* per thread: where its handler is, the request it handles
  call, answer,  \* per thread: the call to make or made to the array, and what it answered
  body,          \* per thread: host items of the response, [name, owner of its initiators]
  todo,          \* per thread: items of body a rewriting loop has still to visit
  status,        \* per thread: the HTTP status px gets
  late,          \* bag of the calls the shim has given up and the array may still execute
  faults, restarts, reprovisions,   \* counters of what the bounds limit
  met,           \* history: threads whose host and volume were connected since they began
  shown          \* history: host items px was given by GET /hosts, with their initiators

shimVars == <<byArrayHost, granted>>
threadVars == <<pc, req, call, answer, body, todo, status>>
boundVars == <<late, faults, restarts, reprovisions>>
vars == <<arrayVars, shimVars, threadVars, boundVars, met, shown>>

NoOwner == <<>>     \* a host item without initiators
NoRequest == [method |-> "none", path |-> "none", host |-> NoHost, vol |-> NoVolume]
NoCall == [op |-> "none", host |-> NoHost, vol |-> NoVolume, realm |-> NoRealm]

Item(name, owner) == [name |-> name, owner |-> owner]

HostNamesUsed == {r.host : r \in Requests}
ArrayNames == {ArrayLevel(a) : a \in ArrayHosts}
Names == HostNamesUsed \union ArrayNames

\* Grants are for array hosts; what is created, connected or granted is so in its own realm.
Calls ==
  {c \in [op : Ops, host : Names, vol : Volumes \union {NoVolume}, realm : Realms \union {NoRealm}] :
     /\ c.op = "createHost" => c.host \in HostNamesUsed
     /\ c.op = "grant" => c.host \in ArrayNames
     /\ c.op \in {"grant", "connect", "disconnect"} =>
          /\ c.vol \in Volumes /\ c.realm = volRealm[c.vol]
          /\ isRealmHost(c.host) => c.host.realm = c.realm}

Init ==
  /\ hosts \in SUBSET {r.host : r \in {q \in Requests : q.path = "hosts"
                                                       /\ q.method \in {"POST", "DELETE"}}}
  /\ arrayHosts = Provisioned /\ grants = {} /\ conns = {}
  /\ byArrayHost = [a \in ArrayHosts |-> NoHost]
  /\ granted = {}
  /\ pc = [t \in Threads |-> "idle"]
  /\ req = [t \in Threads |-> NoRequest]
  /\ call = [t \in Threads |-> NoCall]
  /\ answer = [t \in Threads |-> "none"]
  /\ body = [t \in Threads |-> {}]
  /\ todo = [t \in Threads |-> {}]
  /\ status = [t \in Threads |-> 0]
  /\ late = EmptyBag /\ faults = 0 /\ restarts = 0 /\ reprovisions = 0
  /\ met = {} /\ shown = {}

-----------------------------------------------------------------------------
\* Seeded bug: names are not recorded.
learnRealmHost_bug(name) == UNCHANGED byArrayHost

(***************************************************************************)
(* learnRealmHost.  It resolves the name itself, so an ambiguous name may  *)
(* be recorded for another array host than its caller resolved it to.      *)
(***************************************************************************)
learnRealmHost(name) ==
  \/ resolve(name) = {} /\ UNCHANGED byArrayHost
  \/ \E h \in resolve(name) :
       byArrayHost' = IF doublePrefixed(name, h) THEN byArrayHost
                      ELSE [byArrayHost EXCEPT ![h.arrayHost] = name]

\* The history of connections: who has seen its host and volume connected since it began.
Witness ==
  met' = {t \in Threads : pc'[t] # "idle" /\ (t \in met \/ Conn(call'[t]) \in conns')}

\* What each method and path asks of the array.
opOf ==
  [hosts |-> [GET |-> "listHosts", POST |-> "createHost", DELETE |-> "deleteHost",
              PATCH |-> "patchHost"],
   connections |-> [GET |-> "listConnections", POST |-> "connect", DELETE |-> "disconnect"]]

\* The call request r makes on behalf of host h.
callFor(r, h) ==
  [op |-> opOf[r.path][r.method], host |-> h, vol |-> r.vol, realm |-> realmOf(r.host)]

\* Thread t takes request r and goes to location to, with call c to make.
Accept(t, r, to, c) ==
  /\ pc[t] = "idle"
  /\ pc' = [pc EXCEPT ![t] = to]
  /\ req' = [req EXCEPT ![t] = r]
  /\ call' = [call EXCEPT ![t] = c]
  /\ UNCHANGED <<arrayVars, granted, answer, todo, boundVars, shown>>
  /\ Witness

\* The response of thread t, with status s and host items b, is ready.
Reply(t, s, b) ==
  /\ pc' = [pc EXCEPT ![t] = "reply"]
  /\ status' = [status EXCEPT ![t] = s]
  /\ body' = [body EXCEPT ![t] = b]
  /\ todo' = [todo EXCEPT ![t] = {}]
  /\ UNCHANGED <<arrayVars, shimVars, req, call, answer, restarts, reprovisions, shown>>
  /\ Witness

\* patchHostInitiators: px's PATCH add_* of a realm host's initiators never reaches the array.
FakePatch(t, r) ==
  /\ RewriteEnabled /\ r.path = "hosts" /\ r.method = "PATCH" /\ isRealmHost(r.host)
  /\ Accept(t, r, "reply", NoCall)
  /\ status' = [status EXCEPT ![t] = 200]
  /\ UNCHANGED <<byArrayHost, body>>

\* getHostSynth: the double-prefixed host px derives exists only in the shim's answer.
SynthHost(t, r) ==
  /\ RewriteEnabled /\ r.path = "hosts" /\ r.method = "GET" /\ ~isWild(r.host)
  /\ \E h \in resolve(r.host) :
       /\ doublePrefixed(r.host, h)
       /\ body' = [body EXCEPT ![t] = {Item(r.host, h.arrayHost)}]
  /\ Accept(t, r, "reply", NoCall)
  /\ status' = [status EXCEPT ![t] = 200]
  /\ UNCHANGED byArrayHost

\* Connection calls are rewritten if the shim has an array token to make them with.
rewritable(r) == RewriteEnabled /\ HasArrayToken /\ r.path = "connections"

\* Seeded bug: host_names is left as px sent it.
hostNames_bug(r, h) == r.host

\* The host_names of the rewritten call.
hostNames(r, h) == ArrayLevel(h.arrayHost)

\* connection, up to its first call: a call on a mapped realm host is made on its array host.
RewriteConnection(t, r) ==
  /\ rewritable(r)
  /\ \E h \in resolve(r.host) :
       Accept(t, r, IF r.method = "POST" THEN "grant" ELSE "call", callFor(r, hostNames(r, h)))
  /\ learnRealmHost(r.host)
  /\ UNCHANGED <<status, body>>

\* Intercept answers nil: the request goes to the array as px made it.
passes(r) ==
  \/ ~RewriteEnabled
  \/ r.path = "hosts" /\ r.method \in {"POST", "DELETE"}
  \/ /\ r.path = "hosts" /\ r.method = "GET"
     /\ isWild(r.host) \/ resolve(r.host) = {}
          \/ \E h \in resolve(r.host) : ~doublePrefixed(r.host, h)
  \/ r.path = "connections" /\ (resolve(r.host) = {} \/ ~HasArrayToken)

PassThrough(t, r) ==
  /\ passes(r)
  /\ Accept(t, r, "pass", callFor(r, r.host))
  /\ IF RewriteEnabled /\ r.path = "connections"
     THEN learnRealmHost(r.host)   \* done before connection notices there is no array token
     ELSE UNCHANGED byArrayHost
  /\ UNCHANGED <<status, body>>

Send(t, r) == FakePatch(t, r) \/ SynthHost(t, r) \/ RewriteConnection(t, r) \/ PassThrough(t, r)

-----------------------------------------------------------------------------
\* Seeded bug: the key is built the wrong way round.
grantKey_bug(t) == <<call[t].realm, call[t].host.rest>>

\* ensureRealmAccess caches pairs of an array host and a realm.
grantKey(t) == <<call[t].host.rest, call[t].realm>>

setCall(t, op, to) ==
  /\ pc' = [pc EXCEPT ![t] = to]
  /\ call' = [call EXCEPT ![t].op = op]
  /\ UNCHANGED <<arrayVars, byArrayHost, req, answer, body, todo, status, boundVars, shown>>
  /\ Witness

\* The pair is cached: no grant is asked for.
GrantCached(t) ==
  /\ pc[t] = "grant" /\ grantKey(t) \in granted
  /\ setCall(t, "connect", "call")
  /\ UNCHANGED granted

\* Seeded bug: the pair is cached before the array has answered.
GrantSend_bug(t) ==
  /\ pc[t] = "grant" /\ grantKey(t) \notin granted
  /\ setCall(t, "grant", "granting")
  /\ granted' = granted \union {grantKey(t)}

\* Otherwise the array is asked, whatever other threads are asking for.
GrantSend(t) ==
  /\ pc[t] = "grant" /\ grantKey(t) \notin granted
  /\ setCall(t, "grant", "granting")
  /\ UNCHANGED granted

\* Seeded bug: an access that already exists is an error.
containsExist_bug == {}

\* A 400 whose text contains "exist": "already exists", but "does not exist" as well.
containsExist == {"exists", "absent"}

\* The grant is in place: it is cached, and the connection call can be made.
GrantStore(t) ==
  /\ pc[t] = "granted" /\ answer[t] \in {"ok"} \union containsExist
  /\ granted' = granted \union {grantKey(t)}
  /\ setCall(t, "connect", "call")

\* Any other answer is an error: px gets a 502 and the connection is not tried.
GrantError(t) ==
  /\ pc[t] = "granted" /\ answer[t] \notin {"ok"} \union containsExist
  /\ Reply(t, 502, {})
  /\ UNCHANGED <<late, faults>>

\* Seeded bug: the text of the 400 is not looked at.
statusOf_bug(method, a) == IF a = "ok" \/ method = "POST" THEN 200 ELSE 400

\* A POST the array answers with "already exists" is a success.
statusOf(method, a) ==
  IF a = "ok" \/ (method = "POST" /\ a = "exists") THEN 200 ELSE 400

\* connection, after its call: the array host's name becomes the name px used.
AnswerConnection(t) ==
  /\ pc[t] = "answered"
  /\ LET own(n) == IF n = call[t].host THEN req[t].host ELSE n
         named  == {Item(own(i.name), i.owner) : i \in body[t]}
     IN  Reply(t, statusOf(req[t].method, answer[t]),
               IF req[t].method = "POST" /\ answer[t] = "exists"
               THEN {Item(req[t].host, NoOwner)} ELSE named)
  /\ UNCHANGED <<late, faults>>

-----------------------------------------------------------------------------
\* ModifyResponse, for what was proxied to the array.
HostList(t) == RewriteEnabled /\ req[t].path = "hosts" /\ req[t].method = "GET"
ConnList(t) == RewriteEnabled /\ req[t].path = "connections" /\ req[t].method = "GET"

\* emptyHostsIfNoMatch: "No matching hosts found" of a wildcard listing becomes an empty list.
EmptyHosts(t) ==
  /\ pc[t] = "passed" /\ HostList(t) /\ answer[t] = "nomatch" /\ isWild(req[t].host)
  /\ Reply(t, 200, {})
  /\ UNCHANGED <<late, faults>>

\* A response without a list to rewrite is px's as it is.
ForwardAsIs(t) ==
  /\ pc[t] = "passed" /\ ~ConnList(t)
  /\ HostList(t) => answer[t] # "ok" /\ ~(answer[t] = "nomatch" /\ isWild(req[t].host))
  /\ Reply(t, IF answer[t] = "ok" THEN 200 ELSE 400, body[t])
  /\ UNCHANGED <<late, faults>>

BeginRewrite(t) ==
  /\ pc[t] = "passed"
  /\ \/ HostList(t) /\ answer[t] = "ok" /\ pc' = [pc EXCEPT ![t] = "inject"]
     \/ ConnList(t) /\ pc' = [pc EXCEPT ![t] = "mapback"]
  /\ todo' = [todo EXCEPT ![t] = body[t]]
  /\ UNCHANGED <<arrayVars, shimVars, req, call, answer, body, status, boundVars, shown>>
  /\ Witness

\* One round of a rewriting loop: item i of the body becomes j.
RewriteItem(t, i, j) ==
  /\ todo' = [todo EXCEPT ![t] = @ \ {i}]
  /\ body' = [body EXCEPT ![t] = (@ \ {i}) \union {j}]
  /\ UNCHANGED <<arrayVars, granted, pc, req, call, answer, status, boundVars, shown>>
  /\ Witness

\* ModifyHostsResponse: a listed realm host is learned and given its array host's initiators.
InjectItem(t) ==
  /\ pc[t] = "inject"
  /\ \E i \in todo[t] :
       \/ /\ resolve(i.name) = {}
          /\ RewriteItem(t, i, i) /\ UNCHANGED byArrayHost
       \/ /\ \E h \in resolve(i.name) : RewriteItem(t, i, Item(i.name, h.arrayHost))
          /\ learnRealmHost(i.name)

\* mapConnHostsBack: sync.Map's Range is no snapshot, so each name is looked up when it is met.
MapBackItem(t) ==
  /\ pc[t] = "mapback"
  /\ \E i \in todo[t] :
       LET learned == IF ~isRealmHost(i.name) /\ i.name.rest \in ArrayHosts
                      THEN byArrayHost[i.name.rest] ELSE NoHost
       IN  RewriteItem(t, i, IF learned = NoHost THEN i ELSE Item(learned, i.owner))
  /\ UNCHANGED byArrayHost

EndRewrite(t) ==
  /\ pc[t] \in {"inject", "mapback"} /\ todo[t] = {}
  /\ Reply(t, IF answer[t] = "ok" THEN 200 ELSE 400, body[t])
  /\ UNCHANGED <<late, faults>>

\* The response goes to px.
Deliver(t) ==
  /\ pc[t] = "reply"
  /\ shown' = IF req[t].path = "hosts" THEN shown \union {i \in body[t] : i.owner # NoOwner}
              ELSE shown
  /\ pc' = [pc EXCEPT ![t] = "idle"]
  /\ req' = [req EXCEPT ![t] = NoRequest]
  /\ call' = [call EXCEPT ![t] = NoCall]
  /\ answer' = [answer EXCEPT ![t] = "none"]
  /\ body' = [body EXCEPT ![t] = {}]
  /\ status' = [status EXCEPT ![t] = 0]
  /\ UNCHANGED <<arrayVars, shimVars, todo, boundVars>>
  /\ Witness

-----------------------------------------------------------------------------
\* Where a handler waits for the array, and where it goes on with the answer.
awaits == [granting |-> "granted", call |-> "answered", pass |-> "passed"]

waiting(t) == pc[t] \in DOMAIN awaits

\* The array carries out the call of thread t, and its answer reaches the shim.
ArrayExec(t) ==
  /\ waiting(t)
  /\ Execute(call[t])
  /\ answer' = [answer EXCEPT ![t] = outcome(call[t])]
  /\ body' = [body EXCEPT ![t] = {Item(n, NoOwner) : n \in mentioned(call[t])}]
  /\ pc' = [pc EXCEPT ![t] = awaits[pc[t]]]
  /\ UNCHANGED <<shimVars, req, call, todo, status, boundVars, shown>>
  /\ Witness

\* The array answers without carrying the call out (overload, session trouble, ...).
ArrayRefuse(t) ==
  /\ waiting(t) /\ faults < MaxFaults
  /\ answer' = [answer EXCEPT ![t] = "refused"]
  /\ pc' = [pc EXCEPT ![t] = awaits[pc[t]]]
  /\ faults' = faults + 1
  /\ UNCHANGED <<arrayVars, shimVars, req, call, body, todo, status, late, restarts, reprovisions, shown>>
  /\ Witness

\* The calls of the threads of S, in a bag.
callsOf(S) == [c \in {call[t] : t \in S} |-> Cardinality({t \in S : call[t] = c})]

(***************************************************************************)
(* The call fails in transit: arraySession.do returns an error, or the     *)
(* reverse proxy runs its ErrorHandler, and px gets a 502.  The call may   *)
(* have been executed (the answer was lost), may never be, or may be later *)
(* (the client's timeout does not stop the array).                         *)
(***************************************************************************)
CallLost(t) ==
  /\ waiting(t) \/ pc[t] \in {"granted", "answered", "passed"}
  /\ faults < MaxFaults
  /\ late' = late \/ (waiting(t) /\ late' = late (+) callsOf({t}))
  /\ faults' = faults + 1
  /\ Reply(t, 502, {})

\* The array gets to a call the shim has given up.
LateExec ==
  \E c \in BagToSet(late) :
    /\ Execute(c)
    /\ late' = late (-) SetToBag({c})
    /\ UNCHANGED <<shimVars, threadVars, faults, restarts, reprovisions, shown>>
    /\ Witness

\* The shim restarts: its maps and its handlers are gone, the calls it has made are not.
Restart ==
  /\ restarts < MaxRestarts
  /\ restarts' = restarts + 1
  /\ byArrayHost' = [a \in ArrayHosts |-> NoHost]
  /\ granted' = {}
  /\ \E lost \in SUBSET {t \in Threads : waiting(t)} : late' = late (+) callsOf(lost)
  /\ pc' = [t \in Threads |-> "idle"]
  /\ req' = [t \in Threads |-> NoRequest]
  /\ call' = [t \in Threads |-> NoCall]
  /\ answer' = [t \in Threads |-> "none"]
  /\ body' = [t \in Threads |-> {}]
  /\ todo' = [t \in Threads |-> {}]
  /\ status' = [t \in Threads |-> 0]
  /\ UNCHANGED <<arrayVars, faults, reprovisions, shown>>
  /\ Witness

Reprovision ==
  /\ reprovisions < MaxReprovisions
  /\ reprovisions' = reprovisions + 1
  /\ \/ \E a \in ArrayHosts : \/ Provision(a) \/ Deprovision(a)
                              \/ \E realm \in Realms : OperatorGrant(a, realm)
     \/ \E k \in conns : OperatorDisconnect(k)
  /\ UNCHANGED <<shimVars, threadVars, late, faults, restarts, shown>>
  /\ Witness

-----------------------------------------------------------------------------
\* The steps of thread t that neither wait for px nor for a fault.
Handle(t) ==
  \/ GrantCached(t) \/ GrantSend(t) \/ GrantStore(t) \/ GrantError(t)
  \/ AnswerConnection(t) \/ EmptyHosts(t) \/ ForwardAsIs(t)
  \/ BeginRewrite(t) \/ InjectItem(t) \/ MapBackItem(t) \/ EndRewrite(t) \/ Deliver(t)
  \/ ArrayExec(t)

Next ==
  \/ \E t \in Threads :
       \/ \E r \in Requests : Send(t, r)
       \/ Handle(t) \/ ArrayRefuse(t) \/ CallLost(t)
  \/ LateExec \/ Restart \/ Reprovision

Spec == Init /\ [][Next]_vars

(***************************************************************************)
(* Every handler runs on, and every call is answered or times out (the     *)
(* clients have 30s and 60s timeouts; faults are bounded, so the timeouts  *)
(* end and the array answers).  px retries: each of its requests is made   *)
(* again and again, whatever became of it before.                          *)
(***************************************************************************)
Fairness ==
  /\ \A t \in Threads : WF_vars(Handle(t))
  /\ \A r \in Requests : SF_vars(\E t \in Threads : Send(t, r))

FairSpec == Spec /\ Fairness

-----------------------------------------------------------------------------
Items == [name : Names, owner : ArrayHosts \union {NoOwner}]
Locations == {"idle", "grant", "granting", "granted", "call", "answered",
              "pass", "passed", "inject", "mapback", "reply"}

ArrayTypeOK ==
  /\ hosts \subseteq HostNamesUsed
  /\ arrayHosts \subseteq ArrayHosts
  /\ grants \subseteq ArrayHosts \X Realms
  /\ conns \subseteq [host : Names, vol : Volumes]

MapTypeOK ==
  /\ byArrayHost \in [ArrayHosts -> HostNamesUsed \union {NoHost}]
  /\ granted \subseteq ArrayHosts \X Realms

ThreadTypeOK ==
  /\ pc \in [Threads -> Locations]
  /\ req \in [Threads -> Requests \union {NoRequest}]
  /\ call \in [Threads -> Calls \union {NoCall}]
  /\ answer \in [Threads -> Answers \union {"none"}]
  /\ body \in [Threads -> SUBSET Items]
  /\ todo \in [Threads -> SUBSET Items]
  /\ status \in [Threads -> {0, 200, 400, 502}]

BoundTypeOK ==
  /\ IsABag(late) /\ BagToSet(late) \subseteq Calls
  /\ faults \in 0 .. MaxFaults /\ restarts \in 0 .. MaxRestarts
  /\ reprovisions \in 0 .. MaxReprovisions

\* Every variable has its type; in particular the shim only ever records names px used.
TypeOK ==
  /\ ArrayTypeOK /\ MapTypeOK /\ ThreadTypeOK /\ BoundTypeOK
  /\ met \subseteq Threads /\ shown \subseteq Items

\* Thread t handles a /connections request on its mapped array host.
Rewritten(t) ==
  call[t].op \in {"grant", "connect", "disconnect", "listConnections"}
    /\ ~isRealmHost(call[t].host) /\ isRealmHost(req[t].host)

(***************************************************************************)
(* The grant comes first: as long as no operator takes an access away, the *)
(* array never refuses a rewritten connection because the array host has   *)
(* no access into the realm, whatever calls fail, are repeated or are      *)
(* executed late, and across restarts of the shim.                         *)
(***************************************************************************)
GrantedBeforeConnect == \A t \in Threads : answer[t] # "noaccess"

(***************************************************************************)
(* What granted caches is in place on the array (ensureRealmAccess: a 400  *)
(* "that mentions the grant already exists is equally fine").              *)
(***************************************************************************)
CachedMeansGranted == granted \subseteq grants

(***************************************************************************)
(* A success is true: when px is told that a connection was made, its      *)
(* volume was connected to the array host at some moment since the request *)
(* came in, also when the array said "already exists" to a retry.          *)
(***************************************************************************)
AckedWasConnected ==
  \A t \in Threads :
    pc[t] = "reply" /\ status[t] = 200 /\ call[t].op = "connect" => t \in met

(***************************************************************************)
(* No connection is made on a realm host that has a mapping, and none on   *)
(* an array host unless the shim has the array token: a realm host owns no *)
(* initiators, so its connections lead nowhere.                            *)
(***************************************************************************)
ConnectedAsMapped ==
  \A k \in conns :
    IF isRealmHost(k.host)
    THEN ~RewriteEnabled \/ ~HasArrayToken \/ resolve(k.host) = {}
    ELSE RewriteEnabled /\ HasArrayToken

(***************************************************************************)
(* The initiators px sees on a realm host are those of the array host its  *)
(* connections of that realm host are made on.                             *)
(***************************************************************************)
SameNode ==
  \A t \in Threads : \A i \in shown :
    Rewritten(t) /\ i.name = req[t].host => call[t].host = ArrayLevel(i.owner)

(***************************************************************************)
(* "px only ever sees its own names" (mapConnHostsBack): no connection     *)
(* listing px gets, by host or by volume, holds an array-level host name.  *)
(***************************************************************************)
NoArrayHostLeak ==
  \A t \in Threads :
    pc[t] = "reply" /\ req[t].path = "connections" =>
      \A i \in body[t] : isRealmHost(i.name)

(***************************************************************************)
(* "Portworx only ever sees its own realm host": the names in the          *)
(* connections of a volume are host names of the volume's realm.           *)
(***************************************************************************)
OwnRealmOnly ==
  \A t \in Threads :
    pc[t] = "reply" /\ req[t].path = "connections" /\ req[t].vol # NoVolume =>
      \A i \in body[t] : isRealmHost(i.name) => realmOf(i.name) = volRealm[req[t].vol]

(***************************************************************************)
(* What px sees of a request that connects or disconnects: the grants, the *)
(* array hosts' names and what the array answers are hidden.               *)
(***************************************************************************)
isCommand(r) == r.path = "connections" /\ r.method \in {"POST", "DELETE"}

Commands ==
  {[op |-> opOf[r.path][r.method], name |-> r.host, vol |-> r.vol] : r \in {q \in Requests : isCommand(q)}}

\* Where the connections of a name are made.
placesOf ==
  [n \in HostNamesUsed |->
     IF RewriteEnabled /\ HasArrayToken /\ resolve(n) # {}
     THEN {ArrayLevel(h.arrayHost) : h \in resolve(n)} ELSE {n}]

NoOrder == [op |-> "none", name |-> NoHost, vol |-> NoVolume, place |-> NoHost]

order ==
  [t \in Threads |->
     IF isCommand(req[t])
     THEN [op |-> opOf[req[t].path][req[t].method], name |-> req[t].host, vol |-> req[t].vol,
           place |-> call[t].host]
     ELSE NoOrder]

\* The array has carried the command of t out.
effective(t) ==
  answer[t] = "ok" \/ (pc[t] = "answered" /\ req[t].method = "POST" /\ answer[t] = "exists")

phase ==
  [t \in Threads |->
     IF ~isCommand(req[t]) THEN "idle"
     ELSE IF pc[t] = "reply" THEN (IF status[t] = 200 THEN "ok" ELSE "error")
     ELSE IF pc[t] \notin {"answered", "passed"} THEN "asked"
     ELSE IF effective(t) THEN "done" ELSE "refused"]

\* A call that connects or disconnects is known by what it does, and where.
taskOf(c) == [op |-> c.op, place |-> c.host, vol |-> c.vol]
callOf(k) == [op |-> k.op, host |-> k.place, vol |-> k.vol, realm |-> volRealm[k.vol]]

\* The tasks of the calls in the bag B.
tasksIn(B) ==
  [k \in {taskOf(c) : c \in {d \in BagToSet(B) : d.op \in {"connect", "disconnect"}}} |->
     B[callOf(k)]]

left == tasksIn(late)

Promised == INSTANCE Attachment WITH attached <- conns

(***************************************************************************)
(* Transparent to px: each of its requests to connect or to disconnect is  *)
(* one command that takes effect at most once, on a host its name stands   *)
(* for, and before px is told so; nothing else but an operator changes     *)
(* what is connected, whatever is lost, late, repeated or restarted.       *)
(***************************************************************************)
CommandsTakeEffectOnce == Promised!Spec

(***************************************************************************)
(* What px keeps asking for, it gets: the volumes of all connections px    *)
(* keeps requesting (and never deletes) are in the end connected to the    *)
(* array hosts of their nodes, after any faults and restarts.              *)
(***************************************************************************)
EventuallyConnected ==
  \A r \in Requests :
    r.path = "connections" /\ r.method = "POST" =>
      <>[](\A h \in resolve(r.host) :
             [host |-> ArrayLevel(h.arrayHost), vol |-> r.vol] \in conns)

(***************************************************************************)
(* The leak of a restarted shim heals: once px has used its realm host     *)
(* again, its listings hold its own names for good.                        *)
(***************************************************************************)
LeakHeals == <>[]NoArrayHostLeak
=============================================================================

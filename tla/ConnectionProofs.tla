--------------------------- MODULE ConnectionProofs ---------------------------
(***************************************************************************)
(* What px is told of its connections, for every host map, set of          *)
(* requests, number of threads, fault, restart and act of an operator.     *)
(*                                                                         *)
(*   AckInv    an answer that will become a success has been met with the  *)
(*             connection in place                                         *)
(*   MapInv    every connect call under way, given up or to be made is     *)
(*             rewritten if it can be                                      *)
(*   NodeInv   the initiators of a listed name, and the call made for a    *)
(*             name, are those of an array host the name is resolved to    *)
(*   RealmInv  what is connected, about to be, recorded or in an answer is *)
(*             of the realm of its volume, or on an array host that serves *)
(*             the realm                                                   *)
(*   CommandInv  the call of a command is the one its request asks for, on *)
(*             a host its name stands for; under it each step of Rewriter  *)
(*             is a step of Attachment or changes none of its variables    *)
(***************************************************************************)
EXTENDS RewriterProofs

\* A call that passes through is the request px made; an answer of success has its witness.
AckInv ==
  \A t \in Threads :
    /\ pc[t] \in {"pass", "passed"} => call[t] = callFor(req[t], req[t].host)
    /\ /\ pc[t] \in {"answered", "passed", "inject", "mapback"}
       /\ call[t].op = "connect" /\ answer[t] \in {"ok", "exists"}
       => t \in met
    /\ pc[t] = "reply" /\ status[t] = 200 /\ call[t].op = "connect" => t \in met

\* What a request keeps that passes through to a host listing: it is no connect call.
LEMMA ListsAreNoConnects ==
  ASSUME NEW r \in Requests, r.path = "hosts"
  PROVE  callFor(r, r.host).op # "connect"
<1>1. r.method \in {"GET", "POST", "DELETE", "PATCH"}
  BY RewriterAssumption DEF RequestType
<1> QED BY <1>1 DEF callFor, opOf

\* The witness of a thread stays as long as its request lasts.
LEMMA WitnessKept ==
  ASSUME Witness, NEW t \in Threads, t \in met, pc'[t] # "idle"
  PROVE  t \in met'
BY DEF Witness

\* A connect call that is answered with success, or "already exists", leaves its connection.
LEMMA ConnectWitness ==
  ASSUME NEW c, Execute(c), c.op = "connect", outcome(c) \in {"ok", "exists"}
  PROVE  Conn(c) \in conns'
<1>1. CASE succeeds(c)
  BY <1>1 DEF Execute
<1>2. CASE ~succeeds(c)
  <2>1. Conn(c) \in conns
    BY <1>2 DEF outcome, succeeds
  <2> QED BY <1>2, <2>1 DEF Execute
<1> QED BY <1>1, <1>2

LEMMA ReplyAck ==
  ASSUME Typed, AckInv, NEW t \in Threads, NEW s, NEW b, Reply(t, s, b), pc[t] # "idle",
         s = 200 /\ call[t].op = "connect" => t \in met
  PROVE  AckInv'
<1>1. ThreadTypeOK /\ Witness
  BY DEF Typed, TypeOK, Reply
<1>2. /\ pc'[t] = "reply" /\ status'[t] = s /\ call' = call /\ req' = req /\ answer' = answer
      /\ \A u \in Threads : u # t => pc'[u] = pc[u] /\ status'[u] = status[u]
  BY <1>1 DEF Reply, ThreadTypeOK
<1> QED BY <1>1, <1>2, WitnessKept DEF AckInv

LEMMA StepAckInv == Typed /\ AckInv /\ [Next]_vars => AckInv'
<1> SUFFICES ASSUME Typed, AckInv, [Next]_vars PROVE AckInv'
  OBVIOUS
<1>1. ThreadTypeOK /\ Placed
  BY DEF Typed, TypeOK
<1>2. ASSUME NEW t \in Threads, NEW r \in Requests, Send(t, r) PROVE AckInv'
  <2>1. PICK to, c : /\ Accept(t, r, to, c)
                     /\ \/ to = "reply" /\ c = NoCall
                        \/ to \in {"grant", "call"}
                        \/ to = "pass" /\ c = callFor(r, r.host)
    <3>1. CASE RewriteConnection(t, r)
      BY <3>1 DEF RewriteConnection
    <3>2. CASE FakePatch(t, r) \/ SynthHost(t, r)
      BY <3>2 DEF FakePatch, SynthHost
    <3>3. CASE PassThrough(t, r)
      BY <3>3 DEF PassThrough
    <3> QED BY <1>2, <3>1, <3>2, <3>3 DEF Send
  <2>2. /\ pc'[t] = to /\ call'[t] = c /\ req'[t] = r /\ Witness /\ answer' = answer
        /\ \A u \in Threads : u # t => pc'[u] = pc[u] /\ call'[u] = call[u] /\ req'[u] = req[u]
    BY <1>1, <2>1 DEF Accept, ThreadTypeOK
  <2>3. \A u \in Threads : u # t /\ pc[u] = "reply" => status'[u] = status[u]
    BY <1>1, <1>2 DEF Send, FakePatch, SynthHost, RewriteConnection, PassThrough, ThreadTypeOK
  <2>4. NoCall.op # "connect"
    BY DEF NoCall
  <2> QED BY <2>1, <2>2, <2>3, <2>4, WitnessKept DEF AckInv
<1>3. ASSUME NEW t \in Threads, Handle(t) PROVE AckInv'
  <2>1. CASE GrantCached(t) \/ GrantSend(t) \/ GrantStore(t)
    <3>1. PICK op, to : setCall(t, op, to) /\ to \in {"granting", "call"}
      BY <2>1 DEF GrantCached, GrantSend, GrantStore
    <3>2. /\ pc'[t] = to /\ Witness /\ answer' = answer /\ req' = req /\ status' = status
          /\ \A u \in Threads : u # t => pc'[u] = pc[u] /\ call'[u] = call[u]
      BY <1>1, <3>1 DEF setCall, ThreadTypeOK
    <3> QED BY <3>1, <3>2, WitnessKept DEF AckInv
  <2>2. CASE GrantError(t)
    BY <2>2, ReplyAck DEF GrantError
  <2>3. CASE AnswerConnection(t)
    <3>1. PICK b : Reply(t, statusOf(req[t].method, answer[t]), b) /\ pc[t] = "answered"
      BY <2>3 DEF AnswerConnection
    <3>2. statusOf(req[t].method, answer[t]) = 200 => answer[t] \in {"ok", "exists"}
      BY DEF statusOf
    <3> QED BY <3>1, <3>2, ReplyAck DEF AckInv
  <2>4. CASE EmptyHosts(t)
    <3>1. call[t].op # "connect" /\ pc[t] # "idle"
      BY <1>1, <2>4, ListsAreNoConnects DEF AckInv, EmptyHosts, HostList, Placed
    <3> QED BY <2>4, <3>1, ReplyAck DEF EmptyHosts
  <2>5. CASE ForwardAsIs(t) \/ EndRewrite(t)
    <3>1. /\ pc[t] \in {"passed", "inject", "mapback"}
          /\ Reply(t, IF answer[t] = "ok" THEN 200 ELSE 400, body[t])
      BY <2>5 DEF ForwardAsIs, EndRewrite
    <3> QED BY <3>1, ReplyAck DEF AckInv
  <2>6. CASE BeginRewrite(t)
    <3>1. /\ pc[t] = "passed" /\ pc'[t] \in {"inject", "mapback"} /\ Witness
          /\ answer' = answer /\ call' = call /\ req' = req /\ status' = status
          /\ \A u \in Threads : u # t => pc'[u] = pc[u]
      BY <1>1, <2>6 DEF BeginRewrite, ThreadTypeOK
    <3> QED BY <3>1, WitnessKept DEF AckInv
  <2>7. CASE InjectItem(t) \/ MapBackItem(t)
    <3>1. PICK i, j : RewriteItem(t, i, j)
      BY <2>7 DEF InjectItem, MapBackItem
    <3> QED BY <3>1, WitnessKept DEF RewriteItem, AckInv
  <2>8. CASE Deliver(t)
    <3>1. /\ pc'[t] = "idle" /\ Witness
          /\ \A u \in Threads : u # t => /\ pc'[u] = pc[u] /\ call'[u] = call[u] /\ req'[u] = req[u]
                                         /\ answer'[u] = answer[u] /\ status'[u] = status[u]
      BY <1>1, <2>8 DEF Deliver, ThreadTypeOK
    <3> QED BY <3>1, WitnessKept DEF AckInv
  <2>9. CASE ArrayExec(t)
    <3>1. /\ pc[t] \in {"granting", "call", "pass"} /\ Execute(call[t]) /\ Witness
          /\ call' = call /\ req' = req /\ status' = status
          /\ answer'[t] = outcome(call[t]) /\ pc'[t] = awaits[pc[t]]
          /\ \A u \in Threads : u # t => pc'[u] = pc[u] /\ answer'[u] = answer[u]
      BY <1>1, <2>9 DEF ArrayExec, waiting, awaits, shimVars, ThreadTypeOK
    <3>2. /\ awaits[pc[t]] \in {"granted", "answered", "passed"}
          /\ awaits[pc[t]] = "passed" => pc[t] = "pass"
      BY <3>1 DEF awaits
    <3>3. call[t].op = "connect" /\ outcome(call[t]) \in {"ok", "exists"} => t \in met'
      BY <3>1, <3>2, ConnectWitness DEF Witness
    <3> QED BY <3>1, <3>2, <3>3, WitnessKept DEF AckInv
  <2> QED
    BY <1>3, <2>1, <2>2, <2>3, <2>4, <2>5, <2>6, <2>7, <2>8, <2>9 DEF Handle
<1>4. ASSUME NEW t \in Threads, ArrayRefuse(t) PROVE AckInv'
  <2>1. /\ pc[t] \in {"granting", "call", "pass"} /\ Witness
        /\ call' = call /\ req' = req /\ status' = status
        /\ answer'[t] = "refused" /\ pc'[t] = awaits[pc[t]]
        /\ \A u \in Threads : u # t => pc'[u] = pc[u] /\ answer'[u] = answer[u]
    BY <1>1, <1>4 DEF ArrayRefuse, waiting, awaits, shimVars, ThreadTypeOK
  <2>2. /\ awaits[pc[t]] \in {"granted", "answered", "passed"}
        /\ awaits[pc[t]] = "passed" => pc[t] = "pass"
    BY <2>1 DEF awaits
  <2> QED BY <2>1, <2>2, WitnessKept DEF AckInv
<1>5. ASSUME NEW t \in Threads, CallLost(t) PROVE AckInv'
  BY <1>5, ReplyAck DEF CallLost, waiting, awaits
<1>6. CASE LateExec \/ Reprovision
  <2>1. Witness /\ UNCHANGED threadVars
    BY <1>6 DEF LateExec, Reprovision
  <2> QED BY <2>1, WitnessKept DEF threadVars, AckInv
<1>7. CASE Restart
  BY <1>7 DEF Restart, AckInv
<1>8. CASE UNCHANGED vars
  BY <1>8 DEF vars, threadVars, AckInv
<1> QED BY <1>2, <1>3, <1>4, <1>5, <1>6, <1>7, <1>8 DEF Next

(***************************************************************************)
(* px is told of no connection that has not been there since its request   *)
(* came in, across lost, late and repeated calls, restarts and operators.  *)
(***************************************************************************)
THEOREM AcksAreTrue == Spec => []AckedWasConnected
<1>1. Init => AckInv
  BY DEF Init, AckInv
<1>2. AckInv => AckedWasConnected
  BY DEF AckInv, AckedWasConnected
<1> QED BY InitTyped, StepTyped, StepAckInv, <1>1, <1>2, PTL DEF Spec
-----------------------------------------------------------------------------
asMapped(h) ==
  IF isRealmHost(h)
  THEN ~RewriteEnabled \/ ~HasArrayToken \/ resolve(h) = {}
  ELSE RewriteEnabled /\ HasArrayToken

MapInv ==
  /\ \A k \in conns : asMapped(k.host)
  /\ \A c \in BagToSet(late) : c.op = "connect" => asMapped(c.host)
  /\ \A t \in Threads :
       /\ pc[t] \in {"grant", "granting", "granted", "call"} => RewriteEnabled /\ HasArrayToken
       /\ pc[t] = "pass" /\ call[t].op = "connect" => asMapped(call[t].host)

\* A call that waits for the array and connects, connects as mapped.
LEMMA WaitingMapped ==
  ASSUME Typed, MapInv, NEW t \in Threads, waiting(t), call[t].op = "connect"
  PROVE  asMapped(call[t].host)
<1>1. Placed /\ pc[t] \in {"granting", "call", "pass"}
  BY DEF Typed, waiting, awaits
<1>2. CASE pc[t] = "call"
  <2>1. ~isRealmHost(call[t].host)
    BY <1>1, <1>2 DEF Placed, ArrayNames, ArrayLevel, isRealmHost
  <2> QED BY <1>2, <2>1 DEF MapInv, asMapped
<1>3. CASE pc[t] # "call"
  BY <1>1, <1>3 DEF Placed, MapInv
<1> QED BY <1>2, <1>3

\* What the array connects is what it is asked to.
LEMMA ExecuteMapped ==
  ASSUME MapInv, NEW c, Execute(c), c.op = "connect" => asMapped(c.host)
  PROVE  \A k \in conns' : asMapped(k.host)
BY DEF MapInv, Execute, Conn

LEMMA StepMapInv == Typed /\ MapInv /\ [Next]_vars => MapInv'
<1> SUFFICES ASSUME Typed, MapInv, [Next]_vars PROVE MapInv'
  OBVIOUS
<1>1. ThreadTypeOK /\ Placed /\ TypeOK
  BY DEF Typed, TypeOK
<1>2. ASSUME NEW t \in Threads, NEW r \in Requests, Send(t, r) PROVE MapInv'
  <2>1. PICK to, c : /\ Accept(t, r, to, c)
                     /\ \/ to = "reply"
                        \/ to \in {"grant", "call"} /\ RewriteEnabled /\ HasArrayToken
                        \/ to = "pass" /\ (c.op = "connect" => asMapped(c.host))
    <3>1. CASE RewriteConnection(t, r)
      BY <3>1 DEF RewriteConnection, rewritable
    <3>2. CASE FakePatch(t, r) \/ SynthHost(t, r)
      BY <3>2 DEF FakePatch, SynthHost
    <3>3. CASE PassThrough(t, r)
      <4>1. callFor(r, r.host).op = "connect" => asMapped(r.host)
        BY <3>3, PassedConnect DEF PassThrough, passes, asMapped
      <4> QED BY <3>3, <4>1 DEF PassThrough, callFor
    <3> QED BY <1>2, <3>1, <3>2, <3>3 DEF Send
  <2>2. /\ pc'[t] = to /\ call'[t] = c /\ conns' = conns /\ late' = late
        /\ \A u \in Threads : u # t => pc'[u] = pc[u] /\ call'[u] = call[u]
    BY <1>1, <2>1 DEF Accept, arrayVars, boundVars, ThreadTypeOK
  <2> QED BY <2>1, <2>2 DEF MapInv
<1>3. ASSUME NEW t \in Threads, GrantCached(t) \/ GrantSend(t) \/ GrantStore(t) PROVE MapInv'
  <2>1. PICK op, to : setCall(t, op, to) /\ to \in {"granting", "call"}
    BY <1>3 DEF GrantCached, GrantSend, GrantStore
  <2>2. /\ pc'[t] = to /\ pc[t] \in {"grant", "granted"} /\ conns' = conns /\ late' = late
        /\ \A u \in Threads : u # t => pc'[u] = pc[u] /\ call'[u] = call[u]
    BY <1>1, <1>3, <2>1
       DEF GrantCached, GrantSend, GrantStore, setCall, arrayVars, boundVars, ThreadTypeOK
  <2> QED BY <2>1, <2>2 DEF MapInv
<1>4. ASSUME NEW t \in Threads, NEW s, NEW b, Reply(t, s, b),
             \A c \in BagToSet(late') \ BagToSet(late) : c.op = "connect" => asMapped(c.host)
      PROVE  MapInv'
  <2>1. /\ pc'[t] = "reply" /\ conns' = conns /\ call' = call
        /\ \A u \in Threads : u # t => pc'[u] = pc[u]
    BY <1>1, <1>4 DEF Reply, arrayVars, ThreadTypeOK
  <2> QED BY <1>4, <2>1 DEF MapInv
<1>5. ASSUME NEW t \in Threads, BeginRewrite(t) \/ InjectItem(t) \/ MapBackItem(t) \/ Deliver(t)
                                \/ ArrayRefuse(t)
      PROVE  MapInv'
  <2>1. /\ conns' = conns /\ late' = late
        /\ pc'[t] \in {pc[t], "inject", "mapback", "idle", "granted", "answered", "passed"}
        /\ pc'[t] = "granted" => pc[t] \in {"granted", "granting"}
        /\ pc'[t] = pc[t] => call'[t] = call[t]
        /\ \A u \in Threads : u # t => pc'[u] = pc[u] /\ call'[u] = call[u]
    BY <1>1, <1>5 DEF BeginRewrite, InjectItem, MapBackItem, RewriteItem, Deliver, ArrayRefuse,
                      arrayVars, boundVars, waiting, awaits, ThreadTypeOK
  <2> QED BY <2>1 DEF MapInv
<1>6. ASSUME NEW t \in Threads, ArrayExec(t) PROVE MapInv'
  <2>1. /\ late' = late /\ call' = call /\ pc'[t] \in {"granted", "answered", "passed"}
        /\ pc'[t] = "granted" => pc[t] = "granting"
        /\ \A u \in Threads : u # t => pc'[u] = pc[u]
    BY <1>1, <1>6 DEF ArrayExec, boundVars, waiting, awaits, ThreadTypeOK
  <2>2. \A k \in conns' : asMapped(k.host)
    BY <1>6, WaitingMapped, ExecuteMapped DEF ArrayExec
  <2> QED BY <2>1, <2>2 DEF MapInv
<1>7. ASSUME NEW t \in Threads, Handle(t) PROVE MapInv'
  <2>1. ASSUME NEW s, NEW b, Reply(t, s, b), late' = late PROVE MapInv'
    BY <1>4, <2>1
  <2> QED BY <1>3, <1>5, <1>6, <1>7, <2>1
          DEF Handle, GrantError, AnswerConnection, EmptyHosts, ForwardAsIs, EndRewrite
<1>8. ASSUME NEW t \in Threads, CallLost(t) PROVE MapInv'
  <2>1. \A c \in BagToSet(late') \ BagToSet(late) : c.op = "connect" => asMapped(c.host)
    BY <1>1, <1>8, LateLost, WaitingMapped
  <2> QED BY <1>4, <1>8, <2>1 DEF CallLost
<1>9. CASE LateExec
  <2>1. PICK c \in BagToSet(late) : Execute(c)
    BY <1>9 DEF LateExec
  <2>2. \A k \in conns' : asMapped(k.host)
    BY <2>1, ExecuteMapped DEF MapInv
  <2>3. BagToSet(late') \subseteq BagToSet(late)
    BY <1>1, <1>9, LateArrives
  <2> QED BY <1>9, <2>2, <2>3 DEF LateExec, threadVars, MapInv
<1>10. CASE Restart
  <2>1. \A c \in BagToSet(late') : c.op = "connect" => asMapped(c.host)
    BY <1>1, <1>10, LateRestarted, WaitingMapped DEF MapInv
  <2> QED BY <1>10, <2>1 DEF Restart, arrayVars, MapInv
<1>11. CASE Reprovision
  <2>1. conns' \subseteq conns /\ late' = late /\ pc' = pc /\ call' = call
    BY <1>11 DEF Reprovision, Provision, Deprovision, OperatorGrant, OperatorDisconnect, threadVars
  <2> QED BY <2>1 DEF MapInv
<1>12. CASE UNCHANGED vars
  BY <1>12 DEF vars, arrayVars, threadVars, boundVars, MapInv
<1> QED BY <1>2, <1>5, <1>7, <1>8, <1>9, <1>10, <1>11, <1>12 DEF Next

(***************************************************************************)
(* No connection is ever made on a realm host that could have been mapped, *)
(* whatever fails, comes late or is restarted.                             *)
(***************************************************************************)
THEOREM ConnectionsAreMapped == Spec => []ConnectedAsMapped
<1>1. Init => MapInv
  BY DEF Init, MapInv, EmptyBag, SetToBag, BagToSet
<1>2. MapInv => ConnectedAsMapped
  BY DEF MapInv, asMapped, ConnectedAsMapped
<1> QED BY InitTyped, StepTyped, StepMapInv, <1>1, <1>2, PTL DEF Spec
-----------------------------------------------------------------------------
\* Initiators of an item, if it has any, are those of an array host its name is resolved to.
ofNode(i) == i.owner # NoOwner => \E h \in resolve(i.name) : i.owner = h.arrayHost

\* The array's answers carry no initiators; a rewritten call is on an array host of its name.
NodeInv ==
  /\ \A i \in shown : ofNode(i) /\ i.owner # NoOwner
  /\ \A t \in Threads :
       /\ \A i \in todo[t] : i.owner = NoOwner
       /\ \A i \in body[t] : /\ ofNode(i)
                             /\ pc[t] \notin {"inject", "reply"} => i.owner = NoOwner
       /\ call[t].op # "none" /\ ~isRealmHost(call[t].host) /\ isRealmHost(req[t].host) =>
            \E h \in resolve(req[t].host) : call[t].host = ArrayLevel(h.arrayHost)

LEMMA ReplyNode ==
  ASSUME Typed, NodeInv, NEW t \in Threads, NEW s, NEW b, Reply(t, s, b), \A i \in b : ofNode(i)
  PROVE  NodeInv'
<1>1. ThreadTypeOK
  BY DEF Typed, TypeOK
<1>2. /\ pc'[t] = "reply" /\ body'[t] = b /\ todo'[t] = {}
      /\ call' = call /\ req' = req /\ shown' = shown
      /\ \A u \in Threads : u # t => pc'[u] = pc[u] /\ body'[u] = body[u] /\ todo'[u] = todo[u]
  BY <1>1 DEF Reply, ThreadTypeOK
<1> QED BY <1>2 DEF NodeInv, ofNode

LEMMA SendNode ==
  ASSUME Typed, NodeInv, NEW t \in Threads, NEW r \in Requests, Send(t, r)
  PROVE  NodeInv'
<1>1. ThreadTypeOK
  BY DEF Typed, TypeOK
<1>2. PICK to, c :
        /\ Accept(t, r, to, c)
        /\ c.op # "none" /\ ~isRealmHost(c.host) /\ isRealmHost(r.host) =>
             \E h \in resolve(r.host) : c.host = ArrayLevel(h.arrayHost)
        /\ \/ body' = body
           \/ /\ to = "reply"
              /\ \E h \in resolve(r.host) :
                   body' = [body EXCEPT ![t] = {Item(r.host, h.arrayHost)}]
  <2>1. CASE RewriteConnection(t, r)
    BY <2>1 DEF RewriteConnection, callFor, hostNames
  <2>2. CASE FakePatch(t, r)
    BY <2>2 DEF FakePatch, NoCall
  <2>3. CASE SynthHost(t, r)
    BY <2>3 DEF SynthHost, NoCall
  <2>4. CASE PassThrough(t, r)
    BY <2>4 DEF PassThrough, callFor
  <2> QED BY <2>1, <2>2, <2>3, <2>4 DEF Send
<1>3. /\ pc[t] = "idle" /\ pc'[t] = to /\ req'[t] = r /\ call'[t] = c
      /\ todo' = todo /\ shown' = shown
      /\ \A u \in Threads : u # t => /\ pc'[u] = pc[u] /\ call'[u] = call[u] /\ req'[u] = req[u]
                                     /\ body'[u] = body[u]
  BY <1>1, <1>2 DEF Accept, ThreadTypeOK
<1>4. \A i \in body'[t] : ofNode(i) /\ (to \notin {"inject", "reply"} => i.owner = NoOwner)
  <2>1. CASE body' = body
    BY <1>3, <2>1 DEF NodeInv
  <2>2. CASE body' # body
    <3>1. to = "reply" /\ \E h \in resolve(r.host) : body'[t] = {Item(r.host, h.arrayHost)}
      BY <1>1, <1>2, <2>2 DEF ThreadTypeOK
    <3> QED BY <3>1 DEF ofNode, Item
  <2> QED BY <2>1, <2>2
<1> QED BY <1>2, <1>3, <1>4 DEF NodeInv, ofNode

LEMMA HandleNode ==
  ASSUME Typed, NodeInv, NEW t \in Threads, Handle(t)
  PROVE  NodeInv'
<1>1. ThreadTypeOK
  BY DEF Typed, TypeOK
<1>2. CASE GrantCached(t) \/ GrantSend(t) \/ GrantStore(t)
  <2>1. PICK op, to : setCall(t, op, to) /\ to \in {"granting", "call"}
    BY <1>2 DEF GrantCached, GrantSend, GrantStore
  <2>2. /\ pc'[t] = to /\ call'[t].host = call[t].host
        /\ pc[t] \in {"grant", "granted"} /\ call[t].op # "none"
        /\ req' = req /\ body' = body /\ todo' = todo /\ shown' = shown
        /\ \A u \in Threads : u # t => pc'[u] = pc[u] /\ call'[u] = call[u]
    <3>1. call[t] \in Calls /\ pc[t] \in {"grant", "granted"} /\ call[t].op # "none"
      BY <1>2 DEF Typed, Placed, GrantCached, GrantSend, GrantStore
    <3> QED BY <1>1, <2>1, <3>1 DEF setCall, ThreadTypeOK
  <2> QED BY <2>1, <2>2 DEF NodeInv, ofNode
<1>3. CASE GrantError(t) \/ EmptyHosts(t)
  BY <1>3, ReplyNode DEF GrantError, EmptyHosts
<1>4. CASE AnswerConnection(t)
  <2>1. PICK s, b : Reply(t, s, b) /\ \A i \in b : i.owner = NoOwner
    BY <1>4 DEF AnswerConnection, NodeInv, Item
  <2> QED BY <2>1, ReplyNode DEF ofNode
<1>5. CASE ForwardAsIs(t) \/ EndRewrite(t)
  <2>1. \E s : Reply(t, s, body[t])
    BY <1>5 DEF ForwardAsIs, EndRewrite
  <2> QED BY <2>1, ReplyNode DEF NodeInv
<1>6. CASE BeginRewrite(t)
  <2>1. /\ pc[t] = "passed" /\ pc'[t] \in {"inject", "mapback"} /\ todo'[t] = body[t]
        /\ body' = body /\ call' = call /\ req' = req /\ shown' = shown
        /\ \A u \in Threads : u # t => pc'[u] = pc[u] /\ todo'[u] = todo[u]
    BY <1>1, <1>6 DEF BeginRewrite, ThreadTypeOK
  <2> QED BY <2>1 DEF NodeInv, ofNode
<1>7. CASE InjectItem(t) \/ MapBackItem(t)
  <2>1. PICK i, j : /\ RewriteItem(t, i, j) /\ ofNode(j)
                    /\ pc[t] # "inject" => j.owner = NoOwner
    <3>1. CASE InjectItem(t)
      <4>1. PICK i \in todo[t] :
              \/ RewriteItem(t, i, i)
              \/ \E h \in resolve(i.name) : RewriteItem(t, i, Item(i.name, h.arrayHost))
        BY <3>1 DEF InjectItem
      <4>2. ofNode(i) /\ \A h \in resolve(i.name) : ofNode(Item(i.name, h.arrayHost))
        BY DEF NodeInv, ofNode, Item
      <4> QED BY <3>1, <4>1, <4>2 DEF InjectItem
    <3>2. CASE MapBackItem(t)
      <4>1. PICK i, n : /\ i \in todo[t]
                        /\ RewriteItem(t, i, i) \/ RewriteItem(t, i, Item(n, i.owner))
        BY <3>2 DEF MapBackItem
      <4>2. i.owner = NoOwner /\ Item(n, i.owner).owner = NoOwner
        BY <4>1 DEF NodeInv, Item
      <4> QED BY <4>1, <4>2 DEF ofNode
    <3> QED BY <1>7, <3>1, <3>2
  <2>2. pc' = pc /\ call' = call /\ req' = req /\ shown' = shown
    BY <2>1 DEF RewriteItem
  <2>3. todo'[t] \subseteq todo[t] /\ \A u \in Threads : u # t => todo'[u] = todo[u]
    BY <1>1, <2>1 DEF RewriteItem, ThreadTypeOK
  <2>4. body'[t] \subseteq body[t] \union {j} /\ \A u \in Threads : u # t => body'[u] = body[u]
    BY <1>1, <2>1 DEF RewriteItem, ThreadTypeOK
  <2>5. pc[t] \in {"inject", "mapback"}
    BY <1>7 DEF InjectItem, MapBackItem
  <2> QED BY <2>1, <2>2, <2>3, <2>4, <2>5 DEF NodeInv, ofNode
<1>8. CASE Deliver(t)
  <2>1. /\ body'[t] = {} /\ call'[t] = NoCall /\ todo' = todo
        /\ \A i \in shown' : i \in shown \/ (i \in body[t] /\ i.owner # NoOwner)
        /\ \A u \in Threads : u # t => /\ pc'[u] = pc[u] /\ call'[u] = call[u] /\ req'[u] = req[u]
                                       /\ body'[u] = body[u]
    BY <1>1, <1>8 DEF Deliver, ThreadTypeOK
  <2> QED BY <2>1 DEF NodeInv, ofNode, NoCall
<1>9. CASE ArrayExec(t)
  <2>1. /\ pc'[t] \in {"granted", "answered", "passed"} /\ \A i \in body'[t] : i.owner = NoOwner
        /\ call' = call /\ req' = req /\ todo' = todo /\ shown' = shown
        /\ \A u \in Threads : u # t => pc'[u] = pc[u] /\ body'[u] = body[u]
    BY <1>1, <1>9 DEF ArrayExec, waiting, awaits, Item, ThreadTypeOK
  <2> QED BY <2>1 DEF NodeInv, ofNode
<1> QED BY <1>2, <1>3, <1>4, <1>5, <1>6, <1>7, <1>8, <1>9 DEF Handle

LEMMA StepNodeInv == Typed /\ NodeInv /\ [Next]_vars => NodeInv'
<1> SUFFICES ASSUME Typed, NodeInv, [Next]_vars PROVE NodeInv'
  OBVIOUS
<1>1. ThreadTypeOK
  BY DEF Typed, TypeOK
<1>2. ASSUME NEW t \in Threads, ArrayRefuse(t) PROVE NodeInv'
  <2>1. /\ pc[t] \notin {"inject", "reply"}
        /\ call' = call /\ req' = req /\ todo' = todo /\ shown' = shown /\ body' = body
        /\ \A u \in Threads : u # t => pc'[u] = pc[u]
    BY <1>1, <1>2 DEF ArrayRefuse, waiting, awaits, ThreadTypeOK
  <2> QED BY <2>1 DEF NodeInv, ofNode
<1>3. ASSUME NEW t \in Threads, CallLost(t) PROVE NodeInv'
  BY <1>3, ReplyNode DEF CallLost
<1>4. CASE LateExec \/ Reprovision
  BY <1>4 DEF LateExec, Reprovision, threadVars, NodeInv, ofNode
<1>5. CASE Restart
  BY <1>5 DEF Restart, NodeInv, ofNode, NoCall
<1>6. CASE UNCHANGED vars
  BY <1>6 DEF vars, threadVars, NodeInv, ofNode
<1> QED BY SendNode, HandleNode, <1>2, <1>3, <1>4, <1>5, <1>6 DEF Next

(***************************************************************************)
(* If no node's name is a prefix of another's, the initiators px sees on a *)
(* name and the connections it gets for it are those of one array host.    *)
(***************************************************************************)
THEOREM InitiatorsMatch ==
  ASSUME PrefixFree
  PROVE  Spec => []SameNode
<1>1. Init => NodeInv
  BY DEF Init, NodeInv, NoCall
<1>2. NodeInv => SameNode
  <2> SUFFICES ASSUME NodeInv, NEW t \in Threads, NEW i \in shown, Rewritten(t), i.name = req[t].host
               PROVE  call[t].host = ArrayLevel(i.owner)
    BY DEF SameNode
  <2>1. PICK h \in resolve(req[t].host) : i.owner = h.arrayHost
    BY DEF NodeInv, ofNode
  <2>2. PICK g \in resolve(req[t].host) : call[t].host = ArrayLevel(g.arrayHost)
    BY DEF NodeInv, Rewritten
  <2> QED BY <2>1, <2>2, ResolveUnique
<1> QED BY InitTyped, StepTyped, StepNodeInv, <1>1, <1>2, PTL DEF Spec
-----------------------------------------------------------------------------
\* Some request of px for a host of this realm is resolved to array host a.
serves(a, realm) ==
  \E r \in Requests : \E h \in resolve(r.host) : h.arrayHost = a /\ realmOf(r.host) = realm

\* A host of the realm, or an array host that serves it.
ofRealm(n, realm) == IF isRealmHost(n) THEN n.realm = realm ELSE serves(n.rest, realm)

ofVolume(b, v) == v # NoVolume => \A i \in b : ofRealm(i.name, volRealm[v])

\* What OwnRealmOnly needs of the host map and of px: hosts of different realms are never
\* resolved to the same array host.
OneRealmPerHost ==
  \A r, q \in Requests : \A h \in resolve(r.host), g \in resolve(q.host) :
    h.arrayHost = g.arrayHost => realmOf(r.host) = realmOf(q.host)

RealmInvOf(t) ==
  /\ call[t].op # "none" => call[t].vol = req[t].vol
  /\ call[t].op \in {"grant", "connect"} => ofRealm(call[t].host, volRealm[call[t].vol])
  /\ pc[t] = "idle" => body[t] = {}
  /\ pc[t] \in {"inject", "mapback"} => todo[t] \subseteq body[t]
  /\ req[t].path = "connections" => /\ call[t].op # "listHosts"
                                    /\ ofVolume(body[t], req[t].vol)

RealmInv ==
  /\ \A a \in ArrayHosts : byArrayHost[a] # NoHost =>
       isRealmHost(byArrayHost[a]) /\ serves(a, realmOf(byArrayHost[a]))
  /\ \A k \in conns : ofRealm(k.host, volRealm[k.vol])
  /\ \A c \in BagToSet(late) : c.op = "connect" => ofRealm(c.host, volRealm[c.vol])
  /\ \A t \in Threads : RealmInvOf(t)

LEMMA ServesOne ==
  ASSUME OneRealmPerHost, NEW a, NEW x, NEW y, serves(a, x), serves(a, y)
  PROVE  x = y
BY DEF OneRealmPerHost, serves

\* A name is recorded for an array host that serves its realm.
LEMMA LearnedRealm ==
  ASSUME Typed, RealmInv, NEW n \in Names, learnRealmHost(n)
  PROVE  \A a \in ArrayHosts : byArrayHost'[a] # NoHost =>
           isRealmHost(byArrayHost'[a]) /\ serves(a, realmOf(byArrayHost'[a]))
<1>1. byArrayHost \in [ArrayHosts -> HostNamesUsed \union {NoHost}]
  BY DEF Typed, TypeOK, MapTypeOK
<1>2. CASE resolve(n) = {}
  BY <1>2 DEF learnRealmHost, RealmInv
<1>3. CASE resolve(n) # {}
  <2>1. PICK h \in resolve(n) :
          byArrayHost' = IF doublePrefixed(n, h) THEN byArrayHost
                         ELSE [byArrayHost EXCEPT ![h.arrayHost] = n]
    BY <1>3 DEF learnRealmHost
  <2>2. isRealmHost(n) /\ n \in HostNamesUsed
    BY Resolved, RealmHostUsed
  <2>3. serves(h.arrayHost, realmOf(n))
    BY <2>2 DEF serves, HostNamesUsed
  <2> QED BY <1>1, <2>1, <2>2, <2>3 DEF RealmInv
<1> QED BY <1>2, <1>3

\* What the array connects is what it is asked to, and what it lists of a volume is of its realm.
LEMMA ExecuteRealm ==
  ASSUME RealmInv, NEW c, Execute(c), c.op = "connect" => ofRealm(c.host, volRealm[c.vol])
  PROVE  /\ \A k \in conns' : ofRealm(k.host, volRealm[k.vol])
         /\ c.op # "listHosts" /\ c.vol # NoVolume =>
              \A n \in mentioned(c) : ofRealm(n, volRealm[c.vol])
<1>1. \A k \in conns : ofRealm(k.host, volRealm[k.vol])
  BY DEF RealmInv
<1>2. \A k \in conns' : k \in conns \/ (c.op = "connect" /\ k = Conn(c))
  BY DEF Execute
<1>3. \A k \in conns' : ofRealm(k.host, volRealm[k.vol])
  BY <1>1, <1>2 DEF Conn
<1>4. c.vol # NoVolume => \A n \in connectedHosts(c) : ofRealm(n, volRealm[c.vol])
  BY <1>1 DEF connectedHosts
<1> QED BY <1>3, <1>4 DEF mentioned

\* A step of thread t leaves what RealmInv says of the others.
LEMMA OthersRealm ==
  ASSUME RealmInv, NEW t \in Threads,
         \A u \in Threads : u # t =>
           /\ pc'[u] = pc[u] /\ req'[u] = req[u] /\ call'[u] = call[u]
           /\ body'[u] = body[u] /\ todo'[u] = todo[u]
  PROVE  \A u \in Threads : u # t => RealmInvOf(u)'
<1> TAKE u \in Threads
<1> HAVE u # t
<1>1. RealmInvOf(u)
  BY DEF RealmInv
<1> QED BY <1>1 DEF RealmInvOf, ofVolume

LEMMA ReplyRealm ==
  ASSUME Typed, RealmInv, NEW t \in Threads, NEW s, NEW b, Reply(t, s, b),
         req[t].path = "connections" => ofVolume(b, req[t].vol),
         \A c \in BagToSet(late') \ BagToSet(late) :
           c.op = "connect" => ofRealm(c.host, volRealm[c.vol])
  PROVE  RealmInv'
<1>1. ThreadTypeOK /\ RealmInvOf(t)
  BY DEF Typed, TypeOK, RealmInv
<1>2. /\ pc'[t] = "reply" /\ body'[t] = b
      /\ conns' = conns /\ byArrayHost' = byArrayHost /\ req' = req /\ call' = call
      /\ \A u \in Threads : u # t => pc'[u] = pc[u] /\ body'[u] = body[u] /\ todo'[u] = todo[u]
  BY <1>1 DEF Reply, ThreadTypeOK, arrayVars, shimVars
<1>3. RealmInvOf(t)'
  BY <1>1, <1>2 DEF RealmInvOf, ofVolume
<1>4. \A u \in Threads : RealmInvOf(u)'
  BY <1>2, <1>3, OthersRealm
<1>5. \A c \in BagToSet(late') : c.op = "connect" => ofRealm(c.host, volRealm[c.vol])
  BY DEF RealmInv
<1> QED BY <1>2, <1>4, <1>5 DEF RealmInv

\* A call is for the volume of its request, and a connect or grant for a host of its realm.
LEMMA SendRealm ==
  ASSUME Typed, RealmInv, NEW t \in Threads, NEW r \in Requests, Send(t, r)
  PROVE  RealmInv'
<1>1. ThreadTypeOK /\ r.host \in Names /\ RealmInvOf(t)
  BY DEF Typed, TypeOK, Names, HostNamesUsed, RealmInv
<1>2. PICK to, c :
        /\ Accept(t, r, to, c) /\ to \notin {"idle", "inject", "mapback"}
        /\ c.op # "none" => c.vol = r.vol
        /\ c.op \in {"grant", "connect"} => ofRealm(c.host, volRealm[c.vol])
        /\ r.path = "connections" => c.op # "listHosts" /\ body' = body
  <2>1. CASE FakePatch(t, r) \/ SynthHost(t, r)
    BY <2>1 DEF FakePatch, SynthHost, NoCall
  <2>2. CASE RewriteConnection(t, r)
    <3>1. PICK h \in resolve(r.host) :
            Accept(t, r, IF r.method = "POST" THEN "grant" ELSE "call",
                   callFor(r, hostNames(r, h)))
      BY <2>2 DEF RewriteConnection
    <3> DEFINE c == callFor(r, hostNames(r, h))
    <3>2. r.path = "connections" /\ r.method \in {"GET", "POST", "DELETE"} /\ body' = body
      BY <2>2, PassedCall, RewriterAssumption DEF RewriteConnection, rewritable, RequestType
    <3>3. /\ c.host = ArrayLevel(h.arrayHost) /\ c.vol = r.vol
          /\ c.op \notin {"listHosts", "grant"}
          /\ c.op = "connect" => r.method = "POST"
      BY <3>2 DEF callFor, opOf, hostNames
    <3> HIDE DEF c
    <3>4. r.method = "POST" => volRealm[r.vol] = realmOf(r.host)
      BY <3>2, RewriterAssumption DEF realmOf
    <3>5. serves(h.arrayHost, realmOf(r.host))
      BY DEF serves
    <3>6. c.op \in {"grant", "connect"} => ofRealm(c.host, volRealm[c.vol])
      BY <3>3, <3>4, <3>5 DEF ofRealm, ArrayLevel, isRealmHost
    <3>7. \E to \in {"grant", "call"} : Accept(t, r, to, c)
      BY <3>1 DEF c
    <3> QED BY <3>2, <3>3, <3>6, <3>7
  <2>3. CASE PassThrough(t, r)
    <3> DEFINE c == callFor(r, r.host)
    <3>1. Accept(t, r, "pass", c) /\ body' = body
      BY <2>3 DEF PassThrough
    <3>2. c.vol = r.vol /\ c.host = r.host /\ c.op # "grant"
      BY PassedCall DEF callFor
    <3>3. c.op = "connect" => isRealmHost(r.host) /\ r.path = "connections" /\ r.method = "POST"
      BY PassedConnect
    <3>4. c.op = "connect" => volRealm[r.vol] = r.host.realm
      BY <3>3, RewriterAssumption
    <3>5. r.path = "connections" => c.op # "listHosts"
      <4>1. r.path = "connections" => r.method \in {"GET", "POST", "DELETE"}
        BY PassedCall, RewriterAssumption DEF RequestType
      <4> QED BY <4>1 DEF callFor, opOf
    <3>6. c.op \in {"grant", "connect"} => ofRealm(c.host, volRealm[c.vol])
      BY <3>2, <3>3, <3>4 DEF ofRealm
    <3> HIDE DEF c
    <3> QED BY <3>1, <3>2, <3>5, <3>6
  <2> QED BY <2>1, <2>2, <2>3 DEF Send
<1>3. /\ pc[t] = "idle" /\ pc'[t] = to /\ req'[t] = r /\ call'[t] = c
      /\ conns' = conns /\ late' = late /\ todo' = todo
      /\ \A u \in Threads : u # t => pc'[u] = pc[u] /\ req'[u] = req[u] /\ call'[u] = call[u]
  BY <1>1, <1>2 DEF Accept, ThreadTypeOK, arrayVars, boundVars
<1>4. \A u \in Threads : u # t => body'[u] = body[u]
  BY <1>1 DEF Send, FakePatch, SynthHost, RewriteConnection, PassThrough, ThreadTypeOK
<1>5. RealmInvOf(t)'
  BY <1>1, <1>2, <1>3 DEF RealmInvOf, ofVolume
<1>6. \A u \in Threads : RealmInvOf(u)'
  BY <1>3, <1>4, <1>5, OthersRealm
<1>7. UNCHANGED byArrayHost \/ learnRealmHost(r.host)
  BY DEF Send, FakePatch, SynthHost, RewriteConnection, PassThrough
<1>8. \A a \in ArrayHosts : byArrayHost'[a] # NoHost =>
        isRealmHost(byArrayHost'[a]) /\ serves(a, realmOf(byArrayHost'[a]))
  <2>1. CASE UNCHANGED byArrayHost
    BY <2>1 DEF RealmInv
  <2>2. CASE learnRealmHost(r.host)
    BY <1>1, <2>2, LearnedRealm
  <2> QED BY <1>7, <2>1, <2>2
<1> QED BY <1>3, <1>6, <1>8 DEF RealmInv

LEMMA AnswerRealm ==
  ASSUME Typed, RealmInv, NEW t \in Threads, ArrayExec(t)
  PROVE  RealmInv'
<1>1. ThreadTypeOK /\ RealmInvOf(t)
  BY DEF Typed, TypeOK, RealmInv
<1>2. /\ Execute(call[t]) /\ pc[t] \in {"granting", "call", "pass"}
      /\ pc'[t] \in {"granted", "answered", "passed"}
      /\ body'[t] = {Item(n, NoOwner) : n \in mentioned(call[t])}
      /\ byArrayHost' = byArrayHost /\ late' = late
      /\ req' = req /\ call' = call /\ todo' = todo
      /\ \A u \in Threads : u # t => pc'[u] = pc[u] /\ body'[u] = body[u]
  BY <1>1 DEF ArrayExec, waiting, awaits, shimVars, boundVars, ThreadTypeOK
<1>3. call[t].op # "none"
  BY <1>2 DEF Typed, Placed, Calls, Ops
<1>4. /\ \A k \in conns' : ofRealm(k.host, volRealm[k.vol])
      /\ call[t].op # "listHosts" /\ call[t].vol # NoVolume =>
           \A n \in mentioned(call[t]) : ofRealm(n, volRealm[call[t].vol])
  BY <1>1, <1>2, ExecuteRealm DEF RealmInvOf
<1>5. req[t].path = "connections" => ofVolume(body'[t], req[t].vol)
  BY <1>1, <1>2, <1>3, <1>4 DEF RealmInvOf, ofVolume, Item
<1>6. RealmInvOf(t)'
  BY <1>1, <1>2, <1>5 DEF RealmInvOf, ofVolume
<1>7. \A u \in Threads : RealmInvOf(u)'
  BY <1>2, <1>6, OthersRealm
<1> QED BY <1>2, <1>4, <1>7 DEF RealmInv

\* An array host's name becomes the name px used for it, which is of the realm it serves.
LEMMA NamedRealm ==
  ASSUME OneRealmPerHost, Typed, NodeInv, RealmInv, NEW t \in Threads, pc[t] = "answered",
         NEW i \in body[t], req[t].path = "connections", req[t].vol # NoVolume
  PROVE  ofRealm(IF i.name = call[t].host THEN req[t].host ELSE i.name, volRealm[req[t].vol])
<1>1. ofRealm(i.name, volRealm[req[t].vol])
  BY DEF RealmInv, RealmInvOf, ofVolume
<1>2. /\ req[t] \in Requests /\ isRealmHost(req[t].host)
      /\ call[t].host \in ArrayNames /\ call[t].op # "none"
  BY DEF Typed, Placed, Calls, Ops
<1>3. ~isRealmHost(call[t].host)
  BY <1>2 DEF ArrayNames, ArrayLevel, isRealmHost
<1>4. PICK h \in resolve(req[t].host) : call[t].host = ArrayLevel(h.arrayHost)
  BY <1>2, <1>3 DEF NodeInv
<1>5. serves(h.arrayHost, realmOf(req[t].host))
  BY <1>2 DEF serves
<1>6. CASE i.name = call[t].host
  <2>1. serves(h.arrayHost, volRealm[req[t].vol])
    BY <1>1, <1>3, <1>4, <1>6 DEF ofRealm, ArrayLevel
  <2>2. realmOf(req[t].host) = volRealm[req[t].vol]
    BY <1>5, <2>1, ServesOne
  <2> QED BY <1>2, <1>6, <2>2 DEF ofRealm, realmOf
<1> QED BY <1>1, <1>6

LEMMA VisitRealm ==
  ASSUME OneRealmPerHost, Typed, RealmInv, NEW t \in Threads, InjectItem(t) \/ MapBackItem(t)
  PROVE  RealmInv'
<1>1. ThreadTypeOK /\ RealmInvOf(t) /\ pc[t] \in {"inject", "mapback"}
  BY DEF Typed, TypeOK, RealmInv, InjectItem, MapBackItem
<1>2. PICK i, j :
        /\ i \in todo[t] /\ RewriteItem(t, i, j)
        /\ req[t].path = "connections" => ofVolume({j}, req[t].vol)
        /\ UNCHANGED byArrayHost \/ learnRealmHost(i.name)
  <2>1. \A i \in todo[t] : req[t].path = "connections" => ofVolume({i}, req[t].vol)
    BY <1>1 DEF RealmInvOf, ofVolume
  <2>2. CASE InjectItem(t)
    <3>1. PICK i \in todo[t] :
            \/ RewriteItem(t, i, i) /\ UNCHANGED byArrayHost
            \/ /\ \E h \in resolve(i.name) : RewriteItem(t, i, Item(i.name, h.arrayHost))
               /\ learnRealmHost(i.name)
      BY <2>2 DEF InjectItem
    <3>2. \A x : req[t].path = "connections" => ofVolume({Item(i.name, x)}, req[t].vol)
      BY <2>1 DEF ofVolume, Item
    <3> QED BY <2>1, <3>1, <3>2
  <2>3. CASE MapBackItem(t)
    <3>1. PICK i \in todo[t] :
            LET learned == IF ~isRealmHost(i.name) /\ i.name.rest \in ArrayHosts
                           THEN byArrayHost[i.name.rest] ELSE NoHost
            IN  RewriteItem(t, i, IF learned = NoHost THEN i ELSE Item(learned, i.owner))
      BY <2>3 DEF MapBackItem
    <3> DEFINE learned == IF ~isRealmHost(i.name) /\ i.name.rest \in ArrayHosts
                          THEN byArrayHost[i.name.rest] ELSE NoHost
    <3>2. ASSUME learned # NoHost, req[t].path = "connections", req[t].vol # NoVolume
          PROVE  ofRealm(learned, volRealm[req[t].vol])
      <4>1. /\ ~isRealmHost(i.name) /\ i.name.rest \in ArrayHosts
            /\ learned = byArrayHost[i.name.rest]
        BY <3>2
      <4>2. isRealmHost(learned) /\ serves(i.name.rest, realmOf(learned))
        BY <3>2, <4>1 DEF RealmInv
      <4>3. serves(i.name.rest, volRealm[req[t].vol])
        BY <2>1, <3>2, <4>1 DEF ofVolume, ofRealm
      <4>4. realmOf(learned) = volRealm[req[t].vol]
        BY <4>2, <4>3, ServesOne
      <4> HIDE DEF learned
      <4> QED BY <4>2, <4>4 DEF ofRealm, realmOf
    <3> HIDE DEF learned
    <3>3. learned # NoHost /\ req[t].path = "connections"
            => ofVolume({Item(learned, i.owner)}, req[t].vol)
      BY <3>2 DEF ofVolume, Item
    <3>4. RewriteItem(t, i, IF learned = NoHost THEN i ELSE Item(learned, i.owner))
      BY <3>1 DEF learned
    <3>5. UNCHANGED byArrayHost
      BY <2>3 DEF MapBackItem
    <3> QED BY <2>1, <3>3, <3>4, <3>5
  <2> QED BY <2>2, <2>3
<1>3. /\ conns' = conns /\ late' = late /\ pc' = pc /\ req' = req /\ call' = call
      /\ body'[t] = (body[t] \ {i}) \union {j} /\ todo'[t] = todo[t] \ {i}
      /\ \A u \in Threads : u # t => body'[u] = body[u] /\ todo'[u] = todo[u]
  BY <1>1, <1>2 DEF RewriteItem, ThreadTypeOK, arrayVars, boundVars
<1>4. req[t].path = "connections" => ofVolume(body'[t], req[t].vol)
  BY <1>1, <1>2, <1>3 DEF RealmInvOf, ofVolume
<1>5. RealmInvOf(t)'
  BY <1>1, <1>3, <1>4 DEF RealmInvOf, ofVolume
<1>6. \A u \in Threads : RealmInvOf(u)'
  BY <1>3, <1>5, OthersRealm
<1>7. i.name \in Names
  <2>1. todo[t] \subseteq Items
    BY <1>1 DEF ThreadTypeOK
  <2>2. i \in Items
    BY <1>2, <2>1
  <2> QED BY <2>2 DEF Items
<1>8. \A a \in ArrayHosts : byArrayHost'[a] # NoHost =>
        isRealmHost(byArrayHost'[a]) /\ serves(a, realmOf(byArrayHost'[a]))
  <2>1. CASE UNCHANGED byArrayHost
    BY <2>1 DEF RealmInv
  <2>2. CASE learnRealmHost(i.name)
    BY <1>7, <2>2, LearnedRealm
  <2> QED BY <1>2, <2>1, <2>2
<1> QED BY <1>3, <1>6, <1>8 DEF RealmInv

LEMMA HandleRealm ==
  ASSUME OneRealmPerHost, Typed, NodeInv, RealmInv, NEW t \in Threads, Handle(t)
  PROVE  RealmInv'
<1>1. ThreadTypeOK /\ RealmInvOf(t)
  BY DEF Typed, TypeOK, RealmInv
<1>2. ASSUME NEW s, NEW b, Reply(t, s, b), late' = late,
             req[t].path = "connections" => ofVolume(b, req[t].vol)
      PROVE  RealmInv'
  BY <1>2, ReplyRealm
<1>3. CASE GrantCached(t) \/ GrantSend(t) \/ GrantStore(t)
  <2>1. PICK op, to : /\ setCall(t, op, to)
                      /\ op \in {"grant", "connect"} /\ to \in {"granting", "call"}
    BY <1>3 DEF GrantCached, GrantSend, GrantStore
  <2>2. call[t] \in Calls /\ call[t].op \in {"grant", "connect"}
    BY <1>3 DEF Typed, Placed, GrantCached, GrantSend, GrantStore
  <2>3. /\ conns' = conns /\ late' = late /\ byArrayHost' = byArrayHost
        /\ req' = req /\ body' = body /\ todo' = todo
        /\ pc'[t] = to /\ call'[t].op = op
        /\ call'[t].host = call[t].host /\ call'[t].vol = call[t].vol
        /\ \A u \in Threads : u # t => pc'[u] = pc[u] /\ call'[u] = call[u]
    BY <1>1, <2>1, <2>2 DEF setCall, ThreadTypeOK, Calls, arrayVars, boundVars
  <2>4. RealmInvOf(t)'
    BY <1>1, <2>1, <2>2, <2>3 DEF RealmInvOf, ofVolume
  <2>5. \A u \in Threads : RealmInvOf(u)'
    BY <2>3, <2>4, OthersRealm
  <2> QED BY <2>3, <2>5 DEF RealmInv
<1>4. CASE GrantError(t) \/ EmptyHosts(t)
  BY <1>2, <1>4 DEF GrantError, EmptyHosts, ofVolume
<1>5. CASE AnswerConnection(t)
  <2> DEFINE own(n) == IF n = call[t].host THEN req[t].host ELSE n
             named == {Item(own(i.name), i.owner) : i \in body[t]}
             b == IF req[t].method = "POST" /\ answer[t] = "exists"
                  THEN {Item(req[t].host, NoOwner)} ELSE named
  <2>1. req[t].path = "connections" => ofVolume(named, req[t].vol)
    BY <1>5, NamedRealm DEF AnswerConnection, ofVolume, Item
  <2>2. req[t].path = "connections" /\ req[t].method = "POST" =>
          ofVolume({Item(req[t].host, NoOwner)}, req[t].vol)
    <3>1. req[t] \in Requests /\ isRealmHost(req[t].host)
      BY <1>5 DEF AnswerConnection, Typed, Placed
    <3>2. req[t].path = "connections" /\ req[t].method = "POST" =>
            volRealm[req[t].vol] = req[t].host.realm
      BY <3>1, RewriterAssumption
    <3> QED BY <3>1, <3>2 DEF ofVolume, ofRealm, Item
  <2>3. req[t].path = "connections" => ofVolume(b, req[t].vol)
    BY <2>1, <2>2
  <2>4. Reply(t, statusOf(req[t].method, answer[t]), b) /\ late' = late
    BY <1>5 DEF AnswerConnection
  <2> HIDE DEF b
  <2> QED BY <1>2, <2>3, <2>4
<1>6. CASE ForwardAsIs(t) \/ EndRewrite(t)
  <2>1. (\E s : Reply(t, s, body[t])) /\ late' = late
    BY <1>6 DEF ForwardAsIs, EndRewrite
  <2> QED BY <1>1, <1>2, <2>1 DEF RealmInvOf
<1>7. CASE BeginRewrite(t)
  <2>1. /\ conns' = conns /\ late' = late /\ byArrayHost' = byArrayHost
        /\ req' = req /\ body' = body /\ call' = call
        /\ todo'[t] = body[t] /\ pc'[t] \in {"inject", "mapback"}
        /\ \A u \in Threads : u # t => pc'[u] = pc[u] /\ todo'[u] = todo[u]
    BY <1>1, <1>7 DEF BeginRewrite, ThreadTypeOK, arrayVars, shimVars, boundVars
  <2>2. RealmInvOf(t)'
    BY <1>1, <2>1 DEF RealmInvOf, ofVolume
  <2>3. \A u \in Threads : RealmInvOf(u)'
    BY <2>1, <2>2, OthersRealm
  <2> QED BY <2>1, <2>3 DEF RealmInv
<1>8. CASE Deliver(t)
  <2>1. /\ conns' = conns /\ late' = late /\ byArrayHost' = byArrayHost /\ todo' = todo
        /\ pc'[t] = "idle" /\ body'[t] = {} /\ req'[t] = NoRequest /\ call'[t] = NoCall
        /\ \A u \in Threads : u # t => /\ pc'[u] = pc[u] /\ req'[u] = req[u]
                                      /\ call'[u] = call[u] /\ body'[u] = body[u]
    BY <1>1, <1>8 DEF Deliver, ThreadTypeOK, arrayVars, shimVars, boundVars
  <2>2. RealmInvOf(t)'
    BY <2>1 DEF RealmInvOf, NoRequest, NoCall
  <2>3. \A u \in Threads : RealmInvOf(u)'
    BY <2>1, <2>2, OthersRealm
  <2> QED BY <2>1, <2>3 DEF RealmInv
<1>9. CASE InjectItem(t) \/ MapBackItem(t)
  BY <1>9, VisitRealm
<1>10. CASE ArrayExec(t)
  BY <1>10, AnswerRealm
<1> QED BY <1>3, <1>4, <1>5, <1>6, <1>7, <1>8, <1>9, <1>10 DEF Handle

LEMMA StepRealmInv ==
  ASSUME OneRealmPerHost
  PROVE  Typed /\ NodeInv /\ RealmInv /\ [Next]_vars => RealmInv'
<1> SUFFICES ASSUME Typed, NodeInv, RealmInv, [Next]_vars PROVE RealmInv'
  OBVIOUS
<1>1. ThreadTypeOK /\ TypeOK
  BY DEF Typed, TypeOK
<1>2. ASSUME NEW t \in Threads, waiting(t), call[t].op = "connect"
      PROVE  ofRealm(call[t].host, volRealm[call[t].vol])
  BY <1>2 DEF RealmInv, RealmInvOf
<1>3. ASSUME NEW t \in Threads, ArrayRefuse(t) PROVE RealmInv'
  <2>1. /\ conns' = conns /\ late' = late /\ byArrayHost' = byArrayHost
        /\ req' = req /\ call' = call /\ body' = body /\ todo' = todo
        /\ pc'[t] \in {"granted", "answered", "passed"}
        /\ \A u \in Threads : u # t => pc'[u] = pc[u]
    BY <1>1, <1>3 DEF ArrayRefuse, waiting, awaits, ThreadTypeOK, arrayVars, shimVars
  <2>2. RealmInvOf(t)'
    BY <2>1 DEF RealmInv, RealmInvOf, ofVolume
  <2>3. \A u \in Threads : RealmInvOf(u)'
    BY <2>1, <2>2, OthersRealm
  <2> QED BY <2>1, <2>3 DEF RealmInv
<1>4. ASSUME NEW t \in Threads, CallLost(t) PROVE RealmInv'
  <2>1. \A c \in BagToSet(late') \ BagToSet(late) :
          c.op = "connect" => ofRealm(c.host, volRealm[c.vol])
    BY <1>1, <1>2, <1>4, LateLost
  <2> QED BY <1>4, <2>1, ReplyRealm DEF CallLost, ofVolume
<1>5. CASE LateExec
  <2>1. PICK c \in BagToSet(late) : Execute(c)
    BY <1>5 DEF LateExec
  <2>2. \A k \in conns' : ofRealm(k.host, volRealm[k.vol])
    BY <2>1, ExecuteRealm DEF RealmInv
  <2>3. byArrayHost' = byArrayHost /\ UNCHANGED threadVars
    BY <1>5 DEF LateExec, shimVars
  <2>4. \A u \in Threads : RealmInvOf(u)'
    BY <2>3 DEF threadVars, RealmInv, RealmInvOf, ofVolume
  <2>5. BagToSet(late') \subseteq BagToSet(late)
    BY <1>1, <1>5, LateArrives
  <2> QED BY <2>2, <2>3, <2>4, <2>5 DEF RealmInv
<1>6. CASE Restart
  <2>1. \A u \in Threads : RealmInvOf(u)'
    BY <1>6 DEF Restart, RealmInvOf, NoRequest, NoCall
  <2>2. \A c \in BagToSet(late') : c.op = "connect" => ofRealm(c.host, volRealm[c.vol])
    BY <1>1, <1>2, <1>6, LateRestarted DEF RealmInv
  <2>3. conns' = conns /\ \A a \in ArrayHosts : byArrayHost'[a] = NoHost
    BY <1>6 DEF Restart, arrayVars
  <2> QED BY <2>1, <2>2, <2>3 DEF RealmInv
<1>7. CASE Reprovision
  <2>1. conns' \subseteq conns /\ late' = late /\ byArrayHost' = byArrayHost /\ UNCHANGED threadVars
    BY <1>7 DEF Reprovision, Provision, Deprovision, OperatorGrant, OperatorDisconnect, shimVars
  <2>2. \A u \in Threads : RealmInvOf(u)'
    BY <2>1 DEF threadVars, RealmInv, RealmInvOf, ofVolume
  <2> QED BY <2>1, <2>2 DEF RealmInv
<1>8. CASE UNCHANGED vars
  <2>1. \A u \in Threads : RealmInvOf(u)'
    BY <1>8 DEF vars, threadVars, RealmInv, RealmInvOf, ofVolume
  <2> QED BY <1>8, <2>1 DEF vars, arrayVars, shimVars, boundVars, RealmInv
<1> QED BY SendRealm, HandleRealm, <1>3, <1>4, <1>5, <1>6, <1>7, <1>8 DEF Next

(***************************************************************************)
(* As long as no two realms have hosts on one array host, the connections  *)
(* of a volume are shown to px under names of the volume's realm only,     *)
(* whatever is retried, lost, comes late or is restarted, and however many *)
(* requests are handled at a time.  (The run "realms" shows two realms on  *)
(* one node, where the listing names the other realm's host.)              *)
(***************************************************************************)
THEOREM RealmsKeptApart ==
  ASSUME OneRealmPerHost
  PROVE  Spec => []OwnRealmOnly
<1>1. Init => NodeInv /\ RealmInv
  <2>1. Init => NodeInv
    BY DEF Init, NodeInv, NoCall
  <2>2. Init => RealmInv
    BY DEF Init, RealmInv, RealmInvOf, NoCall, NoRequest, EmptyBag, SetToBag, BagToSet
  <2> QED BY <2>1, <2>2
<1>2. RealmInv => OwnRealmOnly
  <2> SUFFICES ASSUME RealmInv, NEW t \in Threads, req[t].path = "connections",
                      req[t].vol # NoVolume, NEW i \in body[t], isRealmHost(i.name)
               PROVE  realmOf(i.name) = volRealm[req[t].vol]
    BY DEF OwnRealmOnly
  <2>1. ofRealm(i.name, volRealm[req[t].vol])
    BY DEF RealmInv, RealmInvOf, ofVolume
  <2> QED BY <2>1 DEF ofRealm, realmOf
<1>3. Typed /\ NodeInv /\ RealmInv /\ [Next]_vars => RealmInv'
  BY StepRealmInv
<1> QED BY InitTyped, StepTyped, StepNodeInv, <1>1, <1>2, <1>3, PTL DEF Spec
-----------------------------------------------------------------------------
(***************************************************************************)
(* The refinement of Attachment.  The call of a command is on a place of   *)
(* its name all the way, and only a command's call connects or             *)
(* disconnects.                                                            *)
(***************************************************************************)
CommandInv ==
  \A t \in Threads :
    /\ pc[t] = "idle" => req[t] = NoRequest
    /\ pc[t] # "idle" => req[t] \in Requests
    /\ isCommand(req[t]) =>
         /\ pc[t] \in {"grant", "granting", "granted", "call", "answered", "pass", "passed", "reply"}
         /\ pc[t] \in {"grant", "granting", "granted"} => req[t].method = "POST"
         /\ pc[t] \in {"call", "answered", "pass", "passed"} =>
              call[t].op = opOf[req[t].path][req[t].method]
         /\ call[t].vol = req[t].vol /\ call[t].host \in placesOf[req[t].host]
    /\ ~isCommand(req[t]) =>
         /\ pc[t] \notin {"grant", "granting", "granted"}
         /\ call[t].op \notin {"connect", "disconnect"}

\* What the handler of a new request is to call, and where it goes.
begins(r, to, c) ==
  IF isCommand(r)
  THEN /\ to \in {"grant", "call", "pass"}
       /\ to = "grant" => r.method = "POST"
       /\ c.op = opOf[r.path][r.method] /\ c.vol = r.vol /\ c.host \in placesOf[r.host]
  ELSE to \in {"call", "pass", "reply"} /\ c.op \notin {"connect", "disconnect"}

LEMMA RequestBegins ==
  ASSUME NEW t \in Threads, NEW r \in Requests, Send(t, r)
  PROVE  \E to, c : Accept(t, r, to, c) /\ begins(r, to, c)
<1>1. /\ r.path \in {"hosts", "connections"} /\ r.method \in {"GET", "POST", "DELETE", "PATCH"}
      /\ r.path = "connections" => r.method # "PATCH"
      /\ r.host \in HostNamesUsed
  BY RewriterAssumption, PassedCall DEF RequestType, HostNamesUsed
<1>2. /\ isCommand(r) => opOf[r.path][r.method] \in {"connect", "disconnect"}
      /\ ~isCommand(r) => opOf[r.path][r.method] \notin {"connect", "disconnect"}
  BY <1>1 DEF isCommand, opOf
<1>3. CASE RewriteConnection(t, r)
  <2>1. PICK h \in resolve(r.host) :
          Accept(t, r, IF r.method = "POST" THEN "grant" ELSE "call", callFor(r, hostNames(r, h)))
    BY <1>3 DEF RewriteConnection
  <2>2. ArrayLevel(h.arrayHost) \in placesOf[r.host]
    BY <1>1, <1>3 DEF RewriteConnection, rewritable, placesOf
  <2>3. r.method # "POST" \/ isCommand(r)
    BY <1>3 DEF RewriteConnection, rewritable, isCommand
  <2> QED BY <1>2, <2>1, <2>2, <2>3 DEF begins, callFor, hostNames
<1>4. CASE FakePatch(t, r) \/ SynthHost(t, r)
  <2>1. ~isCommand(r) /\ Accept(t, r, "reply", NoCall)
    BY <1>4 DEF FakePatch, SynthHost, isCommand
  <2> QED BY <2>1 DEF begins, NoCall
<1>5. CASE PassThrough(t, r)
  <2>1. isCommand(r) => r.host \in placesOf[r.host]
    BY <1>1, <1>5 DEF PassThrough, passes, placesOf, isCommand
  <2>2. Accept(t, r, "pass", callFor(r, r.host))
    BY <1>5 DEF PassThrough
  <2> QED BY <1>2, <2>1, <2>2 DEF begins, callFor
<1> QED BY <1>3, <1>4, <1>5 DEF Send

\* A response is put together for the request at hand.
LEMMA ReplyCommand ==
  ASSUME Typed, CommandInv, NEW t \in Threads, NEW s, NEW b, Reply(t, s, b), pc[t] # "idle"
  PROVE  CommandInv'
<1>1. /\ pc'[t] = "reply" /\ call' = call /\ req' = req
      /\ \A u \in Threads : u # t => pc'[u] = pc[u]
  BY DEF Typed, TypeOK, ThreadTypeOK, Reply
<1> QED BY <1>1 DEF CommandInv

LEMMA StepCommandInv == Typed /\ CommandInv /\ [Next]_vars => CommandInv'
<1> SUFFICES ASSUME Typed, CommandInv, [Next]_vars PROVE CommandInv'
  OBVIOUS
<1>1. ThreadTypeOK /\ Placed
  BY DEF Typed, TypeOK
<1>0. ~isCommand(NoRequest) /\ NoCall.op \notin {"connect", "disconnect"}
  BY DEF isCommand, NoRequest, NoCall
<1>2. ASSUME NEW t \in Threads, NEW r \in Requests, Send(t, r) PROVE CommandInv'
  <2>1. PICK to, c : Accept(t, r, to, c) /\ begins(r, to, c)
    BY <1>2, RequestBegins
  <2>2. /\ pc[t] = "idle" /\ pc'[t] = to /\ call'[t] = c /\ req'[t] = r
        /\ \A u \in Threads : u # t => pc'[u] = pc[u] /\ call'[u] = call[u] /\ req'[u] = req[u]
    BY <1>1, <2>1 DEF Accept, ThreadTypeOK
  <2> QED BY <2>1, <2>2 DEF CommandInv, begins
<1>3. ASSUME NEW t \in Threads, GrantCached(t) \/ GrantSend(t) \/ GrantStore(t) PROVE CommandInv'
  <2>1. PICK op, to : /\ setCall(t, op, to) /\ pc[t] \in {"grant", "granted"}
                      /\ (to = "granting" /\ op = "grant") \/ (to = "call" /\ op = "connect")
    BY <1>3 DEF GrantCached, GrantSend, GrantStore
  <2>2. /\ pc'[t] = to /\ req' = req
        /\ call'[t].op = op /\ call'[t].host = call[t].host /\ call'[t].vol = call[t].vol
        /\ \A u \in Threads : u # t => pc'[u] = pc[u] /\ call'[u] = call[u]
    <3>1. call[t] \in Calls
      BY <1>1, <2>1 DEF Placed
    <3> QED BY <1>1, <2>1, <3>1 DEF setCall, ThreadTypeOK, Calls
  <2>3. isCommand(req[t]) /\ req[t].method = "POST"
    BY <2>1 DEF CommandInv
  <2>4. opOf[req[t].path][req[t].method] = "connect"
    BY <2>3 DEF isCommand, opOf
  <2> QED BY <2>1, <2>2, <2>3, <2>4 DEF CommandInv
<1>4. ASSUME NEW t \in Threads, BeginRewrite(t) PROVE CommandInv'
  <2>1. /\ ~isCommand(req[t]) /\ pc'[t] \in {"inject", "mapback"} /\ pc[t] = "passed"
        /\ call' = call /\ req' = req /\ \A u \in Threads : u # t => pc'[u] = pc[u]
    BY <1>1, <1>4 DEF BeginRewrite, HostList, ConnList, isCommand, ThreadTypeOK
  <2> QED BY <2>1 DEF CommandInv
<1>5. ASSUME NEW t \in Threads, InjectItem(t) \/ MapBackItem(t) PROVE CommandInv'
  <2>1. PICK i, j : RewriteItem(t, i, j)
    BY <1>5 DEF InjectItem, MapBackItem
  <2> QED BY <2>1 DEF RewriteItem, CommandInv
<1>6. ASSUME NEW t \in Threads, Deliver(t) PROVE CommandInv'
  <2>1. /\ pc'[t] = "idle" /\ req'[t] = NoRequest /\ call'[t] = NoCall
        /\ \A u \in Threads : u # t => pc'[u] = pc[u] /\ call'[u] = call[u] /\ req'[u] = req[u]
    BY <1>1, <1>6 DEF Deliver, ThreadTypeOK
  <2> QED BY <1>0, <2>1 DEF CommandInv
<1>7. ASSUME NEW t \in Threads, ArrayExec(t) \/ ArrayRefuse(t) PROVE CommandInv'
  <2>1. /\ pc[t] \in {"granting", "call", "pass"} /\ call' = call /\ req' = req
        /\ pc'[t] = awaits[pc[t]] /\ \A u \in Threads : u # t => pc'[u] = pc[u]
    BY <1>1, <1>7 DEF ArrayExec, ArrayRefuse, waiting, awaits, ThreadTypeOK
  <2> QED BY <2>1 DEF CommandInv, awaits
<1>8. ASSUME NEW t \in Threads, Handle(t) PROVE CommandInv'
  BY <1>3, <1>4, <1>5, <1>6, <1>7, <1>8, ReplyCommand
     DEF Handle, GrantError, AnswerConnection, EmptyHosts, ForwardAsIs, EndRewrite
<1>9. ASSUME NEW t \in Threads, CallLost(t) PROVE CommandInv'
  BY <1>9, ReplyCommand DEF CallLost, waiting, awaits
<1>10. CASE LateExec \/ Reprovision
  BY <1>10 DEF LateExec, Reprovision, threadVars, CommandInv
<1>11. CASE Restart
  BY <1>0, <1>11 DEF Restart, CommandInv
<1>12. CASE UNCHANGED vars
  BY <1>12 DEF vars, threadVars, CommandInv
<1> QED BY <1>2, <1>7, <1>8, <1>9, <1>10, <1>11, <1>12 DEF Next

-----------------------------------------------------------------------------
\* A step of one thread shows px that thread's command only.
LEMMA OneMoves ==
  ASSUME NEW t \in Threads,
         \A u \in Threads \ {t} : /\ pc'[u] = pc[u] /\ req'[u] = req[u] /\ call'[u] = call[u]
                                  /\ answer'[u] = answer[u] /\ status'[u] = status[u]
  PROVE  /\ phase' = [phase EXCEPT ![t] = phase'[t]]
         /\ order' = [order EXCEPT ![t] = order'[t]]
<1>1. \A u \in Threads \ {t} : phase'[u] = phase[u] /\ order'[u] = order[u]
  BY DEF phase, order, effective
<1>2. DOMAIN phase = Threads /\ DOMAIN phase' = Threads /\ DOMAIN order = Threads /\ DOMAIN order' = Threads
  BY DEF phase, order
<1>3. /\ phase = [u \in Threads |-> phase[u]] /\ phase' = [u \in Threads |-> phase'[u]]
      /\ order = [u \in Threads |-> order[u]] /\ order' = [u \in Threads |-> order'[u]]
  BY DEF phase, order
<1> HIDE DEF phase, order
<1> QED BY <1>1, <1>2, <1>3

\* A call that connects or disconnects is told by its task.
changes(c) == c.op \in {"connect", "disconnect"}

LEMMA TaskTells ==
  ASSUME NEW c \in Calls, changes(c)
  PROVE  callOf(taskOf(c)) = c
BY DEF Calls, changes, callOf, taskOf

\* The tasks of a bag of calls: which there are, and how many of each.
LEMMA InTasks ==
  ASSUME NEW B, BagToSet(B) \subseteq Calls
  PROVE  /\ BagToSet(tasksIn(B)) = {taskOf(c) : c \in {d \in BagToSet(B) : changes(d)}}
         /\ \A c \in BagToSet(B) : changes(c) => tasksIn(B)[taskOf(c)] = B[c]
         /\ \A c \in Calls : changes(c) /\ taskOf(c) \in BagToSet(tasksIn(B)) => c \in BagToSet(B)
<1>1. BagToSet(tasksIn(B)) = {taskOf(c) : c \in {d \in BagToSet(B) : changes(d)}}
  BY DEF tasksIn, BagToSet, changes
<1>2. ASSUME NEW c \in BagToSet(B), changes(c) PROVE tasksIn(B)[taskOf(c)] = B[c]
  <2>1. callOf(taskOf(c)) = c
    BY <1>2, TaskTells
  <2> QED BY <1>2, <2>1 DEF tasksIn, changes
<1>3. ASSUME NEW c \in Calls, changes(c), taskOf(c) \in BagToSet(tasksIn(B))
      PROVE  c \in BagToSet(B)
  <2>1. PICK d \in BagToSet(B) : changes(d) /\ taskOf(d) = taskOf(c)
    BY <1>1, <1>3
  <2> QED BY <1>3, <2>1, TaskTells
<1> QED BY <1>1, <1>2, <1>3

\* Two bags of tasks are the same if they hold the same tasks, as often.
LEMMA SameTasks ==
  ASSUME NEW D, NEW E, NEW f, NEW g, f = [k \in D |-> f[k]], g = [k \in E |-> g[k]],
         D = E, \A k \in D : f[k] = g[k]
  PROVE  f = g
OBVIOUS

LEMMA TasksPlus ==
  ASSUME NEW B, BagToSet(B) \subseteq Calls, NEW C, BagToSet(C) \subseteq Calls
  PROVE  tasksIn(B (+) C) = tasksIn(B) (+) tasksIn(C)
<1> DEFINE P == B (+) C
           Q == tasksIn(B) (+) tasksIn(C)
<1>1. /\ BagToSet(P) = BagToSet(B) \union BagToSet(C)
      /\ \A c \in BagToSet(P) : P[c] = (IF c \in BagToSet(B) THEN B[c] ELSE 0)
                                      + (IF c \in BagToSet(C) THEN C[c] ELSE 0)
  BY DEF (+), BagToSet
<1>2. /\ BagToSet(Q) = BagToSet(tasksIn(B)) \union BagToSet(tasksIn(C))
      /\ \A k \in BagToSet(Q) : Q[k] = (IF k \in BagToSet(tasksIn(B)) THEN tasksIn(B)[k] ELSE 0)
                                      + (IF k \in BagToSet(tasksIn(C)) THEN tasksIn(C)[k] ELSE 0)
  BY DEF (+), BagToSet
<1>3. Q = [k \in BagToSet(Q) |-> Q[k]] /\ tasksIn(P) = [k \in BagToSet(tasksIn(P)) |-> tasksIn(P)[k]]
  BY DEF (+), BagToSet, tasksIn
<1> HIDE DEF P, Q
<1>4. BagToSet(P) \subseteq Calls
  BY <1>1
<1>5. BagToSet(tasksIn(P)) = BagToSet(Q)
  BY <1>1, <1>2, <1>4, InTasks
<1>6. ASSUME NEW k \in BagToSet(Q) PROVE tasksIn(P)[k] = Q[k]
  <2>1. PICK c \in BagToSet(P) : changes(c) /\ k = taskOf(c)
    BY <1>4, <1>5, InTasks
  <2>2. tasksIn(P)[k] = P[c]
    BY <1>4, <2>1, InTasks
  <2>3. /\ k \in BagToSet(tasksIn(B)) <=> c \in BagToSet(B)
        /\ k \in BagToSet(tasksIn(C)) <=> c \in BagToSet(C)
        /\ c \in BagToSet(B) => tasksIn(B)[k] = B[c]
        /\ c \in BagToSet(C) => tasksIn(C)[k] = C[c]
    BY <1>4, <2>1, InTasks
  <2> QED BY <1>1, <1>2, <2>1, <2>2, <2>3
<1>7. tasksIn(P) = Q
  BY <1>3, <1>5, <1>6, SameTasks
<1> QED BY <1>7 DEF P, Q

LEMMA TasksMinusOne ==
  ASSUME NEW B, IsABag(B), BagToSet(B) \subseteq Calls, NEW c \in BagToSet(B)
  PROVE  tasksIn(B (-) SetToBag({c})) =
           IF changes(c) THEN tasksIn(B) (-) SetToBag({taskOf(c)}) ELSE tasksIn(B)
<1> DEFINE P == B (-) SetToBag({c})
           Q == IF changes(c) THEN tasksIn(B) (-) SetToBag({taskOf(c)}) ELSE tasksIn(B)
<1>1. \A d \in BagToSet(B) : B[d] \in Nat /\ B[d] > 0
  BY DEF IsABag, BagToSet
<1>2. /\ BagToSet(P) = {d \in BagToSet(B) : d # c \/ B[d] > 1}
      /\ \A d \in BagToSet(P) : P[d] = IF d = c THEN B[d] - 1 ELSE B[d]
  BY <1>1 DEF (-), SetToBag, BagToSet
<1>3. tasksIn(P) = [k \in BagToSet(tasksIn(P)) |-> tasksIn(P)[k]]
  BY DEF BagToSet, tasksIn
<1>4. \A k \in BagToSet(tasksIn(B)) : tasksIn(B)[k] \in Nat /\ tasksIn(B)[k] > 0
  BY <1>1, InTasks
<1>5. /\ changes(c) => BagToSet(Q) = {k \in BagToSet(tasksIn(B)) : k # taskOf(c) \/ tasksIn(B)[k] > 1}
      /\ ~changes(c) => BagToSet(Q) = BagToSet(tasksIn(B))
      /\ \A k \in BagToSet(Q) : Q[k] = IF changes(c) /\ k = taskOf(c) THEN tasksIn(B)[k] - 1
                                       ELSE tasksIn(B)[k]
      /\ Q = [k \in BagToSet(Q) |-> Q[k]]
  <2>1. CASE changes(c)
    BY <1>4, <2>1 DEF (-), SetToBag, BagToSet
  <2>2. CASE ~changes(c)
    BY <2>2 DEF BagToSet, tasksIn
  <2> QED BY <2>1, <2>2
<1> HIDE DEF P, Q
<1>6. BagToSet(P) \subseteq Calls
  BY <1>2
<1>7. ASSUME NEW d \in BagToSet(B), changes(d)
      PROVE  taskOf(d) \in BagToSet(tasksIn(P)) <=> taskOf(d) \in BagToSet(Q)
  <2>1. taskOf(d) \in BagToSet(tasksIn(P)) <=> d \in BagToSet(P)
    BY <1>6, <1>7, InTasks
  <2>2. taskOf(d) \in BagToSet(tasksIn(B)) /\ tasksIn(B)[taskOf(d)] = B[d]
    BY <1>7, InTasks
  <2>3. changes(c) => (taskOf(d) = taskOf(c) <=> d = c)
    BY <1>7, TaskTells
  <2>4. ~changes(c) => d # c
    BY <1>7
  <2> QED BY <1>2, <1>5, <2>1, <2>2, <2>3, <2>4
<1>8. \A k \in BagToSet(tasksIn(P)) \union BagToSet(Q) :
        \E d \in BagToSet(B) : changes(d) /\ k = taskOf(d)
  BY <1>2, <1>5, <1>6, InTasks
<1>9. BagToSet(tasksIn(P)) = BagToSet(Q)
  BY <1>7, <1>8
<1>10. ASSUME NEW k \in BagToSet(Q) PROVE tasksIn(P)[k] = Q[k]
  <2>1. PICK d \in BagToSet(B) : changes(d) /\ k = taskOf(d)
    BY <1>8
  <2>2. d \in BagToSet(P) /\ tasksIn(P)[k] = P[d] /\ tasksIn(B)[k] = B[d]
    BY <1>6, <1>9, <2>1, InTasks
  <2>3. changes(c) => (taskOf(d) = taskOf(c) <=> d = c)
    BY <2>1, TaskTells
  <2>4. ~changes(c) => d # c
    BY <2>1
  <2> QED BY <1>2, <1>5, <2>1, <2>2, <2>3, <2>4
<1>11. tasksIn(P) = Q
  BY <1>3, <1>5, <1>9, <1>10, SameTasks
<1> QED BY <1>11 DEF P, Q

\* Bags are to Attachment what they are to Rewriter.
LEMMA SameBags ==
  /\ Promised!EmptyBag = EmptyBag
  /\ \A B : Promised!BagToSet(B) = BagToSet(B)
  /\ \A S : Promised!SetToBag(S) = SetToBag(S)
BY DEF EmptyBag, BagToSet, SetToBag, Promised!EmptyBag, Promised!BagToSet, Promised!SetToBag

LEMMA SameSums ==
  /\ \A B, C : Promised!(+)(B, C) = B (+) C
  /\ \A B, C : Promised!(-)(B, C) = B (-) C
BY DEF (+), (-), BagToSet, Promised!(+), Promised!(-), Promised!BagToSet

LEMMA SameCount == \A S : Promised!Cardinality(S) = Cardinality(S)
BY DEF Cardinality, Promised!Cardinality

\* What the calls of some threads leave behind is what their orders do.
LEMMA TasksOfCalls ==
  ASSUME NEW T \in SUBSET Threads, \A t \in T : call[t] \in Calls,
         NEW S \in SUBSET T,
         \A t \in T : IF t \in S THEN changes(call[t]) /\ Promised!task(order[t]) = taskOf(call[t])
                                 ELSE ~changes(call[t])
  PROVE  tasksIn(callsOf(T)) = Promised!tasks(S)
<1> DEFINE C == callsOf(T)
           Q == Promised!tasks(S)
<1>1. BagToSet(C) = {call[t] : t \in T} /\ \A c \in BagToSet(C) : C[c] = Cardinality({t \in T : call[t] = c})
  BY DEF callsOf, BagToSet
<1> HIDE DEF order
<1>2. /\ BagToSet(Q) = {Promised!task(order[t]) : t \in S}
      /\ \A k \in BagToSet(Q) : Q[k] = Cardinality({t \in S : Promised!task(order[t]) = k})
      /\ Q = [k \in BagToSet(Q) |-> Q[k]]
  BY SameCount DEF Promised!tasks, BagToSet
<1>3. tasksIn(C) = [k \in BagToSet(tasksIn(C)) |-> tasksIn(C)[k]]
  BY DEF BagToSet, tasksIn
<1> HIDE DEF C, Q
<1>4. BagToSet(C) \subseteq Calls
  BY <1>1
<1>5. BagToSet(tasksIn(C)) = BagToSet(Q)
  <2>1. BagToSet(tasksIn(C)) = {taskOf(c) : c \in {d \in BagToSet(C) : changes(d)}}
    BY <1>4, InTasks
  <2>2. ASSUME NEW t \in S PROVE Promised!task(order[t]) \in BagToSet(tasksIn(C))
    BY <1>1, <2>1
  <2>3. ASSUME NEW k \in BagToSet(tasksIn(C)) PROVE k \in BagToSet(Q)
    BY <1>1, <1>2, <2>1
  <2> QED BY <1>2, <2>2, <2>3
<1>6. ASSUME NEW k \in BagToSet(Q) PROVE tasksIn(C)[k] = Q[k]
  <2>1. PICK c \in BagToSet(C) : changes(c) /\ k = taskOf(c)
    BY <1>4, <1>5, InTasks
  <2>2. tasksIn(C)[k] = Cardinality({t \in T : call[t] = c})
    BY <1>1, <1>4, <2>1, InTasks
  <2>3. {t \in T : call[t] = c} = {t \in S : Promised!task(order[t]) = k}
    BY <1>4, <2>1, TaskTells
  <2> QED BY <1>2, <2>2, <2>3
<1>7. tasksIn(C) = Q
  BY <1>2, <1>3, <1>5, <1>6, SameTasks
<1> QED BY <1>7 DEF C, Q

LEMMA InitPromised == Init => Promised!Init
BY SameBags DEF Init, Promised!Init, order, phase, left, tasksIn, EmptyBag, SetToBag, BagToSet,
                isCommand, NoRequest

\* A handler that asks for the grant, or whose request is none of a connection, shows px nothing.
LEMMA Hidden ==
  ASSUME NEW t \in Threads,
         \A u \in Threads \ {t} : /\ pc'[u] = pc[u] /\ req'[u] = req[u] /\ call'[u] = call[u]
                                  /\ answer'[u] = answer[u] /\ status'[u] = status[u],
         phase'[t] = phase[t], order'[t] = order[t], conns' = conns, left' = left
  PROVE  UNCHANGED Promised!vars
<1>1. phase' = phase /\ order' = order
  <2>1. /\ phase = [u \in Threads |-> phase[u]] /\ order = [u \in Threads |-> order[u]]
    BY DEF phase, order
  <2> HIDE DEF phase, order
  <2> QED BY <2>1, OneMoves
<1> QED BY <1>1 DEF Promised!vars

LEMMA AskPromised ==
  ASSUME Typed, CommandInv, NEW t \in Threads, NEW r \in Requests, Send(t, r)
  PROVE  Promised!Next \/ UNCHANGED Promised!vars
<1>1. PICK to, c : Accept(t, r, to, c) /\ begins(r, to, c)
  BY RequestBegins
<1>2. /\ pc[t] = "idle" /\ pc'[t] = to /\ call'[t] = c /\ req'[t] = r /\ conns' = conns /\ late' = late
      /\ answer' = answer
      /\ \A u \in Threads \ {t} : pc'[u] = pc[u] /\ req'[u] = req[u] /\ call'[u] = call[u]
  BY <1>1 DEF Accept, arrayVars, boundVars, Typed, TypeOK, ThreadTypeOK
<1>3. \A u \in Threads \ {t} : status'[u] = status[u]
  BY DEF Send, FakePatch, SynthHost, RewriteConnection, PassThrough, Typed, TypeOK, ThreadTypeOK
<1>4. phase[t] = "idle" /\ order[t] = NoOrder /\ left' = left
  BY <1>2 DEF CommandInv, phase, order, left, isCommand, NoRequest
<1>5. CASE isCommand(r)
  <2>1. phase'[t] = "asked"
    BY <1>1, <1>2, <1>5 DEF begins, phase
  <2>2. order'[t] \in Promised!Orders
    <3>1. PICK cmd \in Commands :
            cmd = [op |-> opOf[r.path][r.method], name |-> r.host, vol |-> r.vol]
      BY <1>5 DEF Commands
    <3>2. /\ order'[t] = [op |-> cmd.op, name |-> cmd.name, vol |-> cmd.vol, place |-> c.host]
          /\ c.host \in placesOf[cmd.name]
      BY <1>1, <1>2, <1>5, <3>1 DEF begins, order
    <3>3. order'[t] \in {[op |-> cmd.op, name |-> cmd.name, vol |-> cmd.vol, place |-> p] :
                         p \in placesOf[cmd.name]}
      BY <3>2
    <3> QED BY <3>3 DEF Promised!Orders
  <2>3. /\ phase' = [phase EXCEPT ![t] = phase'[t]]
        /\ order' = [order EXCEPT ![t] = order'[t]]
    BY <1>2, <1>3, OneMoves
  <2> HIDE DEF phase, order, left
  <2>4. Promised!Ask(t)
    BY <1>2, <1>4, <2>1, <2>2, <2>3 DEF Promised!Ask
  <2> QED BY <2>4 DEF Promised!Next
<1>6. CASE ~isCommand(r)
  <2>1. phase'[t] = "idle" /\ order'[t] = NoOrder
    BY <1>2, <1>6 DEF phase, order
  <2> QED BY <1>2, <1>3, <1>4, <2>1, Hidden
<1> QED BY <1>5, <1>6

\* px is answered as the array did.
LEMMA AnswerPromised ==
  ASSUME Typed, CommandInv, NEW t \in Threads, NEW s, NEW b, Reply(t, s, b), late' = late,
         pc[t] \in {"answered", "passed", "inject", "mapback"},
         isCommand(req[t]) => (s = 200 <=> effective(t))
  PROVE  Promised!Next \/ UNCHANGED Promised!vars
<1>1. /\ pc'[t] = "reply" /\ status'[t] = s /\ call' = call /\ req' = req /\ answer' = answer
      /\ conns' = conns
      /\ \A u \in Threads \ {t} : pc'[u] = pc[u] /\ status'[u] = status[u]
  BY DEF Reply, arrayVars, Typed, TypeOK, ThreadTypeOK
<1>2. order'[t] = order[t] /\ left' = left
  BY <1>1 DEF order, left
<1>3. CASE isCommand(req[t])
  <2>1. pc[t] \in {"answered", "passed"}
    BY <1>3 DEF CommandInv
  <2>2. /\ phase[t] \in {"done", "refused"}
        /\ phase'[t] = IF phase[t] = "done" THEN "ok" ELSE "error"
    BY <1>1, <1>3, <2>1 DEF phase
  <2>3. phase' = [phase EXCEPT ![t] = phase'[t]] /\ order' = order
    <3>1. order = [u \in Threads |-> order[u]]
      BY DEF order
    <3> HIDE DEF phase, order
    <3> QED BY <1>1, <1>2, <3>1, OneMoves
  <2> HIDE DEF phase, order, left
  <2>4. Promised!Answer(t)
    BY <1>1, <1>2, <2>2, <2>3 DEF Promised!Answer
  <2> QED BY <2>4 DEF Promised!Next
<1>4. CASE ~isCommand(req[t])
  <2>1. phase'[t] = phase[t]
    BY <1>1, <1>4 DEF phase
  <2> QED BY <1>1, <1>2, <2>1, Hidden
<1> QED BY <1>3, <1>4

\* The call of a thread with a command is the task of its order.
LEMMA CommandCall ==
  ASSUME Typed, CommandInv, NEW t \in Threads, isCommand(req[t]), pc[t] \in {"call", "pass"}
  PROVE  /\ call[t] \in Calls /\ changes(call[t])
         /\ Promised!task(order[t]) = taskOf(call[t])
<1>1. call[t] \in Calls
  BY DEF Typed, Placed
<1>2. call[t].op \in {"connect", "disconnect"} /\ call[t].op = opOf[req[t].path][req[t].method]
      /\ call[t].vol = req[t].vol
  BY DEF CommandInv, isCommand, opOf
<1>3. Promised!task(order[t]) = taskOf(call[t])
  BY <1>2 DEF Promised!task, order, taskOf
<1> QED BY <1>1, <1>2, <1>3 DEF changes

\* Calls that are given up leave their tasks behind.
LEMMA LeftBehind ==
  ASSUME Typed, NEW S \in SUBSET {t \in Threads : waiting(t)}, late' = late (+) callsOf(S)
  PROVE  left' = left (+) tasksIn(callsOf(S))
<1>1. BagToSet(late) \subseteq Calls
  BY DEF Typed, TypeOK, BoundTypeOK
<1>2. \A t \in S : call[t] \in Calls
  BY DEF Typed, Placed, waiting, awaits
<1>3. BagToSet(callsOf(S)) = {call[t] : t \in S}
  BY CallsOf
<1>4. BagToSet(callsOf(S)) \subseteq Calls
  BY <1>2, <1>3
<1> QED BY <1>1, <1>4, TasksPlus DEF left

LEMMA NothingLeft ==
  ASSUME Typed, NEW t \in Threads, waiting(t), ~changes(call[t]), late' = late (+) callsOf({t})
  PROVE  left' = left
<1> DEFINE C == tasksIn(callsOf({t}))
<1>1. left' = left (+) C
  BY LeftBehind
<1>2. BagToSet(callsOf({t})) = {call[t]} /\ call[t] \in Calls
  BY CallsOf DEF Typed, Placed, waiting, awaits
<1>3. BagToSet(C) = {}
  <2>1. BagToSet(C) = {taskOf(c) : c \in {d \in BagToSet(callsOf({t})) : changes(d)}}
    BY <1>2, InTasks
  <2> QED BY <1>2, <2>1
<1>4. left = [k \in DOMAIN left |-> left[k]]
  BY DEF left, tasksIn
<1> HIDE DEF C, left
<1>5. left (+) C = [k \in DOMAIN left |-> left[k] + 0]
  BY <1>3 DEF (+), BagToSet
<1>6. \A k \in DOMAIN left : left[k] \in Nat
  <2>1. /\ BagToSet(late) \subseteq Calls
        /\ \A c \in BagToSet(late) : late[c] \in Nat
    BY DEF Typed, TypeOK, BoundTypeOK, IsABag, BagToSet
  <2>2. BagToSet(left) = DOMAIN left
    BY DEF BagToSet
  <2> QED BY <2>1, <2>2, InTasks DEF left
<1> QED BY <1>1, <1>4, <1>5, <1>6

\* px is told an error, and the order may be left behind.
LEMMA FailPromised ==
  ASSUME Typed, CommandInv, NEW t \in Threads, NEW b, Reply(t, 502, b),
         pc[t] \in {"granting", "granted", "call", "answered", "pass", "passed"},
         late' = late \/ (waiting(t) /\ late' = late (+) callsOf({t}))
  PROVE  Promised!Next \/ UNCHANGED Promised!vars
<1>1. /\ pc'[t] = "reply" /\ status'[t] = 502 /\ call' = call /\ req' = req /\ answer' = answer
      /\ conns' = conns
      /\ \A u \in Threads \ {t} : pc'[u] = pc[u] /\ status'[u] = status[u]
  BY DEF Reply, arrayVars, Typed, TypeOK, ThreadTypeOK
<1>2. order'[t] = order[t]
  BY <1>1 DEF order
<1>3. CASE isCommand(req[t])
  <2>1. phase[t] \in {"asked", "done", "refused"} /\ phase'[t] = "error"
    BY <1>1, <1>3 DEF phase
  <2>2. left' = left \/ (phase[t] = "asked" /\ left' = left (+) Promised!tasks({t}))
    <3>1. CASE late' = late
      BY <3>1 DEF left
    <3>2. CASE late' # late
      <4>1. waiting(t) /\ left' = left (+) tasksIn(callsOf({t}))
        BY <3>2, LeftBehind
      <4>2. CASE pc[t] = "granting"
        <5>1. ~changes(call[t])
          BY <4>2 DEF Typed, Placed, changes
        <5> QED BY <3>2, <4>1, <5>1, NothingLeft
      <4>3. CASE pc[t] # "granting"
        <5>1. pc[t] \in {"call", "pass"} /\ phase[t] = "asked"
          BY <1>3, <4>1, <4>3 DEF waiting, awaits, phase
        <5>2. call[t] \in Calls /\ changes(call[t]) /\ Promised!task(order[t]) = taskOf(call[t])
          BY <1>3, <5>1, CommandCall
        <5>3. tasksIn(callsOf({t})) = Promised!tasks({t})
          BY <5>2, TasksOfCalls
        <5> QED BY <4>1, <5>1, <5>3
      <4> QED BY <4>2, <4>3
    <3> QED BY <3>1, <3>2
  <2>3. phase' = [phase EXCEPT ![t] = phase'[t]] /\ order' = order
    <3>1. order = [u \in Threads |-> order[u]]
      BY DEF order
    <3> HIDE DEF phase, order
    <3> QED BY <1>1, <1>2, <3>1, OneMoves
  <2> HIDE DEF phase, order, left
  <2>4. Promised!Fail(t)
    BY <1>1, <2>1, <2>2, <2>3, SameSums DEF Promised!Fail
  <2> QED BY <2>4 DEF Promised!Next
<1>4. CASE ~isCommand(req[t])
  <2>1. phase'[t] = phase[t]
    BY <1>1, <1>4 DEF phase
  <2>2. left' = left
    <3>1. ~changes(call[t])
      BY <1>4 DEF CommandInv, changes
    <3>2. late' = late => left' = left
      BY DEF left
    <3> QED BY <3>1, <3>2, NothingLeft
  <2> QED BY <1>1, <1>2, <2>1, <2>2, Hidden
<1> QED BY <1>3, <1>4

\* The array's answer is the effect, if it has one.
LEMMA ExecPromised ==
  ASSUME Typed, CommandInv, NEW t \in Threads, ArrayExec(t) \/ ArrayRefuse(t)
  PROVE  Promised!Next \/ UNCHANGED Promised!vars
<1>1. /\ waiting(t) /\ pc[t] \in {"granting", "call", "pass"} /\ pc'[t] = awaits[pc[t]]
      /\ call' = call /\ req' = req /\ late' = late /\ status' = status
      /\ \A u \in Threads \ {t} : pc'[u] = pc[u] /\ answer'[u] = answer[u]
      /\ \/ Execute(call[t]) /\ answer'[t] = outcome(call[t])
         \/ conns' = conns /\ answer'[t] = "refused"
  BY DEF ArrayExec, ArrayRefuse, waiting, awaits, arrayVars, boundVars, Typed, TypeOK, ThreadTypeOK
<1>2. order'[t] = order[t] /\ left' = left
  BY <1>1 DEF order, left
<1>3. call[t].op \notin {"connect", "disconnect"} => conns' = conns
  BY <1>1 DEF Execute
<1>4. CASE ~isCommand(req[t])
  <2>1. phase'[t] = phase[t]
    BY <1>1, <1>4 DEF phase
  <2> QED BY <1>1, <1>2, <1>3, <1>4, <2>1, Hidden DEF CommandInv
<1>5. CASE pc[t] = "granting"
  <2>1. isCommand(req[t]) /\ call[t].op = "grant"
    BY <1>5 DEF CommandInv, Typed, Placed
  <2>2. phase'[t] = phase[t]
    BY <1>1, <1>5, <2>1 DEF phase, awaits
  <2> QED BY <1>1, <1>2, <1>3, <2>1, <2>2, Hidden
<1>6. CASE isCommand(req[t]) /\ pc[t] \in {"call", "pass"}
  <2>1. /\ pc'[t] \in {"answered", "passed"}
        /\ phase[t] = "asked"
        /\ phase'[t] = IF effective(t)' THEN "done" ELSE "refused"
    BY <1>1, <1>6 DEF phase, awaits
  <2>2. /\ call[t].op \in {"connect", "disconnect"} /\ order[t].op = call[t].op
        /\ order[t].place = call[t].host /\ order[t].vol = call[t].vol
        /\ req[t].method = "POST" <=> call[t].op = "connect"
    BY <1>6 DEF CommandInv, order, isCommand, opOf
  <2>3. /\ phase' = [phase EXCEPT ![t] = phase'[t]] /\ order' = order
    <3>1. order = [u \in Threads |-> order[u]]
      BY DEF order
    <3> HIDE DEF phase, order
    <3> QED BY <1>1, <1>2, <3>1, OneMoves
  <2>4. effective(t)' => Promised!TakesEffect(order[t])
    <3> SUFFICES ASSUME effective(t)' PROVE Promised!TakesEffect(order[t])
      OBVIOUS
    <3>1. /\ Execute(call[t]) /\ outcome(call[t]) \in {"ok", "exists"}
          /\ outcome(call[t]) = "exists" => call[t].op = "connect"
      BY <1>1, <2>2 DEF effective
    <3>2. CASE succeeds(call[t])
      BY <2>2, <3>1, <3>2 DEF Execute, succeeds, Promised!TakesEffect, Conn
    <3>3. CASE ~succeeds(call[t])
      <4>1. call[t].op = "connect" /\ Conn(call[t]) \in conns
        BY <3>1, <3>3 DEF outcome, succeeds
      <4>2. conns' = conns
        BY <3>1, <3>3 DEF Execute
      <4> QED BY <2>2, <4>1, <4>2 DEF Promised!TakesEffect, Conn
    <3> QED BY <3>2, <3>3
  <2>5. ~effective(t)' => conns' = conns
    <3>1. succeeds(call[t]) => outcome(call[t]) = "ok"
      BY DEF outcome
    <3> QED BY <1>1, <3>1 DEF effective, Execute
  <2> HIDE DEF phase, order, left
  <2>6. CASE effective(t)'
    <3>1. Promised!Do(t)
      BY <1>2, <2>1, <2>3, <2>4, <2>6 DEF Promised!Do
    <3> QED BY <3>1 DEF Promised!Next
  <2>7. CASE ~effective(t)'
    <3>1. Promised!Refuse(t)
      BY <1>2, <2>1, <2>3, <2>5, <2>7 DEF Promised!Refuse
    <3> QED BY <3>1 DEF Promised!Next
  <2> QED BY <2>6, <2>7
<1> QED BY <1>1, <1>4, <1>5, <1>6

\* A call the array gets to late is an order that was left behind.
LEMMA LatePromised ==
  ASSUME Typed, LateExec
  PROVE  Promised!Next \/ UNCHANGED Promised!vars
<1>1. PICK c \in BagToSet(late) : Execute(c) /\ late' = late (-) SetToBag({c})
  BY DEF LateExec
<1>2. phase' = phase /\ order' = order
  BY DEF LateExec, threadVars, phase, order, effective
<1>3. IsABag(late) /\ BagToSet(late) \subseteq Calls
  BY DEF Typed, TypeOK, BoundTypeOK
<1>4. left' = IF changes(c) THEN left (-) SetToBag({taskOf(c)}) ELSE left
  BY <1>1, <1>3, TasksMinusOne DEF left
<1>5. CASE ~changes(c)
  BY <1>1, <1>2, <1>4, <1>5 DEF Execute, changes, Promised!vars
<1>6. CASE changes(c)
  <2> DEFINE k == taskOf(c)
  <2>1. k \in BagToSet(left)
    BY <1>3, <1>6, InTasks DEF left
  <2>2. Promised!TakesEffect(k) \/ conns' = conns
    BY <1>1, <1>6 DEF changes, taskOf, Execute, succeeds, Conn, Promised!TakesEffect
  <2> HIDE DEF k, phase, order, left
  <2>3. Promised!Arrive(k)
    BY <1>2, <1>4, <1>6, <2>2, SameBags, SameSums DEF k, Promised!Arrive
  <2> QED BY <2>1, <2>3, SameBags DEF Promised!Next
<1> QED BY <1>5, <1>6

LEMMA RestartPromised ==
  ASSUME Typed, CommandInv, Restart
  PROVE  Promised!Next
<1>1. PICK lost \in SUBSET {t \in Threads : waiting(t)} : late' = late (+) callsOf(lost)
  BY DEF Restart
<1> DEFINE S == {t \in lost : isCommand(req[t]) /\ pc[t] # "granting"}
<1>2. conns' = conns
  BY DEF Restart, arrayVars
<1>3. phase' = [t \in Threads |-> "idle"] /\ order' = [t \in Threads |-> NoOrder]
  BY DEF Restart, phase, order, isCommand, NoRequest
<1>4. ASSUME NEW t \in lost
      PROVE  /\ call[t] \in Calls
             /\ IF t \in S
                THEN /\ phase[t] = "asked" /\ changes(call[t])
                     /\ Promised!task(order[t]) = taskOf(call[t])
                ELSE ~changes(call[t])
  <2>1. pc[t] \in {"granting", "call", "pass"}
    BY <1>4 DEF waiting, awaits
  <2>2. CASE t \in S
    <3>1. t \in Threads /\ isCommand(req[t]) /\ pc[t] \in {"call", "pass"}
      BY <1>4, <2>1, <2>2
    <3>2. phase[t] = "asked"
      BY <3>1 DEF phase
    <3> QED BY <2>2, <3>1, <3>2, CommandCall
  <2>3. CASE t \notin S
    BY <2>1, <2>3 DEF CommandInv, Typed, Placed, changes
  <2> QED BY <2>2, <2>3
<1>5. left' = left (+) Promised!tasks(S)
  <2>1. left' = left (+) tasksIn(callsOf(lost))
    BY <1>1, LeftBehind
  <2> HIDE DEF order, left, S
  <2>2. S \in SUBSET lost
    BY DEF S
  <2>3. tasksIn(callsOf(lost)) = Promised!tasks(S)
    BY <1>4, <2>2, TasksOfCalls
  <2> QED BY <2>1, <2>3
<1>6. S \in SUBSET Threads /\ \A t \in S : phase[t] = "asked"
  BY <1>4
<1> HIDE DEF phase, order, left, S
<1>7. Promised!Break(S)
  BY <1>2, <1>3, <1>5, <1>6, SameSums DEF Promised!Break
<1> QED BY <1>7, <1>6 DEF Promised!Next

\* Of what an operator does, only deleting a connection changes what is connected.
LEMMA OperatorPromised ==
  ASSUME Reprovision
  PROVE  Promised!Next \/ UNCHANGED Promised!vars
<1>1. phase' = phase /\ order' = order /\ left' = left
  BY DEF Reprovision, threadVars, phase, order, left, effective
<1>2. CASE conns' = conns
  BY <1>1, <1>2 DEF Promised!vars
<1>3. CASE conns' # conns
  <2>1. PICK k \in conns : conns' = conns \ {k}
    BY <1>3 DEF Reprovision, Provision, OperatorGrant, Deprovision, OperatorDisconnect
  <2>2. Promised!Remove(k)
    BY <1>1, <2>1 DEF Promised!Remove
  <2> QED BY <2>2 DEF Promised!Next
<1> QED BY <1>2, <1>3

LEMMA StepPromised == Typed /\ CommandInv /\ [Next]_vars => [Promised!Next]_(Promised!vars)
<1> SUFFICES ASSUME Typed, CommandInv, [Next]_vars PROVE Promised!Next \/ UNCHANGED Promised!vars
  OBVIOUS
<1>1. ThreadTypeOK /\ Placed
  BY DEF Typed, TypeOK
<1>2. ASSUME NEW t \in Threads, GrantCached(t) \/ GrantSend(t) \/ GrantStore(t)
      PROVE  UNCHANGED Promised!vars
  <2>1. PICK op, to : /\ setCall(t, op, to) /\ to \in {"granting", "call"}
                      /\ pc[t] \in {"grant", "granted"}
    BY <1>2 DEF GrantCached, GrantSend, GrantStore
  <2>2. /\ pc'[t] = to /\ req' = req /\ answer' = answer /\ status' = status
        /\ conns' = conns /\ late' = late /\ call'[t].host = call[t].host
        /\ \A u \in Threads \ {t} : pc'[u] = pc[u] /\ call'[u] = call[u]
    <3>1. call[t] \in Calls
      BY <1>1, <2>1 DEF Placed
    <3> QED BY <1>1, <2>1, <3>1 DEF setCall, arrayVars, boundVars, ThreadTypeOK, Calls
  <2>3. phase'[t] = phase[t] /\ order'[t] = order[t] /\ left' = left
    BY <2>1, <2>2 DEF phase, order, left
  <2> QED BY <2>2, <2>3, Hidden
<1>3. ASSUME NEW t \in Threads, BeginRewrite(t) \/ InjectItem(t) \/ MapBackItem(t)
      PROVE  UNCHANGED Promised!vars
  <2>1. /\ ~isCommand(req[t]) /\ req' = req /\ call' = call /\ answer' = answer /\ status' = status
        /\ conns' = conns /\ late' = late
        /\ \A u \in Threads \ {t} : pc'[u] = pc[u]
    BY <1>1, <1>3 DEF BeginRewrite, InjectItem, MapBackItem, RewriteItem, HostList, ConnList,
                      CommandInv, isCommand, arrayVars, boundVars, ThreadTypeOK
  <2>2. phase'[t] = phase[t] /\ order'[t] = order[t] /\ left' = left
    BY <2>1 DEF phase, order, left
  <2> QED BY <2>1, <2>2, Hidden
<1>4. ASSUME NEW t \in Threads, Deliver(t) PROVE Promised!Next \/ UNCHANGED Promised!vars
  <2>1. /\ pc[t] = "reply" /\ pc'[t] = "idle" /\ req'[t] = NoRequest
        /\ conns' = conns /\ late' = late
        /\ \A u \in Threads \ {t} : /\ pc'[u] = pc[u] /\ req'[u] = req[u] /\ call'[u] = call[u]
                                    /\ answer'[u] = answer[u] /\ status'[u] = status[u]
    BY <1>1, <1>4 DEF Deliver, arrayVars, boundVars, ThreadTypeOK
  <2>2. phase'[t] = "idle" /\ order'[t] = NoOrder /\ left' = left
    BY <2>1 DEF phase, order, left, isCommand, NoRequest
  <2>3. CASE isCommand(req[t])
    <3>1. phase[t] \in {"ok", "error"}
      BY <2>1, <2>3 DEF phase
    <3>2. /\ phase' = [phase EXCEPT ![t] = phase'[t]]
          /\ order' = [order EXCEPT ![t] = order'[t]]
      BY <2>1, OneMoves
    <3> HIDE DEF phase, order, left
    <3>3. Promised!Return(t)
      BY <2>1, <2>2, <3>1, <3>2 DEF Promised!Return
    <3> QED BY <3>3 DEF Promised!Next
  <2>4. CASE ~isCommand(req[t])
    <3>1. phase[t] = "idle" /\ order[t] = NoOrder
      BY <2>4 DEF phase, order
    <3> QED BY <2>1, <2>2, <3>1, Hidden
  <2> QED BY <2>3, <2>4
<1>5. ASSUME NEW t \in Threads, AnswerConnection(t)
      PROVE  Promised!Next \/ UNCHANGED Promised!vars
  <2>1. PICK b : Reply(t, statusOf(req[t].method, answer[t]), b)
    BY <1>5 DEF AnswerConnection
  <2>2. statusOf(req[t].method, answer[t]) = 200 <=> effective(t)
    BY <1>5 DEF AnswerConnection, statusOf, effective
  <2> QED BY <1>5, <2>1, <2>2, AnswerPromised DEF AnswerConnection
<1>6. ASSUME NEW t \in Threads, EmptyHosts(t) \/ ForwardAsIs(t) \/ EndRewrite(t)
      PROVE  Promised!Next \/ UNCHANGED Promised!vars
  <2>1. PICK s, b : /\ Reply(t, s, b) /\ late' = late
                    /\ pc[t] \in {"passed", "inject", "mapback"}
                    /\ isCommand(req[t]) => s = IF answer[t] = "ok" THEN 200 ELSE 400
    BY <1>6 DEF EmptyHosts, ForwardAsIs, EndRewrite, HostList, isCommand
  <2>2. isCommand(req[t]) => (s = 200 <=> effective(t))
    BY <2>1 DEF effective
  <2> QED BY <2>1, <2>2, AnswerPromised
<1>7. ASSUME NEW t \in Threads, GrantError(t) \/ CallLost(t)
      PROVE  Promised!Next \/ UNCHANGED Promised!vars
  <2>1. /\ Reply(t, 502, {})
        /\ pc[t] \in {"granting", "granted", "call", "answered", "pass", "passed"}
        /\ late' = late \/ (waiting(t) /\ late' = late (+) callsOf({t}))
    BY <1>7 DEF GrantError, CallLost, waiting, awaits
  <2> QED BY <2>1, FailPromised
<1>8. ASSUME NEW t \in Threads, Handle(t) \/ ArrayRefuse(t) \/ CallLost(t)
      PROVE  Promised!Next \/ UNCHANGED Promised!vars
  BY <1>2, <1>3, <1>4, <1>5, <1>6, <1>7, <1>8, ExecPromised DEF Handle
<1>9. CASE UNCHANGED vars
  BY <1>9 DEF vars, arrayVars, threadVars, boundVars, Promised!vars, phase, order, left, effective
<1> QED BY <1>8, <1>9, AskPromised, LatePromised, RestartPromised, OperatorPromised DEF Next

(***************************************************************************)
(* CommandsTakeEffectOnce: to px, connecting and disconnecting a volume is *)
(* atomic.  A request takes effect once, at a place its host name stands   *)
(* for, between its arrival and its success, or later if px got an error;  *)
(* for any host map, also an ambiguous one, and any number of requests,    *)
(* faults, restarts and acts of an operator.                               *)
(***************************************************************************)
THEOREM ConnectionsAreAtomic == Spec => CommandsTakeEffectOnce
<1>1. Init => CommandInv
  BY DEF Init, CommandInv, isCommand, NoRequest, NoCall
<1> QED BY InitTyped, StepTyped, StepCommandInv, InitPromised, StepPromised, <1>1, PTL
        DEF Spec, CommandsTakeEffectOnce, Promised!Spec
=============================================================================

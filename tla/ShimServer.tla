------------------------------ MODULE ShimServer -----------------------------
(***************************************************************************)
(* The shim's process (cmd/px-smt-multirealm-shim) and the way of a        *)
(* request through it (internal/proxy/proxy.go): intercepted and answered  *)
(* by the shim, or its query mapped to the array's identity, forwarded,    *)
(* and the array's identity in the response mapped to that of the FQDN px  *)
(* used.  The process drains on a signal and may die at any time.          *)
(*                                                                         *)
(* What the shim does with a request it intercepts is module Rewriter's    *)
(* subject.  Only requests and responses that name the array are told      *)
(* apart from others: such a response is the whole of what GET /arrays and *)
(* its like return, and a query carries the identity px refers to.         *)
(***************************************************************************)
EXTENDS ArrayIdentity

CONSTANTS
  RewriteIdentity,  \* cfg.RewriteEnabled && cfg.ArrayIdentity
  NoIdentity,       \* of a request without a query, of an FQDN px has not asked behind
  NoFQDN,           \* of a handler without a request
  MaxStops          \* bound: how often the process ends, by a signal or a crash

ASSUME ServerAssumption ==
  NoIdentity \notin Identities /\ NoFQDN \notin FQDNs /\ RewriteIdentity \in BOOLEAN /\ MaxStops \in Nat

VARIABLES
  phase,    \* the process: "serving", "draining" after a signal, or "down"
  stops,    \* how often it has been made to end
  pc,       \* per handler: where its request is
  fqdn,     \* per handler: the Host px addressed
  query,    \* per handler: the identity its query refers to
  shown,    \* px: the identity it was last shown behind each FQDN
  missed,   \* history: handlers whose last call for the identity failed
  exposed   \* history: FQDNs px was last answered behind by such a handler

serverVars == <<phase, stops, pc, fqdn, query>>
vars == <<identVars, serverVars, shown, missed, exposed>>

Locations == {"idle", "drain", "own", "query", "await", "body", "rewrite"}

TypeOK ==
  /\ IdentTypeOK
  /\ phase \in {"serving", "draining", "down"} /\ stops \in 0 .. MaxStops
  /\ pc \in [Handlers -> Locations]
  /\ fqdn \in [Handlers -> FQDNs \union {NoFQDN}]
  /\ query \in [Handlers -> Identities \union {NoIdentity}]
  /\ shown \in [FQDNs -> Identities \union {NoIdentity}]
  /\ missed \in SUBSET Handlers /\ exposed \in SUBSET FQDNs

Init ==
  /\ IdentInit
  /\ phase = "serving" /\ stops = 0
  /\ pc = [h \in Handlers |-> "idle"]
  /\ fqdn = [h \in Handlers |-> NoFQDN]
  /\ query = [h \in Handlers |-> NoIdentity]
  /\ shown = [f \in FQDNs |-> NoIdentity]
  /\ missed = {} /\ exposed = {}

-----------------------------------------------------------------------------
To(h, loc) == pc' = [pc EXCEPT ![h] = loc]

\* Seeded bug: host and query are confused.
Accept_bug(h, f, q) ==
  /\ phase = "serving" /\ pc[h] = "idle"
  /\ To(h, "drain")
  /\ fqdn' = [fqdn EXCEPT ![h] = f]
  /\ query' = [query EXCEPT ![h] = f]
  /\ UNCHANGED <<identVars, phase, stops, shown, missed, exposed>>

\* A request on FQDN f arrives, and its body is being read; q is what its query refers to.
Accept(h, f, q) ==
  /\ phase = "serving" /\ pc[h] = "idle"
  /\ To(h, "drain")
  /\ fqdn' = [fqdn EXCEPT ![h] = f]
  /\ query' = [query EXCEPT ![h] = q]
  /\ UNCHANGED <<identVars, phase, stops, shown, missed, exposed>>

\* drainBody returns, with the body, or with none if reading it failed: the request goes on
\* either way.  Nothing bounds how long px takes to send it.
Drain(h, loc) ==
  /\ pc[h] = "drain"
  /\ To(h, loc)
  /\ UNCHANGED <<mu, ready, phase, stops, fqdn, query, shown, missed, exposed>>

\* The request of h is over.
Finish(h) ==
  /\ To(h, "idle")
  /\ fqdn' = [fqdn EXCEPT ![h] = NoFQDN]
  /\ query' = [query EXCEPT ![h] = NoIdentity]
  /\ missed' = missed \ {h}
  /\ UNCHANGED <<mu, ready, phase, stops>>

\* The shim answers it itself.
Intercept(h) ==
  /\ query[h] = NoIdentity
  /\ Drain(h, "own")
  /\ UNCHANGED at

\* Seeded bug: the query is mapped only if the identity happens to be known.
MapQuery_bug(h) ==
  /\ RewriteIdentity /\ query[h] # NoIdentity
  /\ Drain(h, "query")
  /\ GoTo(h, "read")

\* RewriteRequest: a query is mapped before the request is forwarded.
MapQuery(h) ==
  /\ RewriteIdentity /\ query[h] # NoIdentity
  /\ Drain(h, "query")
  /\ GoTo(h, "ensure")

\* A request without a query, or any while identities are not rewritten, is forwarded.
Proxy(h) ==
  /\ query[h] = NoIdentity \/ ~RewriteIdentity
  /\ Drain(h, "await")
  /\ UNCHANGED at

\* The shim's own answer, or 502, is sent.
Answer(h) ==
  /\ pc[h] = "own"
  /\ Finish(h)
  /\ UNCHANGED <<at, shown, exposed>>

\* One step of synth on behalf of h, in either of its two uses.
Ensure(h) ==
  /\ EnsureCached(h) \/ EnsureLock(h)
  /\ UNCHANGED <<serverVars, shown, missed, exposed>>

Learns(h) == FetchOk(h) /\ UNCHANGED <<serverVars, shown, missed, exposed>>

Misses(h) ==
  /\ FetchFails(h)
  /\ missed' = missed \union {h}
  /\ UNCHANGED <<serverVars, shown, exposed>>

Read(h) == SynthRead(h) /\ UNCHANGED <<serverVars, shown, missed, exposed>>

Forward(h) ==
  /\ pc[h] = "query" /\ at[h] \in {"known", "unknown"}
  /\ query' = [query EXCEPT ![h] =
                 IF at[h] = "known" THEN rewriteRequestString(fqdn[h], @) ELSE @]
  /\ To(h, "await")
  /\ GoTo(h, "out")
  /\ UNCHANGED <<mu, ready, phase, stops, fqdn, shown, missed, exposed>>

\* The array answers.
Headers(h) ==
  /\ pc[h] = "await"
  /\ To(h, "body")
  /\ UNCHANGED <<identVars, phase, stops, fqdn, query, shown, missed, exposed>>

\* No answer within ResponseHeaderTimeout, or none at all: ErrorHandler answers 502.
UpstreamFails(h) ==
  /\ pc[h] = "await"
  /\ Finish(h)
  /\ UNCHANGED <<at, shown, exposed>>

\* The body has been read to its end; nothing bounds how long that takes.  It is passed on
\* as it is if identities are not rewritten.
BodyRead(h) ==
  /\ pc[h] = "body"
  /\ To(h, "rewrite")
  /\ GoTo(h, IF RewriteIdentity THEN "ensure" ELSE "unknown")
  /\ missed' = missed \ {h}
  /\ UNCHANGED <<mu, ready, phase, stops, fqdn, query, shown, exposed>>

\* The response breaks off: px gets an empty body.
BodyFails(h) ==
  /\ pc[h] = "body"
  /\ Finish(h)
  /\ UNCHANGED <<at, shown, exposed>>

\* px gets the response with array identity i.
Show(h, i) ==
  /\ shown' = [shown EXCEPT ![fqdn[h]] = i]
  /\ exposed' = IF h \in missed THEN exposed \union {fqdn[h]} ELSE exposed \ {fqdn[h]}
  /\ Finish(h)

Deliver(h) ==
  /\ pc[h] = "rewrite" /\ at[h] \in {"known", "unknown"}
  /\ Show(h, IF at[h] = "known" THEN rewriteResponseBody(fqdn[h], realIdentity)
             ELSE realIdentity)
  /\ GoTo(h, "out")

-----------------------------------------------------------------------------
\* SIGTERM: the listener closes, requests under way go on.  A second signal is not read.
Signal ==
  /\ phase = "serving" /\ stops < MaxStops
  /\ phase' = "draining" /\ stops' = stops + 1
  /\ UNCHANGED <<identVars, pc, fqdn, query, shown, missed, exposed>>

\* The process ends and with it every request and the cache.
Stop ==
  /\ phase' = "down"
  /\ pc' = [h \in Handlers |-> "idle"]
  /\ fqdn' = [h \in Handlers |-> NoFQDN]
  /\ query' = [h \in Handlers |-> NoIdentity]
  /\ at' = [h \in Handlers |-> "out"]
  /\ mu' = NoHandler /\ ready' = FALSE
  /\ missed' = {}
  /\ UNCHANGED <<shown, exposed>>

\* Shutdown returns when no request is under way.
Drained ==
  /\ phase = "draining" /\ \A h \in Handlers : pc[h] = "idle"
  /\ Stop /\ UNCHANGED stops

\* Shutdown gives up after its 20 seconds: main returns and cuts what is under way.
DrainTimeout ==
  /\ phase = "draining"
  /\ Stop /\ UNCHANGED stops

\* The process is killed.
Crash ==
  /\ phase \in {"serving", "draining"} /\ stops < MaxStops
  /\ Stop /\ stops' = stops + 1

\* Kubernetes starts the container again.
Boot ==
  /\ phase = "down"
  /\ phase' = "serving"
  /\ UNCHANGED <<identVars, stops, pc, fqdn, query, shown, missed, exposed>>

Handle(h) ==
  \/ \E f \in FQDNs : \E q \in {NoIdentity, shown[f]} : Accept(h, f, q)
  \/ Intercept(h) \/ MapQuery(h) \/ Proxy(h)
  \/ Answer(h) \/ Ensure(h) \/ Learns(h) \/ Misses(h) \/ Read(h) \/ Forward(h)
  \/ Headers(h) \/ UpstreamFails(h) \/ BodyRead(h) \/ BodyFails(h) \/ Deliver(h)

Process == Signal \/ Drained \/ DrainTimeout \/ Crash \/ Boot

Next == (\E h \in Handlers : Handle(h)) \/ Process

Spec == Init /\ [][Next]_vars

\* Calls to the array and its answers' headers are bounded by timeouts, the mutex is handed
\* to the longest waiter (sync.Mutex's starvation mode); reading a body, px's
\* (proxy.go:69) or the array's, may take for ever.
FairSpec ==
  /\ Spec
  /\ \A h \in Handlers :
       /\ SF_vars(Ensure(h)) /\ WF_vars(Learns(h) \/ Misses(h)) /\ SF_vars(Read(h))
       /\ WF_vars(Answer(h)) /\ WF_vars(Forward(h)) /\ WF_vars(Deliver(h))
       /\ WF_vars(Headers(h) \/ UpstreamFails(h))
-----------------------------------------------------------------------------
Rewriting == RewriteIdentity /\ HasArrayToken

(***************************************************************************)
(* What arrayident.go:12-17 promises: px is never shown the same array  *)
(* behind two FQDNs, or it would take the two realms for one backend,      *)
(* unless a call for the identity failed under its last answer on each.     *)
(* Names may coincide as well when the labels do.                          *)
(***************************************************************************)
DistinctArrays ==
  Rewriting => \A f, g \in FQDNs :
    f # g /\ NoIdentity \notin {shown[f], shown[g]} /\ ~({f, g} \subseteq exposed) =>
      /\ shown[f].id # shown[g].id
      /\ shown[f].name = shown[g].name => label[f] = label[g]

(***************************************************************************)
(* A query reaches the array with the array's own identity, whichever      *)
(* process or handler showed px the synthetic one, unless this request's   *)
(* call for the identity failed: the array knows none but its own          *)
(* (rewrite.go:84-95).                                                     *)
(***************************************************************************)
MappedBack ==
  Rewriting => \A h \in Handlers :
    pc[h] = "await" /\ query[h] # NoIdentity /\ h \notin missed => query[h] = realIdentity

(***************************************************************************)
(* Every request is answered, unless it hangs where nothing bounds it, in  *)
(* px's own body or in the response's: an array that does not answer       *)
(* delays the requests queued on the identity mutex but does not block     *)
(* them.                                                                   *)
(***************************************************************************)
AnsweredOrHung == \A h \in Handlers : pc[h] # "idle" ~> pc[h] \in {"idle", "drain", "body"}
=============================================================================

----------------------------- MODULE ArrayIdentity ---------------------------
(***************************************************************************)
(* arrayIdentity (internal/proxy/arrayident.go): every FQDN px addresses   *)
(* is to look like an array of its own.  Requests being handled share one  *)
(* cache of the array's identity, filled by the first of them to need it   *)
(* while the others wait for the mutex; a restart empties it.              *)
(*                                                                         *)
(* An identity is a name and an id.  A name is the array's, with the label *)
(* of an FQDN appended or not.  The synthetic id of an FQDN is the array's *)
(* prefix and a hash of the FQDN, taken to be free of collisions, and so   *)
(* is the FQDN itself here.  The array is never renamed.                   *)
(***************************************************************************)
EXTENDS Naturals

CONSTANTS
  Handlers,   \* requests handled at a time
  FQDNs,      \* hosts px addresses the shim as
  Labels,     \* their parts before the first dot
  label,      \* FQDN -> label
  RealId,     \* the array's id
  NoLabel,    \* what is appended to the array's own name
  NoHandler,  \* the mutex is free
  HasArrayToken  \* cfg.ArrayToken # "", so rw.arr # nil

ASSUME IdentityAssumption ==
  /\ label \in [FQDNs -> Labels]
  /\ RealId \notin FQDNs /\ NoLabel \notin Labels /\ NoHandler \notin Handlers
  /\ HasArrayToken \in BOOLEAN

VARIABLES
  mu,     \* a.mu: the handler holding it during its array call, or NoHandler
  ready,  \* a.ready: a.name and a.id are the array's
  at      \* per handler, where it is in synth: "known" and "unknown" are its results

identVars == <<mu, ready, at>>
InSynth == {"ensure", "fetch", "read"}

Identities == [name : Labels \union {NoLabel}, id : FQDNs \union {RealId}]

realIdentity == [name |-> NoLabel, id |-> RealId]

\* The identity of the array as px is to see it behind FQDN f.
synthetic(f) == [name |-> label[f], id |-> f]

\* Name and id of one identity are replaced by those of another, each where it occurs.
replaceAll(i, from, to) ==
  [name |-> IF i.name = from.name THEN to.name ELSE i.name,
   id |-> IF i.id = from.id THEN to.id ELSE i.id]

\* rewriteResponseBody and rewriteRequestString, once the identity is known.
rewriteResponseBody(f, i) == replaceAll(i, realIdentity, synthetic(f))
rewriteRequestString(f, i) == replaceAll(i, synthetic(f), realIdentity)

IdentTypeOK ==
  /\ mu \in Handlers \union {NoHandler}
  /\ ready \in BOOLEAN
  /\ at \in [Handlers -> InSynth \union {"out", "known", "unknown"}]

IdentInit ==
  /\ mu = NoHandler /\ ready = FALSE
  /\ at = [h \in Handlers |-> "out"]

-----------------------------------------------------------------------------
GoTo(h, loc) == at' = [at EXCEPT ![h] = loc]

\* Seeded bug: the lock is only tried.
EnsureCached_bug(h) ==
  /\ at[h] = "ensure"
  /\ ready \/ ~HasArrayToken \/ mu # NoHandler
  /\ GoTo(h, "read")
  /\ UNCHANGED <<mu, ready>>

\* ensure has nothing to do.
EnsureCached(h) ==
  /\ at[h] = "ensure" /\ mu = NoHandler
  /\ ready \/ ~HasArrayToken
  /\ GoTo(h, "read")
  /\ UNCHANGED <<mu, ready>>

\* ensure asks the array, holding the mutex meanwhile.
EnsureLock(h) ==
  /\ at[h] = "ensure" /\ mu = NoHandler
  /\ ~ready /\ HasArrayToken
  /\ mu' = h
  /\ GoTo(h, "fetch")
  /\ UNCHANGED ready

FetchOk(h) ==
  /\ at[h] = "fetch"
  /\ ready' = TRUE
  /\ mu' = NoHandler
  /\ GoTo(h, "read")

\* Seeded bug: ensure is repeated until the array answers.
FetchFails_bug(h) ==
  /\ at[h] = "fetch"
  /\ mu' = NoHandler
  /\ GoTo(h, "ensure")
  /\ UNCHANGED ready

\* The call fails, is refused, or answers with no array: the identity stays unknown.
FetchFails(h) ==
  /\ at[h] = "fetch"
  /\ mu' = NoHandler
  /\ GoTo(h, "read")
  /\ UNCHANGED ready

\* synth looks at ready under the mutex once more: another handler may have filled the cache.
SynthRead(h) ==
  /\ at[h] = "read" /\ mu = NoHandler
  /\ GoTo(h, IF ready THEN "known" ELSE "unknown")
  /\ UNCHANGED <<mu, ready>>
=============================================================================

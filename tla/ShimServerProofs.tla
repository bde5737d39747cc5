--------------------------- MODULE ShimServerProofs --------------------------
(***************************************************************************)
(* TypeOK, MappedBack and DistinctArrays of ShimServer, for any handlers,  *)
(* FQDNs and labels, any number of stops and every configuration.          *)
(*                                                                         *)
(* A handler out of synth knows the identity, or its own call failed       *)
(* (Sound): it never passes ensure while another handler's call is under   *)
(* way.  So what it forwards and what px is shown is one of two identities *)
(* (Mapped), and the real one is shown only after a failed call.           *)
(***************************************************************************)
EXTENDS ShimServer, TLAPS

\* What handler h knows, where it is.
SoundAt(h) ==
  /\ pc[h] # "idle" => fqdn[h] \in FQDNs
  /\ pc[h] \notin {"query", "rewrite"} => at[h] = "out"
  /\ Rewriting /\ at[h] = "read" /\ h \notin missed => ready
  /\ Rewriting /\ at[h] = "unknown" => h \in missed

Sound == \A h \in Handlers : SoundAt(h)

MappedQuery(h) ==
  /\ query[h] \in {NoIdentity, realIdentity, synthetic(fqdn[h])}
  /\ pc[h] = "query" => query[h] # NoIdentity
  /\ Rewriting /\ pc[h] = "await" /\ h \notin missed => query[h] \in {NoIdentity, realIdentity}

MappedShown(f) ==
  /\ shown[f] \in {NoIdentity, realIdentity, synthetic(f)}
  /\ Rewriting /\ shown[f] = realIdentity => f \in exposed

Mapped == /\ \A h \in Handlers : MappedQuery(h)
          /\ \A f \in FQDNs : MappedShown(f)

Inv == TypeOK /\ Sound /\ Mapped

-----------------------------------------------------------------------------
\* Identities are what synthetic and realIdentity build, and are told apart.
LEMMA Identity ==
  /\ realIdentity \in Identities
  /\ \A f \in FQDNs : synthetic(f) \in Identities
  /\ \A f \in FQDNs : rewriteResponseBody(f, realIdentity) = synthetic(f)
  /\ \A f \in FQDNs : rewriteRequestString(f, realIdentity) = realIdentity
  /\ \A f \in FQDNs : rewriteRequestString(f, synthetic(f)) = realIdentity
  /\ \A f \in FQDNs : synthetic(f).id = f /\ synthetic(f).name = label[f]
  /\ realIdentity.id = RealId /\ realIdentity.name = NoLabel
  /\ \A f \in FQDNs : label[f] \in Labels /\ label[f] # NoLabel /\ f # RealId
  <1>1. \A f \in FQDNs : label[f] \in Labels /\ label[f] # NoLabel /\ f # RealId
    BY IdentityAssumption
  <1>2. realIdentity \in Identities /\ \A f \in FQDNs : synthetic(f) \in Identities
    BY <1>1 DEF Identities, realIdentity, synthetic
  <1>3. \A f \in FQDNs : rewriteResponseBody(f, realIdentity) = synthetic(f)
    BY DEF rewriteResponseBody, replaceAll, realIdentity, synthetic
  <1>4. \A f \in FQDNs : rewriteRequestString(f, realIdentity) = realIdentity
    BY <1>1 DEF rewriteRequestString, replaceAll, realIdentity, synthetic
  <1>5. \A f \in FQDNs : rewriteRequestString(f, synthetic(f)) = realIdentity
    BY DEF rewriteRequestString, replaceAll, realIdentity, synthetic
  <1>6. /\ \A f \in FQDNs : synthetic(f).id = f /\ synthetic(f).name = label[f]
        /\ realIdentity.id = RealId /\ realIdentity.name = NoLabel
    BY DEF realIdentity, synthetic
  <1>. QED  BY <1>1, <1>2, <1>3, <1>4, <1>5, <1>6

LEMMA InitInv == Init => Inv
  <1>. SUFFICES ASSUME Init PROVE Inv
    OBVIOUS
  <1>1. TypeOK
    <2>1. IdentTypeOK
      BY DEF Init, IdentInit, IdentTypeOK
    <2>2. stops \in 0 .. MaxStops
      BY ServerAssumption DEF Init
    <2>. QED  BY <2>1, <2>2 DEF Init, TypeOK, Locations
  <1>2. Sound
    BY DEF Init, IdentInit, Sound, SoundAt
  <1>3. NoIdentity # realIdentity
    BY Identity, ServerAssumption
  <1>4. Mapped
    BY <1>3 DEF Init, Mapped, MappedQuery, MappedShown
  <1>. QED  BY <1>1, <1>2, <1>4 DEF Inv

-----------------------------------------------------------------------------
\* A handler's request arrives.
LEMMA AcceptInv ==
  ASSUME Inv, NEW h \in Handlers, NEW f \in FQDNs, NEW q \in {NoIdentity, shown[f]},
         Accept(h, f, q)
  PROVE  Inv'
  <1>. USE DEF Accept, To, identVars
  <1>q. q \in Identities \union {NoIdentity}
    BY DEF Inv, TypeOK
  <1>1. TypeOK'
    BY <1>q DEF Inv, TypeOK, IdentTypeOK, Locations, InSynth
  <1>2. Sound'
    BY DEF Inv, TypeOK, IdentTypeOK, Sound, SoundAt, Rewriting
  <1>3. Mapped'
    <2>1. \A g \in FQDNs : MappedShown(g)'
      BY DEF Inv, Mapped, MappedShown, synthetic
    <2>2. query'[h] \in {NoIdentity, realIdentity, synthetic(fqdn'[h])}
      BY DEF Inv, TypeOK, Mapped, MappedShown
    <2>3. MappedQuery(h)'
      BY <2>2 DEF Inv, TypeOK, MappedQuery, synthetic, Rewriting
    <2>4. \A k \in Handlers \ {h} : MappedQuery(k)'
      BY DEF Inv, TypeOK, Mapped, MappedQuery, synthetic, Rewriting
    <2>. QED  BY <2>1, <2>3, <2>4 DEF Mapped
  <1>. QED  BY <1>1, <1>2, <1>3 DEF Inv

\* Its body has been read, and the request is answered by the shim, mapped or forwarded.
LEMMA DrainInv ==
  ASSUME Inv, NEW h \in Handlers, Intercept(h) \/ MapQuery(h) \/ Proxy(h)
  PROVE  Inv'
  <1>. USE DEF Intercept, MapQuery, Proxy, Drain, To, GoTo
  <1>1. TypeOK'
    BY DEF Inv, TypeOK, IdentTypeOK, Locations, InSynth
  <1>2. Sound'
    BY DEF Inv, TypeOK, IdentTypeOK, Sound, SoundAt, Rewriting
  <1>3. Mapped'
    <2>1. \A k \in Handlers : MappedQuery(k)'
      BY DEF Inv, TypeOK, Mapped, MappedQuery, synthetic, Rewriting
    <2>2. \A f \in FQDNs : MappedShown(f)'
      BY DEF Inv, Mapped, MappedShown, synthetic
    <2>. QED  BY <2>1, <2>2 DEF Mapped
  <1>. QED  BY <1>1, <1>2, <1>3 DEF Inv

\* A step of synth.
LEMMA SynthInv ==
  ASSUME Inv, NEW h \in Handlers, Ensure(h) \/ Learns(h) \/ Misses(h) \/ Read(h)
  PROVE  Inv'
  <1>. USE DEF Ensure, Learns, Misses, Read, EnsureCached, EnsureLock, FetchOk, FetchFails,
               SynthRead, GoTo, serverVars
  <1>1. TypeOK'
    BY DEF Inv, TypeOK, IdentTypeOK, InSynth
  <1>2. Sound'
    BY DEF Inv, TypeOK, IdentTypeOK, Sound, SoundAt, Rewriting
  <1>3. Mapped'
    BY DEF Inv, TypeOK, Mapped, MappedQuery, MappedShown, synthetic
  <1>. QED  BY <1>1, <1>2, <1>3 DEF Inv

LEMMA ForwardInv ==
  ASSUME Inv, NEW h \in Handlers, Forward(h)
  PROVE  Inv'
  <1>. USE DEF Forward, To, GoTo
  <1>f. fqdn[h] \in FQDNs
    BY DEF Inv, Sound, SoundAt
  <1>r. query[h] \in {realIdentity, synthetic(fqdn[h])}
    BY DEF Inv, Mapped, MappedQuery
  <1>q. query'[h] = IF at[h] = "known" THEN realIdentity ELSE query[h]
    BY <1>f, <1>r, Identity DEF Inv, TypeOK
  <1>1. TypeOK'
    BY <1>q, Identity DEF Inv, TypeOK, IdentTypeOK, Locations
  <1>2. Sound'
    BY DEF Inv, TypeOK, IdentTypeOK, Sound, SoundAt, Rewriting
  <1>3. Mapped'
    <2>1. Rewriting /\ h \notin missed => at[h] = "known"
      BY DEF Inv, Sound, SoundAt
    <2>2. MappedQuery(h)'
      BY <1>q, <1>r, <2>1 DEF Inv, TypeOK, MappedQuery, synthetic, Rewriting
    <2>3. \A k \in Handlers \ {h} : MappedQuery(k)'
      BY DEF Inv, TypeOK, Mapped, MappedQuery, synthetic
    <2>4. \A f \in FQDNs : MappedShown(f)'
      BY DEF Inv, Mapped, MappedShown, synthetic
    <2>. QED  BY <2>2, <2>3, <2>4 DEF Mapped
  <1>. QED  BY <1>1, <1>2, <1>3 DEF Inv

\* The request waits for the array, and is over without an answer px takes an identity from.
LEMMA UpstreamInv ==
  ASSUME Inv, NEW h \in Handlers,
         Answer(h) \/ Headers(h) \/ UpstreamFails(h) \/ BodyRead(h) \/ BodyFails(h)
  PROVE  Inv'
  <1>. USE DEF Answer, Headers, UpstreamFails, BodyRead, BodyFails, Finish, To, GoTo, identVars
  <1>1. TypeOK'
    BY DEF Inv, TypeOK, IdentTypeOK, Locations, InSynth
  <1>2. Sound'
    BY DEF Inv, TypeOK, IdentTypeOK, Sound, SoundAt, Rewriting
  <1>3. Mapped'
    <2>1. \A k \in Handlers : MappedQuery(k)'
      BY DEF Inv, TypeOK, Mapped, MappedQuery, synthetic, Rewriting
    <2>2. \A f \in FQDNs : MappedShown(f)'
      BY DEF Inv, Mapped, MappedShown, synthetic
    <2>. QED  BY <2>1, <2>2 DEF Mapped
  <1>. QED  BY <1>1, <1>2, <1>3 DEF Inv

LEMMA DeliverInv ==
  ASSUME Inv, NEW h \in Handlers, Deliver(h)
  PROVE  Inv'
  <1>. USE DEF Deliver, Show, Finish, To, GoTo
  <1>f. PICK f \in FQDNs : f = fqdn[h]
    BY DEF Inv, Sound, SoundAt
  <1>i. shown'[f] = IF at[h] = "known" THEN synthetic(f) ELSE realIdentity
    BY <1>f, Identity DEF Inv, TypeOK
  <1>1. TypeOK'
    <2>1. shown' \in [FQDNs -> Identities \union {NoIdentity}]
      BY <1>f, Identity DEF Inv, TypeOK
    <2>. QED  BY <1>f, <2>1 DEF Inv, TypeOK, IdentTypeOK, Locations, InSynth
  <1>2. Sound'
    BY DEF Inv, TypeOK, IdentTypeOK, Sound, SoundAt, Rewriting
  <1>3. Mapped'
    <2>1. \A k \in Handlers : MappedQuery(k)'
      BY DEF Inv, TypeOK, Mapped, MappedQuery, synthetic, Rewriting
    <2>2. MappedShown(f)'
      <3>1. shown'[f] \in {NoIdentity, realIdentity, synthetic(f)}
        BY <1>f, <1>i
      <3>2. Rewriting /\ shown'[f] = realIdentity => h \in missed
        BY <1>f, <1>i, Identity DEF Inv, Sound, SoundAt
      <3>3. h \in missed => f \in exposed'
        BY <1>f
      <3>. QED  BY <3>1, <3>2, <3>3 DEF MappedShown, synthetic, Rewriting, realIdentity
    <2>3. \A g \in FQDNs \ {f} : MappedShown(g)'
      BY <1>f DEF Inv, TypeOK, Mapped, MappedShown, synthetic
    <2>. QED  BY <2>1, <2>2, <2>3 DEF Mapped
  <1>. QED  BY <1>1, <1>2, <1>3 DEF Inv

\* Signals, crashes and restarts.
LEMMA ProcessInv ==
  ASSUME Inv, Process
  PROVE  Inv'
  <1>. USE ServerAssumption DEF Process, Signal, Drained, DrainTimeout, Crash, Boot, Stop, identVars
  <1>1. TypeOK'
    <2>1. CASE Signal \/ Boot
      BY <2>1 DEF Inv, TypeOK, IdentTypeOK
    <2>2. CASE Drained \/ DrainTimeout \/ Crash
      <3>1. IdentTypeOK'
        BY <2>2 DEF IdentTypeOK
      <3>2. stops' \in 0 .. MaxStops
        BY <2>2 DEF Inv, TypeOK
      <3>. QED  BY <2>2, <3>1, <3>2 DEF Inv, TypeOK, Locations
    <2>. QED  BY <2>1, <2>2
  <1>2. Sound'
    BY DEF Inv, TypeOK, IdentTypeOK, Sound, SoundAt, Rewriting
  <1>3. Mapped'
    BY DEF Inv, TypeOK, Mapped, MappedQuery, MappedShown, synthetic, Rewriting
  <1>. QED  BY <1>1, <1>2, <1>3 DEF Inv

LEMMA StepInv == Inv /\ [Next]_vars => Inv'
  <1>. SUFFICES ASSUME Inv, [Next]_vars PROVE Inv'
    OBVIOUS
  <1>1. ASSUME NEW h \in Handlers, Handle(h) PROVE Inv'
    BY <1>1, AcceptInv, DrainInv, SynthInv, ForwardInv, UpstreamInv, DeliverInv DEF Handle
  <1>2. CASE Process
    BY <1>2, ProcessInv
  <1>3. CASE UNCHANGED vars
    BY <1>3 DEF vars, identVars, serverVars, Inv, TypeOK, IdentTypeOK, Sound, SoundAt, Mapped,
                MappedQuery, MappedShown, synthetic, Rewriting
  <1>. QED  BY <1>1, <1>2, <1>3 DEF Next

\* Every variable keeps its type, whatever the handlers and the process do.
THEOREM Typed == Spec => []TypeOK
  <1>1. Inv => TypeOK
    BY DEF Inv
  <1>. QED  BY InitInv, StepInv, <1>1, PTL DEF Spec

(***************************************************************************)
(* A query is forwarded with the array's identity unless this request's    *)
(* own call for it failed: RewriteRequest waits for a call under way.      *)
(***************************************************************************)
THEOREM QueriesMapped == Spec => []MappedBack
  <1>1. Inv => MappedBack
    BY DEF Inv, Mapped, MappedQuery, MappedBack
  <1>. QED  BY InitInv, StepInv, <1>1, PTL DEF Spec

\* px is shown an array of its own behind every FQDN, unless calls failed behind two of them.
THEOREM ArraysDistinct == Spec => []DistinctArrays
  <1>1. ASSUME Inv, Rewriting, NEW f \in FQDNs, NEW g \in FQDNs, f # g,
               NoIdentity \notin {shown[f], shown[g]}, ~({f, g} \subseteq exposed)
        PROVE  /\ shown[f].id # shown[g].id
               /\ shown[f].name = shown[g].name => label[f] = label[g]
    <2>1. /\ shown[f] \in {realIdentity, synthetic(f)}
          /\ shown[g] \in {realIdentity, synthetic(g)}
      BY <1>1 DEF Inv, Mapped, MappedShown
    <2>2. shown[f] = synthetic(f) \/ shown[g] = synthetic(g)
      BY <1>1, <2>1 DEF Inv, Mapped, MappedShown
    <2>. QED  BY <1>1, <2>1, <2>2, Identity
  <1>2. Inv => DistinctArrays
    BY <1>1 DEF DistinctArrays
  <1>. QED  BY InitInv, StepInv, <1>2, PTL DEF Spec
=============================================================================

----------------------- MODULE FadaCleanerSafetyProofs ------------------------
(***************************************************************************)
(* What the cleaner leaves alone, for any node and any interleaving, as    *)
(* long as none of its commands fails (with failing commands a healthy map *)
(* can be lost, which a run shows).                                        *)
(*                                                                         *)
(* HealthyUntouched and GraceKept are about single steps.  They need       *)
(* SafeInv: what this scan listed is still what the node has, apart from   *)
(* what the node added (ListInv); what was not yet probed covers every     *)
(* path that has stayed healthy (ProbeInv); and a map that must be kept    *)
(* has no streak once it was looked at, nor one that was fine in the scan  *)
(* before until it is looked at (GraceInv).                                *)
(***************************************************************************)
EXTENDS FadaCleanerProofs

looking == pc \in {"open", "probe", "state", "stale"}

between == pc \in {"wait", "settle", "list"}

\* No device is in two maps.
Apart == \A w, v \in Volumes : w # v => paths[w] \intersect paths[v] = {}

\* The history tells what is the case.
Witnessed ==
  /\ stillOpen \subseteq opened
  /\ \A d \in stillHealthy : \E w \in Volumes : healthyPath(w, d)
  /\ \A w \in stillOwn : ownPaths(w)

\* The listing of map m is good: the node may have added paths, none of which is in the history.
Current(m) ==
  /\ m.wwid \in listed
  /\ m.paths \subseteq paths[m.wwid]
  /\ paths[m.wwid] \intersect stillHealthy \subseteq m.paths

ListInv ==
  /\ \A m \in todo : Current(m)
  /\ \A m, n \in todo : m.wwid = n.wwid => m = n
  /\ looking \/ pc = "flush" => Current(cur)
  /\ looking \/ pc \in {"flush", "delete"} => \A m \in todo : m.wwid # cur.wwid
  /\ between => todo = {} /\ listed = {}

ProbeInv ==
  /\ pc \in {"probe", "state"} =>
       /\ left \union dev \subseteq cur.paths
       /\ cur.wwid \notin stillOpen
       /\ anyHealthy \/ paths[cur.wwid] \intersect stillHealthy \subseteq left \union dev
  /\ pc # "state" => dev = {}
  /\ \A d, e \in dev : d = e
  /\ pc \in {"stale", "flush", "delete"} => ~mustKeep(cur.wwid)
  /\ pc = "delete" =>
       \A d \in left : serves[d] # NoDevice /\ \A w \in Volumes : d \in paths[w] => w = cur.wwid

\* This scan has still to decide about map w.
pending(w) == (\E m \in todo : m.wwid = w) \/ (looking /\ cur.wwid = w)

GraceInv ==
  /\ \A w \in okBefore : between \/ pending(w) => orphanStreak[w] = 0
  /\ \A w \in listed : ~pending(w) /\ mustKeep(w) => orphanStreak[w] = 0

SafeInv == Typed /\ Apart /\ Witnessed /\ ListInv /\ ProbeInv

-----------------------------------------------------------------------------
\* What every step but the removal of a map or of a device does to the node.
Calm ==
  /\ \A w \in Volumes : paths[w] \subseteq paths'[w]
  /\ \A w \in Volumes : \A d \in paths'[w] : d \in paths[w] \/ serves[d] = NoDevice
  /\ \A d \in Devices : serves[d] # NoDevice => serves'[d] # NoDevice
  /\ Apart'

\* The node only adds devices that were not there.
LEMMA NodeCalm ==
  ASSUME Typed, Apart, NodeStep
  PROVE  Calm
<1>0. NodeTypeOK
  BY DEF Typed, TypeOK
<1>1. ASSUME NEW w \in Volumes, NEW d \in Devices, Discover(w, d) PROVE Calm
  <2>1. /\ paths'[w] = paths[w] \union {d}
        /\ \A v \in Volumes : v # w => paths'[v] = paths[v]
    BY <1>0, <1>1 DEF NodeTypeOK, Discover
  <2>2. serves[d] = NoDevice /\ \A v \in Volumes : d \notin paths[v]
    BY <1>0, <1>1 DEF NodeTypeOK, Discover
  <2>3. \A e \in Devices : serves[e] # NoDevice => serves'[e] # NoDevice
    BY <1>0, <1>1 DEF NodeTypeOK, Discover
  <2>4. Apart'
    <3>1. SUFFICES ASSUME NEW v \in Volumes, NEW u \in Volumes, v # u
                   PROVE  paths'[v] \intersect paths'[u] = {}
      BY DEF Apart
    <3>2. CASE v # w /\ u # w
      BY <2>1, <3>1, <3>2 DEF Apart
    <3>3. CASE v = w
      BY <2>1, <2>2, <3>1, <3>3 DEF Apart
    <3>4. CASE u = w
      BY <2>1, <2>2, <3>1, <3>4 DEF Apart
    <3> QED BY <3>2, <3>3, <3>4
  <2> QED BY <2>1, <2>2, <2>3, <2>4 DEF Calm
<1>2. ASSUME UNCHANGED paths, \A d \in Devices : serves[d] # NoDevice => serves'[d] # NoDevice
      PROVE  Calm
  BY <1>2 DEF Calm, Apart
<1>3. ASSUME NEW w \in Volumes, Attach(w) PROVE Calm
  <2>1. \A d \in Devices : serves'[d] = serves[d] \/ serves'[d] = w
    BY <1>0, <1>3 DEF Attach, NodeTypeOK
  <2>2. UNCHANGED paths
    BY <1>3 DEF Attach
  <2> QED BY <1>2, <2>1, <2>2, NodeAssumption
<1>4. ASSUME NEW w \in Volumes, Detach(w) PROVE Calm
  BY <1>0, <1>2, <1>4, NodeAssumption DEF Detach, NodeTypeOK
<1>5. ASSUME NEW w \in Volumes, Mount(w) \/ Unmount(w) PROVE Calm
  BY <1>2, <1>5 DEF Mount, Unmount
<1>6. ASSUME NEW d \in Devices, PathDown(d) \/ PathUp(d) PROVE Calm
  BY <1>2, <1>6 DEF PathDown, PathUp
<1> QED BY <1>1, <1>3, <1>4, <1>5, <1>6 DEF NodeStep

LEMMA StillCalm == Apart /\ UNCHANGED <<paths, serves>> => Calm
BY DEF Calm, Apart

\* The history follows what is the case.
LEMMA WitnessHolds == ASSUME Witness PROVE Witnessed'
BY DEF Witness, Witnessed

\* In a calm step nothing enters the history, and no map becomes one to be kept.
LEMMA CalmKeeps ==
  ASSUME Typed, Witnessed, Calm, Witness, NEW w \in Volumes
  PROVE  /\ paths'[w] \intersect stillHealthy' \subseteq paths[w] \intersect stillHealthy
         /\ mustKeep(w)' => mustKeep(w)
         /\ stillOpen' \subseteq stillOpen
<1>1. stillOpen' \subseteq stillOpen /\ stillHealthy' \subseteq stillHealthy /\ stillOwn' \subseteq stillOwn
  BY DEF Witness
<1>2. \A d \in stillHealthy : serves[d] # NoDevice
  BY NodeAssumption DEF Witnessed, healthyPath
<1>3. paths'[w] \intersect stillHealthy' \subseteq paths[w] \intersect stillHealthy
  BY <1>1, <1>2 DEF Calm
<1> QED BY <1>1, <1>3 DEF mustKeep

\* What was listed stays current in a calm step.
LEMMA CalmCurrent ==
  ASSUME Typed, Witnessed, Calm, Witness, listed' = listed, NEW m \in MapType, Current(m)
  PROVE  Current(m)'
<1>1. m.wwid \in Volumes
  BY DEF MapType
<1>2. paths[m.wwid] \subseteq paths'[m.wwid]
  BY <1>1 DEF Calm
<1> QED BY <1>1, <1>2, CalmKeeps DEF Current

LEMMA InitSafe == Init => SafeInv /\ GraceInv
<1> SUFFICES ASSUME Init PROVE SafeInv /\ GraceInv
  OBVIOUS
<1>1. Apart
  BY DEF Init, NodeInit, Apart
<1>2. Witnessed /\ ListInv /\ ProbeInv
  BY DEF Init, Witnessed, ListInv, ProbeInv, looking, between
<1>3. GraceInv
  BY DEF Init, GraceInv
<1> QED BY <1>1, <1>2, <1>3, InitTyped DEF SafeInv

\* What the listing told stays good for the maps a calm step leaves to be looked at.
LEMMA CalmList ==
  ASSUME SafeInv, Calm, Witness, listed' = listed
  PROVE  /\ \A m \in todo : Current(m)'
         /\ cur \in MapType /\ Current(cur) /\ cur' = cur => Current(cur)'
<1> USE DEF SafeInv
<1>1. todo \subseteq MapType
  BY DEF Typed, TypeOK, MapType
<1>2. \A m \in todo : Current(m)'
  BY <1>1, CalmCurrent DEF ListInv
<1>3. ASSUME NEW m \in MapType, m = cur, Current(cur), cur' = cur PROVE Current(cur)'
  <2>1. Current(m)'
    <3>1. Current(m)
      BY <1>3
    <3> QED BY <3>1, CalmCurrent
  <2> QED BY <1>3, <2>1 DEF Current
<1> QED BY <1>2, <1>3

\* A calm step of the node or of the watch.
LEMMA CalmStep ==
  ASSUME SafeInv, Calm, Witness, UNCHANGED scanVars, Typed'
  PROVE  SafeInv' /\ (GraceInv /\ UNCHANGED okBefore => GraceInv')
<1> USE DEF SafeInv
<1>1. UNCHANGED <<pc, event, listed, todo, cur, left, dev, anyHealthy, orphanStreak>>
  BY DEF scanVars
<1>2. ListInv'
  <2>1. looking \/ pc = "flush" => cur \in MapType
    BY DEF Typed, StreakInv, looking
  <2> QED BY <1>1, <2>1, CalmList DEF ListInv, looking, between
<1>3. ProbeInv'
  <2>1. pc \notin {"wait", "settle", "list", "next"} => cur.wwid \in Volumes /\ cur.paths \subseteq Devices
    BY DEF Typed, StreakInv, MapType
  <2>2. \A w \in Volumes :
          /\ paths'[w] \intersect stillHealthy' \subseteq paths[w] \intersect stillHealthy
          /\ mustKeep(w)' => mustKeep(w)
          /\ stillOpen' \subseteq stillOpen
    BY CalmKeeps
  <2>3. pc \in {"probe", "state"} =>
       /\ (left \union dev)' \subseteq cur'.paths
       /\ cur'.wwid \notin stillOpen'
       /\ anyHealthy' \/ paths'[cur'.wwid] \intersect stillHealthy' \subseteq (left \union dev)'
    BY <1>1, <2>1, <2>2 DEF ProbeInv
  <2>4. pc \in {"stale", "flush", "delete"} => ~mustKeep(cur.wwid)'
    <3>1. ASSUME pc \in {"stale", "flush", "delete"}, NEW w \in Volumes, w = cur.wwid
          PROVE  ~mustKeep(cur.wwid)'
      <4>1. ~mustKeep(w)
        BY <3>1 DEF ProbeInv
      <4>2. ~mustKeep(w)'
        BY <2>2, <4>1
      <4> QED BY <1>1, <3>1, <4>2 DEF mustKeep
    <3> QED BY <2>1, <3>1
  <2>5. pc = "delete" =>
          \A d \in left : serves'[d] # NoDevice /\ \A w \in Volumes : d \in paths'[w] => w = cur.wwid
    BY DEF ProbeInv, Calm, Typed, TypeOK
  <2> QED BY <1>1, <2>3, <2>4, <2>5 DEF ProbeInv
<1>4. ASSUME GraceInv, UNCHANGED okBefore PROVE GraceInv'
  <2>1. \A w \in Volumes : (mustKeep(w)' => mustKeep(w)) /\ (pending(w)' <=> pending(w))
    BY <1>1, CalmKeeps DEF pending, looking
  <2>2. listed \subseteq Volumes /\ okBefore \subseteq Volumes
    BY DEF Typed, TypeOK
  <2> QED BY <1>1, <1>4, <2>1, <2>2 DEF GraceInv, between
<1> QED BY <1>2, <1>3, <1>4, WitnessHolds DEF Calm

-----------------------------------------------------------------------------
\* A step of the scan that leaves the node as it is.
LEMMA ScanCalm ==
  ASSUME SafeInv, NEW to, ScanStep(to)
  PROVE  /\ Calm /\ Witness /\ Apart' /\ Witnessed' /\ pc' = to
         /\ UNCHANGED <<paths, serves, online, opened, present>>
BY StillCalm, WitnessHolds DEF SafeInv, ScanStep, nodeVars, Calm

\* The scan goes on with the same map, or is done with it.
LEMMA ListStays ==
  ASSUME SafeInv, Calm, Witness, UNCHANGED <<listed, todo, cur>>, ~between',
         looking' \/ pc' = "flush" => looking \/ pc = "flush", pc' # "delete"
  PROVE  ListInv'
<1>1. looking \/ pc = "flush" => cur \in MapType
  BY DEF SafeInv, Typed, StreakInv, looking
<1> QED BY <1>1, CalmList DEF SafeInv, ListInv

LEMMA BetweenList ==
  ASSUME SafeInv, Poll \/ Triggered \/ Settled
  PROVE  ListInv' /\ ProbeInv'
BY DEF SafeInv, ListInv, ProbeInv, Poll, Triggered, Settled, ScanStep, scanKept, looking, between

LEMMA ListingSafe ==
  ASSUME SafeInv, ListMaps
  PROVE  Witnessed' /\ Apart' /\ ListInv' /\ ProbeInv'
<1> USE DEF SafeInv
<1>1. UNCHANGED nodeVars /\ Listing(present, paths)
  BY DEF ListMaps, Listing
<1>2. Apart'
  BY <1>1 DEF nodeVars, Apart
<1>3. Witnessed'
  BY <1>1 DEF Listing, Witnessed, nodeVars, healthyPath, ownPaths, inquiry
<1>4. ListInv'
  <2>1. \A m \in todo' : m.wwid \in listed' /\ m.paths = paths'[m.wwid]
    BY <1>1 DEF Listing, nodeVars
  <2>2. \A m, n \in todo' : m.wwid = n.wwid => m = n
    BY <1>1 DEF Listing
  <2>3. pc' = "next"
    BY <1>1 DEF Listing
  <2> QED BY <2>1, <2>2, <2>3 DEF ListInv, Current, looking, between
<1>5. ProbeInv'
  BY <1>1 DEF Listing, ProbeInv
<1> QED BY <1>2, <1>3, <1>4, <1>5

LEMMA VisitSafe ==
  ASSUME SafeInv, Visit
  PROVE  ListInv' /\ ProbeInv'
<1> USE DEF SafeInv
<1>1. PICK m \in todo : cur' = m /\ todo' = todo \ {m}
  BY DEF Visit
<1>2. Calm /\ Witness /\ pc' = "open" /\ UNCHANGED <<listed, dev>>
  BY ScanCalm DEF Visit, scanKept
<1>3. \A n \in todo : Current(n)'
  BY <1>2, CalmList
<1>4. Current(cur)'
  BY <1>1, <1>3 DEF Current
<1>5. ListInv'
  BY <1>1, <1>2, <1>3, <1>4 DEF ListInv, looking, between
<1>6. ProbeInv'
  BY <1>2 DEF Visit, ProbeInv
<1> QED BY <1>5, <1>6

LEMMA IdleSafe ==
  ASSUME SafeInv, Idle
  PROVE  ProbeInv'
<1> USE DEF SafeInv
<1>1. /\ Calm /\ Witness /\ pc' = "probe" /\ left' = cur.paths
      /\ UNCHANGED <<cur, dev, listed, todo>>
  BY ScanCalm DEF Idle, scanKept
<1>2. cur \in MapType /\ pc = "open" /\ cur.wwid \notin opened
  BY DEF Idle, Typed, StreakInv
<1>3. dev' = {} /\ cur.wwid \notin stillOpen'
  BY <1>1, <1>2 DEF ProbeInv, Witness, Witnessed
<1>4. Current(cur)'
  BY <1>1, <1>2, CalmList DEF ListInv, looking
<1> QED BY <1>1, <1>3, <1>4 DEF ProbeInv, Current

\* A path whose answer is not healthy is none that has been healthy all along.
LEMMA ProbeIdSafe ==
  ASSUME SafeInv, ProbeId, MaxFaults = 0
  PROVE  ProbeInv'
<1> USE DEF SafeInv
<1>0. ~fault
  BY DEF fault, Typed, TypeOK
<1>1. PICK d \in left :
        /\ left' = left \ {d}
        /\ \/ inquiry(d) \ {cur.wwid} # {} /\ ScanStep("stale") /\ UNCHANGED dev
           \/ inquiry(d) = {cur.wwid} /\ ScanStep("state") /\ dev' = {d}
           \/ inquiry(d) = {} /\ ScanStep("probe") /\ UNCHANGED dev
  BY <1>0 DEF ProbeId
<1>2. /\ pc = "probe" /\ cur \in MapType /\ cur.wwid \in Volumes /\ d \in Devices
      /\ UNCHANGED <<cur, anyHealthy>>
  BY DEF ProbeId, Typed, TypeOK, StreakInv, MapType
<1>3. Calm /\ Witness /\ pc' \in {"stale", "state", "probe"} /\ UNCHANGED <<paths, serves, online>>
  BY <1>1, ScanCalm
<1>4. /\ paths'[cur.wwid] \intersect stillHealthy' \subseteq paths[cur.wwid] \intersect stillHealthy
      /\ stillOpen' \subseteq stillOpen
  BY <1>2, <1>3, CalmKeeps
<1>5. d \in cur.paths /\ cur.paths \subseteq paths[cur.wwid] /\ cur.wwid \notin stillOpen
  BY <1>1, <1>2 DEF ProbeInv, ListInv, looking, Current
<1>6. anyHealthy \/ paths[cur.wwid] \intersect stillHealthy \subseteq left
  BY <1>2 DEF ProbeInv
<1>7. CASE inquiry(d) \ {cur.wwid} # {} /\ ScanStep("stale") /\ UNCHANGED dev
  <2>1. ~ownPaths(cur.wwid)'
    BY <1>2, <1>3, <1>5, <1>7 DEF ownPaths, inquiry
  <2>2. cur.wwid \notin stillOwn' /\ cur.wwid \notin stillOpen'
    BY <1>2, <1>3, <1>4, <1>5, <2>1 DEF Witness
  <2>3. ~mustKeep(cur.wwid)'
    BY <1>2, <2>2 DEF mustKeep
  <2> QED BY <1>2, <1>7, <2>3, ScanCalm DEF ProbeInv
<1>8. CASE inquiry(d) = {cur.wwid} /\ ScanStep("state") /\ dev' = {d}
  <2>1. pc' = "state" /\ left' \union dev' = left
    BY <1>1, <1>8, ScanCalm
  <2> QED BY <1>2, <1>4, <1>5, <1>6, <1>8, <2>1 DEF ProbeInv
<1>9. CASE inquiry(d) = {} /\ ScanStep("probe") /\ UNCHANGED dev
  <2>1. d \notin stillHealthy
    BY <1>9, NodeAssumption DEF Witnessed, healthyPath, inquiry
  <2>2. pc' = "probe" /\ dev' = {} /\ left' = left \ {d}
    BY <1>1, <1>2, <1>9, ScanCalm DEF ProbeInv
  <2> QED BY <1>2, <1>4, <1>5, <1>6, <2>1, <2>2 DEF ProbeInv
<1> QED BY <1>1, <1>7, <1>8, <1>9

LEMMA ProbeStateSafe ==
  ASSUME SafeInv, ProbeState, MaxFaults = 0
  PROVE  ProbeInv'
<1> USE DEF SafeInv
<1>0. ~fault
  BY DEF fault, Typed, TypeOK
<1>1. /\ Calm /\ Witness /\ pc = "state" /\ pc' = "probe" /\ dev' = {} /\ UNCHANGED <<cur, left>>
      /\ anyHealthy' = (anyHealthy \/ dev \subseteq online) /\ anyHealthy \in BOOLEAN
  BY <1>0, ScanCalm DEF ProbeState, scanKept, Typed, TypeOK
<1>2. cur.wwid \in Volumes
  BY <1>1 DEF Typed, StreakInv, MapType
<1>3. /\ paths'[cur.wwid] \intersect stillHealthy' \subseteq paths[cur.wwid] \intersect stillHealthy
      /\ stillOpen' \subseteq stillOpen
  BY <1>1, <1>2, CalmKeeps
<1>4. stillHealthy \subseteq online
  BY DEF Witnessed, healthyPath
<1>5. ~anyHealthy' => dev \intersect stillHealthy = {}
  BY <1>1, <1>4 DEF ProbeInv
<1>6. anyHealthy' \/ paths'[cur.wwid] \intersect stillHealthy' \subseteq left
  BY <1>1, <1>3, <1>5 DEF ProbeInv
<1> QED BY <1>1, <1>3, <1>6 DEF ProbeInv

LEMMA ProbedSafe ==
  ASSUME SafeInv, Probed
  PROVE  ProbeInv'
<1> USE DEF SafeInv
<1>1. /\ Calm /\ Witness /\ pc = "probe" /\ left = {} /\ UNCHANGED <<cur, dev>>
      /\ pc' = IF anyHealthy THEN "next" ELSE "stale"
  BY ScanCalm DEF Probed, scanKept
<1>2. dev = {} /\ cur.wwid \in Volumes
  BY <1>1 DEF ProbeInv, Typed, StreakInv, MapType
<1>3. CASE anyHealthy
  BY <1>1, <1>2, <1>3 DEF ProbeInv
<1>4. CASE ~anyHealthy
  <2>1. paths[cur.wwid] \intersect stillHealthy = {} /\ cur.wwid \notin stillOpen
    BY <1>1, <1>2, <1>4 DEF ProbeInv
  <2>2. ~mustKeep(cur.wwid)'
    BY <1>1, <1>2, <2>1, CalmKeeps DEF mustKeep
  <2> QED BY <1>1, <1>2, <1>4, <2>2 DEF ProbeInv
<1> QED BY <1>3, <1>4

\* A map that is not to be kept stays one in a calm step.
LEMMA NotKept ==
  ASSUME SafeInv, Calm, Witness, UNCHANGED cur, cur \in MapType, ~mustKeep(cur.wwid)
  PROVE  ~mustKeep(cur.wwid)'
BY CalmKeeps DEF mustKeep, MapType, SafeInv

LEMMA StaleSafe ==
  ASSUME SafeInv, Stale
  PROVE  ProbeInv'
<1> USE DEF SafeInv
<1>1. /\ Calm /\ Witness /\ pc = "stale" /\ pc' \in {"flush", "next"} /\ UNCHANGED <<cur, dev>>
  BY ScanCalm DEF Stale, scanKept
<1>2. dev = {} /\ cur \in MapType /\ ~mustKeep(cur.wwid)
  BY <1>1 DEF ProbeInv, Typed, StreakInv
<1>3. ~mustKeep(cur.wwid)'
  BY <1>1, <1>2, NotKept
<1> QED BY <1>1, <1>2, <1>3 DEF ProbeInv

\* Only fullDisconnect changes the node.
LEMMA ScanKeepsNode ==
  ASSUME Scan, ~FlushMap, ~DeletePath
  PROVE  UNCHANGED nodeVars
BY DEF Scan, Poll, Triggered, Settled, ListMaps, ListCut, Listing, ListFails, Visit, InUse, Idle,
       ProbeId, ProbeState, Probed, Stale, Disconnected, EndScan, ScanStep

-----------------------------------------------------------------------------
\* What fullDisconnect takes, it takes from the map at hand.
Takes ==
  /\ \A w \in Volumes : paths'[w] \subseteq paths[w]
  /\ \A w \in Volumes : w # cur.wwid => paths'[w] = paths[w]

LEMMA TakesFromCur ==
  ASSUME SafeInv, FlushMap \/ DeletePath, MaxFaults = 0
  PROVE  /\ cur \in MapType /\ ~mustKeep(cur.wwid)
         /\ Takes /\ Witness /\ pc' = "delete" /\ UNCHANGED <<listed, todo, cur, dev>>
<1> USE DEF SafeInv
<1>0. ~fault
  BY DEF fault, Typed, TypeOK
<1>1. /\ cur \in MapType /\ ~mustKeep(cur.wwid) /\ paths \in [Volumes -> SUBSET Devices]
      /\ left \subseteq Devices
  BY DEF FlushMap, DeletePath, ProbeInv, Typed, TypeOK, NodeTypeOK, StreakInv
<1>2. Witness /\ pc' = "delete" /\ UNCHANGED <<listed, todo, cur, dev>>
  BY DEF FlushMap, DeletePath, DisconnectStep, scanKept
<1>3. CASE FlushMap
  <2>1. paths' = [paths EXCEPT ![cur.wwid] = {}] \/ paths' = paths
    BY <1>0, <1>3 DEF FlushMap, RemoveMap, nodeVars
  <2> QED BY <1>1, <1>2, <2>1 DEF Takes
<1>4. CASE DeletePath
  <2>1. PICK d \in left : RemoveDevice(d)
    BY <1>0, <1>4 DEF DeletePath
  <2>2. \A w \in Volumes : w # cur.wwid => d \notin paths[w]
    BY <1>4, <2>1 DEF DeletePath, ProbeInv
  <2>3. \A w \in Volumes : paths'[w] = paths[w] \ {d}
    BY <2>1 DEF RemoveDevice
  <2> QED BY <1>1, <1>2, <2>2, <2>3 DEF Takes
<1> QED BY <1>3, <1>4

LEMMA TakesSafe ==
  ASSUME SafeInv, FlushMap \/ DeletePath, MaxFaults = 0
  PROVE  /\ Apart' /\ Witnessed' /\ ListInv' /\ ProbeInv'
         /\ \A w \in Volumes : mustKeep(w)' => mustKeep(w)
<1> USE DEF SafeInv
<1>1. /\ cur \in MapType /\ ~mustKeep(cur.wwid)
      /\ Takes /\ Witness /\ pc' = "delete" /\ UNCHANGED <<listed, todo, cur, dev>>
  BY TakesFromCur
<1>2. /\ stillOpen' \subseteq stillOpen /\ stillHealthy' \subseteq stillHealthy
      /\ stillOwn' \subseteq stillOwn
  BY <1>1 DEF Witness
<1>3. \A w \in Volumes : mustKeep(w)' => mustKeep(w)
  BY <1>1, <1>2 DEF Takes, mustKeep
<1>4. Apart'
  BY <1>1 DEF Apart, Takes
<1>5. ListInv'
  <2>1. \A m \in todo : m.wwid \in Volumes /\ m.wwid # cur.wwid
    BY DEF FlushMap, DeletePath, ListInv, Typed, TypeOK, MapType
  <2>2. \A m \in todo : Current(m)'
    BY <1>1, <1>2, <2>1 DEF ListInv, Current, Takes
  <2> QED BY <1>1, <2>1, <2>2 DEF ListInv, looking, between
<1>6. \A d \in left' : serves'[d] # NoDevice /\ \A w \in Volumes : d \in paths'[w] => w = cur.wwid
  <2>1. CASE FlushMap
    <3>1. Current(cur) /\ left' = cur.paths /\ UNCHANGED serves
      BY <2>1 DEF FlushMap, ListInv, RemoveMap, nodeVars
    <3>2. \A d \in left' : d \in paths[cur.wwid]
      BY <3>1 DEF Current
    <3>3. \A d \in left' : serves[d] # NoDevice
      BY <1>1, <3>2 DEF Typed, TypeOK, NodeTypeOK, MapType
    <3> QED BY <1>1, <3>1, <3>2, <3>3 DEF Apart, Takes, MapType
  <2>2. CASE DeletePath
    <3>1. PICK d \in left : left' = left \ {d} /\ (RemoveDevice(d) \/ UNCHANGED nodeVars)
      BY <2>2 DEF DeletePath
    <3>2. \A e \in left' : serves'[e] = serves[e]
      BY <3>1 DEF RemoveDevice, nodeVars, Typed, TypeOK, NodeTypeOK
    <3> QED BY <1>1, <2>2, <3>1, <3>2 DEF Takes, ProbeInv, DeletePath
  <2> QED BY <2>1, <2>2
<1>7. ProbeInv'
  <2>1. ~mustKeep(cur.wwid)'
    BY <1>1, <1>2, <1>3 DEF mustKeep, Takes, MapType
  <2>2. dev' = {}
    BY <1>1 DEF FlushMap, DeletePath, ProbeInv
  <2> QED BY <1>1, <1>6, <2>1, <2>2 DEF ProbeInv
<1> QED BY <1>1, <1>3, <1>4, <1>5, <1>7, WitnessHolds

LEMMA EndSafe ==
  ASSUME SafeInv, InUse \/ Disconnected \/ EndScan
  PROVE  ListInv' /\ ProbeInv'
<1> USE DEF SafeInv
<1>1. CASE InUse \/ Disconnected
  <2>1. /\ Calm /\ Witness /\ pc' = "next" /\ UNCHANGED <<listed, todo, cur, dev>> /\ pc \in {"open", "delete"}
    BY <1>1, ScanCalm DEF InUse, Disconnected, scanKept
  <2>2. ~looking' /\ ~between'
    BY <2>1 DEF looking, between
  <2> QED BY <2>1, <2>2, ListStays DEF ProbeInv
<1>2. CASE EndScan
  BY <1>2 DEF EndScan, ScanStep, ListInv, ProbeInv, looking, between
<1> QED BY <1>1, <1>2

LEMMA ScanSafe ==
  ASSUME SafeInv, Scan, MaxFaults = 0
  PROVE  SafeInv'
<1>0. ~fault
  BY DEF SafeInv, fault, Typed, TypeOK
<1>1. Typed'
  BY ScanTyped DEF SafeInv
<1>2. CASE Poll \/ Triggered \/ Settled
  BY <1>1, <1>2, BetweenList, ScanCalm DEF SafeInv, Poll, Triggered, Settled
<1>3. CASE ListMaps
  BY <1>1, <1>3, ListingSafe DEF SafeInv
<1>4. ~ListCut /\ ~ListFails
  BY <1>0 DEF ListCut, ListFails
<1>5. CASE Visit
  BY <1>1, <1>5, VisitSafe, ScanCalm DEF SafeInv, Visit
<1>6. CASE InUse \/ Disconnected \/ EndScan
  BY <1>1, <1>6, EndSafe, ScanCalm DEF SafeInv, InUse, Disconnected, EndScan
<1>7. CASE Idle
  <2>1. ListInv'
    BY <1>7, ScanCalm, ListStays DEF Idle, scanKept, looking, between
  <2> QED BY <1>1, <1>7, <2>1, IdleSafe, ScanCalm DEF SafeInv, Idle
<1>8. CASE ProbeId
  <2>1. PICK to \in {"stale", "state", "probe"} : ScanStep(to)
    BY <1>8 DEF ProbeId
  <2>2. ListInv'
    BY <1>8, <2>1, ScanCalm, ListStays DEF ProbeId, scanKept, looking, between
  <2> QED BY <1>1, <1>8, <2>1, <2>2, ProbeIdSafe, ScanCalm DEF SafeInv
<1>9. CASE ProbeState
  <2>1. ListInv'
    BY <1>9, ScanCalm, ListStays DEF ProbeState, scanKept, looking, between
  <2> QED BY <1>1, <1>9, <2>1, ProbeStateSafe, ScanCalm DEF SafeInv, ProbeState
<1>10. CASE Probed
  <2>1. PICK to \in {"stale", "next"} : ScanStep(to)
    BY <1>10 DEF Probed
  <2>2. ListInv'
    BY <1>10, <2>1, ScanCalm, ListStays DEF Probed, scanKept, looking, between
  <2> QED BY <1>1, <1>10, <2>1, <2>2, ProbedSafe, ScanCalm DEF SafeInv
<1>11. CASE Stale
  <2>1. PICK to \in {"flush", "next"} : ScanStep(to)
    BY <1>11 DEF Stale
  <2>2. ListInv'
    BY <1>11, <2>1, ScanCalm, ListStays DEF Stale, scanKept, looking, between
  <2> QED BY <1>1, <1>11, <2>1, <2>2, StaleSafe, ScanCalm DEF SafeInv
<1>12. CASE FlushMap \/ DeletePath
  BY <1>1, <1>12, TakesSafe DEF SafeInv
<1> QED
  BY <1>2, <1>3, <1>4, <1>5, <1>6, <1>7, <1>8, <1>9, <1>10, <1>11, <1>12 DEF Scan

LEMMA RestartSafe ==
  ASSUME SafeInv, Restart
  PROVE  SafeInv' /\ GraceInv'
<1>1. Typed'
  BY StepTyped DEF SafeInv, Next
<1>2. Calm /\ Witnessed'
  BY StillCalm, WitnessHolds DEF SafeInv, Restart, nodeVars
<1>3. ListInv' /\ ProbeInv'
  BY DEF Restart, ListInv, ProbeInv, looking, between
<1>4. GraceInv'
  BY DEF Restart, GraceInv
<1> QED BY <1>1, <1>2, <1>3, <1>4 DEF SafeInv, Calm

\* Steps that are not the scan's: the node, the watch, an event, a restart, and stuttering.
LEMMA RestSafe ==
  ASSUME SafeInv, [Next]_vars, ~Scan
  PROVE  /\ SafeInv' /\ (GraceInv => GraceInv')
         /\ Restart \/ (UNCHANGED pc /\ Calm)
<1>1. Typed'
  BY StepTyped DEF SafeInv
<1>2. ASSUME UNCHANGED <<scanVars, okBefore>>, Witness, NodeStep \/ UNCHANGED <<paths, serves>>
             \/ \E w \in Volumes : Detached(w)
      PROVE  SafeInv' /\ (GraceInv => GraceInv') /\ UNCHANGED pc /\ Calm
  <2>1. (\E w \in Volumes : Detached(w)) => UNCHANGED <<paths, serves>>
    BY DEF Detached
  <2>2. Calm
    BY <1>2, <2>1, NodeCalm, StillCalm DEF SafeInv
  <2> QED BY <1>1, <1>2, <2>2, CalmStep DEF scanVars
<1>3. CASE Restart
  BY <1>3, RestartSafe
<1>4. CASE Node
  BY <1>2, <1>4 DEF Node
<1>5. CASE WatchOpens \/ WatchEnds
  BY <1>2, <1>5 DEF WatchOpens, WatchEnds, nodeVars
<1>6. CASE \E w \in Volumes : Detached(w)
  BY <1>2, <1>6 DEF Detached
<1>7. CASE UNCHANGED vars
  <2>1. UNCHANGED <<nodeVars, scanVars, history>>
    BY <1>7 DEF vars
  <2>2. Witness
    BY <2>1 DEF SafeInv, Witnessed, Witness, history, nodeVars, healthyPath, ownPaths, inquiry
  <2> QED BY <1>2, <2>1, <2>2 DEF history, nodeVars
<1> QED BY <1>3, <1>4, <1>5, <1>6, <1>7 DEF Next

-----------------------------------------------------------------------------
(***************************************************************************)
(* "A healthy-but-briefly-unmounted map ... is never touched", nor is one  *)
(* that was open all along: no step of a scan takes a path from a map that *)
(* has been open, or healthy and clean, ever since the scan's listing,     *)
(* whatever the node does between the scan's commands.                     *)
(***************************************************************************)
THEOREM HealthyMapsUntouched ==
  ASSUME MaxFaults = 0
  PROVE  Spec => HealthyUntouched
<1>1. Init => SafeInv
  BY InitSafe
<1>2. SafeInv /\ [Next]_vars => SafeInv'
  BY ScanSafe, RestSafe
<1>3. SafeInv /\ [Next]_vars => [\A w \in Volumes : mustKeep(w) => paths[w] \subseteq paths'[w]]_vars
  <2> SUFFICES ASSUME SafeInv, [Next]_vars, NEW w \in Volumes, mustKeep(w)
               PROVE  paths[w] \subseteq paths'[w]
    OBVIOUS
  <2>1. CASE FlushMap \/ DeletePath
    BY <2>1, TakesFromCur DEF Takes
  <2>2. CASE Scan /\ ~(FlushMap \/ DeletePath)
    <3>1. UNCHANGED paths
      BY <2>2, ScanKeepsNode DEF nodeVars
    <3> QED BY <3>1
  <2>3. CASE ~Scan
    BY <2>3, RestSafe DEF Restart, nodeVars, Calm
  <2> QED BY <2>1, <2>2, <2>3
<1> QED BY <1>1, <1>2, <1>3, PTL DEF Spec, HealthyUntouched

-----------------------------------------------------------------------------
(***************************************************************************)
(* Within a scan, each streak stays as it is, is reset, or is that of a    *)
(* map the scan has just decided about and that need not be kept.          *)
(***************************************************************************)
LEMMA GraceStays ==
  ASSUME SafeInv, GraceInv, UNCHANGED <<listed, okBefore>>, between' => between,
         \A w \in Volumes : mustKeep(w)' => mustKeep(w),
         \A w \in Volumes :
           \/ orphanStreak'[w] = 0
           \/ orphanStreak'[w] = orphanStreak[w] /\ (pending(w)' <=> pending(w))
           \/ ~pending(w)' /\ ~between' /\ ~mustKeep(w)
  PROVE  GraceInv'
<1>1. listed \subseteq Volumes /\ okBefore \subseteq Volumes
  BY DEF SafeInv, Typed, TypeOK
<1> QED BY <1>1 DEF GraceInv

LEMMA ScanGrace ==
  ASSUME SafeInv, GraceInv, Scan, MaxFaults = 0
  PROVE  GraceInv'
<1> USE DEF scanKept
<1>0. ~fault
  BY DEF SafeInv, fault, Typed, TypeOK
<1>1. ASSUME NEW to, ScanStep(to) PROVE \A w \in Volumes : mustKeep(w)' => mustKeep(w)
  BY <1>1, ScanCalm, CalmKeeps DEF SafeInv
<1>2. /\ orphanStreak \in [Volumes -> 0 .. GracePolls]
      /\ pc \notin {"wait", "settle", "list", "next"} => cur.wwid \in Volumes
      /\ looking \/ pc \in {"flush", "delete"} => \A m \in todo : m.wwid # cur.wwid
  BY DEF SafeInv, Typed, TypeOK, StreakInv, MapType, ListInv
<1>3. CASE Poll \/ Triggered \/ Settled
  <2>1. UNCHANGED <<listed, todo, cur, orphanStreak, okBefore>> /\ between /\ pc' \in {"list", "settle"}
    BY <1>3 DEF Poll, Triggered, Settled, ScanStep, between
  <2>2. \A w \in Volumes : pending(w)' <=> pending(w)
    BY <2>1 DEF pending, looking, between
  <2> QED BY <1>1, <1>3, <2>1, <2>2, GraceStays DEF Poll, Triggered, Settled
<1>4. CASE ListMaps
  <2>1. \A w \in listed' : \E m \in todo' : m.wwid = w
    <3>1. \A w \in listed' : [wwid |-> w, paths |-> paths[w]] \in todo'
      BY <1>4 DEF ListMaps, Listing
    <3> QED BY <3>1
  <2>2. \A w \in okBefore : orphanStreak[w] = 0
    BY <1>4 DEF ListMaps, Listing, GraceInv, between
  <2> QED BY <1>4, <2>1, <2>2 DEF ListMaps, Listing, GraceInv, pending
<1>5. CASE Visit
  <2>1. PICK m \in todo : cur' = m /\ todo' = todo \ {m}
    BY <1>5 DEF Visit
  <2>2. UNCHANGED <<listed, orphanStreak, okBefore>> /\ pc = "next" /\ pc' = "open" /\ ScanStep("open")
    BY <1>5 DEF Visit, ScanStep
  <2>3. \A w \in Volumes : pending(w)' <=> pending(w)
    BY <2>1, <2>2 DEF pending, looking
  <2> QED BY <1>1, <2>2, <2>3, GraceStays DEF between
<1>6. CASE InUse \/ Disconnected
  <2>1. /\ UNCHANGED <<listed, todo, cur, okBefore>> /\ ScanStep("next") /\ pc \in {"open", "delete"}
        /\ pc' = "next" /\ orphanStreak' = [orphanStreak EXCEPT ![cur.wwid] = 0]
    BY <1>6 DEF InUse, Disconnected, ScanStep
  <2>2. \A w \in Volumes : w # cur.wwid =>
          orphanStreak'[w] = orphanStreak[w] /\ (pending(w)' <=> pending(w))
    BY <1>2, <2>1 DEF pending, looking
  <2>3. orphanStreak'[cur.wwid] = 0
    BY <1>2, <2>1
  <2> QED BY <1>1, <2>1, <2>2, <2>3, GraceStays DEF between
<1>7. CASE Idle \/ ProbeId \/ ProbeState
  <2>1. PICK to \in {"probe", "stale", "state"} : ScanStep(to)
    BY <1>7 DEF Idle, ProbeId, ProbeState
  <2>2. /\ UNCHANGED <<listed, todo, cur, orphanStreak, okBefore>>
        /\ pc \in {"open", "probe", "state"} /\ pc' \in {"probe", "stale", "state"}
    BY <1>7, <2>1 DEF Idle, ProbeId, ProbeState, ScanStep
  <2>3. \A w \in Volumes : pending(w)' <=> pending(w)
    BY <2>2 DEF pending, looking
  <2> QED BY <1>1, <2>1, <2>2, <2>3, GraceStays DEF between
<1>8. CASE Probed
  <2>1. PICK to \in {"next", "stale"} : ScanStep(to) /\ (to = "next" <=> anyHealthy)
    BY <1>8 DEF Probed
  <2>2. /\ UNCHANGED <<listed, todo, cur, okBefore>> /\ pc = "probe" /\ pc' = to
        /\ orphanStreak' = [orphanStreak EXCEPT ![cur.wwid] = IF anyHealthy THEN 0 ELSE @]
    BY <1>8, <2>1 DEF Probed, ScanStep
  <2>3. \A w \in Volumes : w # cur.wwid =>
          orphanStreak'[w] = orphanStreak[w] /\ (pending(w)' <=> pending(w))
    BY <1>2, <2>2 DEF pending, looking
  <2>4. \/ orphanStreak'[cur.wwid] = 0
        \/ orphanStreak'[cur.wwid] = orphanStreak[cur.wwid] /\ (pending(cur.wwid)' <=> pending(cur.wwid))
    BY <1>2, <2>1, <2>2 DEF pending, looking
  <2> QED BY <1>1, <2>1, <2>2, <2>3, <2>4, GraceStays DEF between
<1>9. CASE Stale
  <2>1. PICK to \in {"flush", "next"} : ScanStep(to)
    BY <1>9 DEF Stale
  <2>2. /\ UNCHANGED <<listed, todo, cur, okBefore>> /\ pc = "stale" /\ pc' = to
        /\ orphanStreak' = [orphanStreak EXCEPT ![cur.wwid] = @ + 1]
    BY <1>9, <2>1 DEF Stale, ScanStep
  <2>3. \A w \in Volumes : w # cur.wwid =>
          orphanStreak'[w] = orphanStreak[w] /\ (pending(w)' <=> pending(w))
    BY <1>2, <2>2 DEF pending, looking
  <2>4. ~mustKeep(cur.wwid)
    BY <2>2 DEF SafeInv, ProbeInv
  <2>5. ~pending(cur.wwid)' /\ ~between'
    BY <1>2, <2>2 DEF pending, looking, between
  <2> QED BY <1>1, <2>1, <2>2, <2>3, <2>4, <2>5, GraceStays
<1>10. CASE FlushMap \/ DeletePath
  <2>1. /\ UNCHANGED <<listed, todo, cur, orphanStreak, okBefore>>
        /\ pc \in {"flush", "delete"} /\ pc' = "delete"
    BY <1>10 DEF FlushMap, DeletePath, DisconnectStep
  <2>2. \A w \in Volumes : pending(w)' <=> pending(w)
    BY <2>1 DEF pending, looking
  <2> QED BY <1>10, <2>1, <2>2, TakesSafe, GraceStays DEF between
<1>11. CASE EndScan
  <2>1. \A w \in Volumes : ~pending(w)
    BY <1>11 DEF EndScan, pending, looking
  <2>2. \A w \in okBefore' : w \in Volumes /\ (mustKeep(w) \/ w \notin listed)
    BY <1>11 DEF EndScan
  <2>3. \A w \in okBefore' : orphanStreak'[w] = 0
    BY <1>11, <2>1, <2>2 DEF EndScan, unseen, GraceInv
  <2> QED BY <1>11, <2>3 DEF EndScan, GraceInv
<1> QED
  BY <1>0, <1>3, <1>4, <1>5, <1>6, <1>7, <1>8, <1>9, <1>10, <1>11 DEF Scan, ListCut, ListFails

(***************************************************************************)
(* A poll disconnects no map that the scan before it cannot have found     *)
(* stale, because it was open, healthy or not there all the time, once the *)
(* grace is more than a single poll.                                       *)
(***************************************************************************)
THEOREM PollsKeepGrace ==
  ASSUME MaxFaults = 0, GracePolls >= 2
  PROVE  Spec => GraceKept
<1>1. Init => SafeInv /\ GraceInv
  BY InitSafe
<1>2. SafeInv /\ GraceInv /\ [Next]_vars => SafeInv' /\ GraceInv'
  BY ScanSafe, ScanGrace, RestSafe
<1>3. SafeInv /\ GraceInv /\ [Next]_vars
        => [pc = "stale" /\ pc' = "flush" /\ ~event => cur.wwid \notin okBefore]_vars
  <2> SUFFICES ASSUME SafeInv, GraceInv, [Next]_vars, pc = "stale", pc' = "flush", ~event,
                      cur.wwid \in okBefore
               PROVE  FALSE
    OBVIOUS
  <2>1. Stale
    <3>1. CASE Scan
      BY <3>1 DEF Scan, Poll, Triggered, Settled, ListMaps, ListCut, Listing, ListFails, Visit, InUse,
           Idle, ProbeId, ProbeState, Probed, FlushMap, DeletePath, Disconnected, EndScan
    <3>2. CASE ~Scan
      BY <3>2, RestSafe DEF Restart
    <3> QED BY <3>1, <3>2
  <2>2. orphanStreak[cur.wwid] = 0
    BY DEF GraceInv, pending, looking
  <2>3. GracePolls \in Nat
    BY CleanerAssumption
  <2>4. ~graceOver(orphanStreak[cur.wwid] + 1)
    BY <2>2, <2>3 DEF graceOver
  <2> QED BY <2>1, <2>4 DEF Stale, ScanStep
<1> QED BY <1>1, <1>2, <1>3, PTL DEF Spec, GraceKept

=============================================================================

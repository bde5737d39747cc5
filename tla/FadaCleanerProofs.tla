-------------------------- MODULE FadaCleanerProofs ---------------------------
(***************************************************************************)
(* Theorems about the cleaner for any node, grace and bounds.              *)
(*                                                                         *)
(* EventHeeded is inductive.  TypeOK needs StreakInv: a streak is at its   *)
(* limit only for the map that is being disconnected.                      *)
(***************************************************************************)
EXTENDS FadaCleaner, TLAPS

LEMMA InitHeeded == Init => EventHeeded
BY DEF Init, EventHeeded

\* A trigger is given up only for a scan that has yet to list the maps, or it is dropped.
LEMMA StepHeeded == EventHeeded /\ [Next]_vars => EventHeeded'
<1> SUFFICES ASSUME EventHeeded, [Next]_vars PROVE EventHeeded'
  OBVIOUS
<1> USE DEF EventHeeded
<1>1. CASE Poll
  BY <1>1 DEF Poll, ScanStep
<1>2. CASE Triggered
  BY <1>2 DEF Triggered, ScanStep
<1>3. CASE Settled
  BY <1>3 DEF Settled, ScanStep, scanKept
<1>4. CASE ListMaps
  BY <1>4 DEF ListMaps, Listing, Heeded
<1>5. CASE Visit
  BY <1>5 DEF Visit, ScanStep, scanKept
<1>6. CASE InUse \/ Idle
  BY <1>6 DEF InUse, Idle, ScanStep, scanKept
<1>7. CASE ProbeId
  BY <1>7 DEF ProbeId, ScanStep, scanKept
<1>8. CASE ProbeState \/ Probed
  BY <1>8 DEF ProbeState, Probed, ScanStep, scanKept
<1>9. CASE Stale
  BY <1>9 DEF Stale, ScanStep, scanKept
<1>10. CASE FlushMap \/ DeletePath
  BY <1>10 DEF FlushMap, DeletePath, DisconnectStep, scanKept
<1>11. CASE Disconnected \/ EndScan
  BY <1>11 DEF Disconnected, EndScan, ScanStep, scanKept
<1>12. CASE Restart
  BY <1>12 DEF Restart
<1>13. CASE Node
  BY <1>13 DEF Node, scanVars
<1>14. CASE WatchOpens \/ WatchEnds
  BY <1>14 DEF WatchOpens, WatchEnds, scanVars
<1>15. ASSUME NEW w \in Volumes, Detached(w) PROVE EventHeeded'
  BY <1>15 DEF Detached, scanVars, notified
<1>16. CASE UNCHANGED vars
  BY <1>16 DEF vars, scanVars, history
<1>17. CASE ListCut \/ ListFails
  <2>1. UNCHANGED <<trigger, event>> /\ Missed
    BY <1>17 DEF ListCut, Listing, ListFails
  <2> QED BY <2>1 DEF Missed
<1> QED
  BY <1>1, <1>2, <1>3, <1>4, <1>5, <1>6, <1>7, <1>8, <1>9, <1>10, <1>11, <1>12, <1>13, <1>14,
     <1>15, <1>16, <1>17 DEF Next, Scan

(***************************************************************************)
(* No detach the watch has noticed goes without a scan of a detach event's *)
(* that lists the maps after it, however scans and triggers interleave,    *)
(* unless that scan cannot list them or the cleaner is restarted: one slot *)
(* in the trigger channel is enough.                                       *)
(***************************************************************************)
THEOREM NoEventLost == Spec => []EventHeeded
BY InitHeeded, StepHeeded, PTL DEF Spec

-----------------------------------------------------------------------------
MapType == [wwid : Volumes, paths : SUBSET Devices]

\* A streak reaches its limit only for a map that is then disconnected.
StreakInv ==
  /\ pc \notin {"wait", "settle", "list", "next"} => cur \in MapType
  /\ \A w \in Volumes :
       orphanStreak[w] = GracePolls => pc \in {"flush", "delete"} /\ w = cur.wwid

Typed == TypeOK /\ StreakInv

\* The history has its type, whatever the step.
LEMMA WitnessTyped ==
  ASSUME TypeOK, Witness
  PROVE  stillOpen' \subseteq Volumes /\ stillHealthy' \subseteq Devices /\ stillOwn' \subseteq Volumes
BY DEF TypeOK, Witness

\* What the node does without the cleaner.
LEMMA NodeTyped ==
  ASSUME NodeTypeOK, NodeStep
  PROVE  NodeTypeOK'
<1> USE DEF NodeTypeOK
<1>1. ASSUME NEW w \in Volumes, Attach(w) PROVE NodeTypeOK'
  <2>1. PICK d \in Devices \union {NoDevice} :
          serves' = serves \/ (d \in Devices /\ serves' = [serves EXCEPT ![d] = w] /\ serves[d] = NoVolume)
    BY <1>1 DEF Attach
  <2>2. \A e \in Devices : serves'[e] \in {serves[e], w}
    BY <2>1
  <2>3. serves' \in [Devices -> Volumes \union {NoVolume, NoDevice}]
    BY <2>1
  <2>4. w # NoDevice
    BY NodeAssumption
  <2> QED BY <1>1, <2>2, <2>3, <2>4 DEF Attach
<1>2. ASSUME NEW w \in Volumes, Mount(w) \/ Unmount(w) PROVE NodeTypeOK'
  BY <1>2 DEF Mount, Unmount
<1>3. ASSUME NEW w \in Volumes, Detach(w) PROVE NodeTypeOK'
  BY <1>3, NodeAssumption DEF Detach
<1>4. ASSUME NEW w \in Volumes, NEW d \in Devices, Discover(w, d) PROVE NodeTypeOK'
  <2>1. w # NoDevice
    BY NodeAssumption
  <2>2. /\ serves' \in [Devices -> Volumes \union {NoVolume, NoDevice}] /\ serves'[d] = w
        /\ \A e \in Devices : e # d => serves'[e] = serves[e]
    BY <1>4 DEF Discover
  <2>3. /\ paths' \in [Volumes -> SUBSET Devices] /\ paths'[w] = paths[w] \union {d}
        /\ \A v \in Volumes : v # w => paths'[v] = paths[v]
    BY <1>4 DEF Discover
  <2>4. online' \subseteq Devices /\ present' = present \union {w} /\ UNCHANGED <<attached, leaving, opened>>
    BY <1>4 DEF Discover
  <2> QED BY <2>1, <2>2, <2>3, <2>4
<1>5. ASSUME NEW d \in Devices, PathDown(d) \/ PathUp(d) PROVE NodeTypeOK'
  BY <1>5 DEF PathDown, PathUp
<1> QED BY <1>1, <1>2, <1>3, <1>4, <1>5 DEF NodeStep

LEMMA RemoveTyped ==
  ASSUME NodeTypeOK
  PROVE  /\ \A w \in Volumes \ opened : RemoveMap(w) => NodeTypeOK'
         /\ \A d \in Devices : RemoveDevice(d) => NodeTypeOK'
<1>1. ASSUME NEW w \in Volumes \ opened, RemoveMap(w) PROVE NodeTypeOK'
  BY <1>1 DEF NodeTypeOK, RemoveMap
<1>2. ASSUME NEW d \in Devices, RemoveDevice(d) PROVE NodeTypeOK'
  <2>1. /\ serves' \in [Devices -> Volumes \union {NoVolume, NoDevice}]
        /\ \A e \in Devices : e # d => serves'[e] = serves[e]
    BY <1>2 DEF NodeTypeOK, RemoveDevice
  <2>2. paths' \in [Volumes -> SUBSET Devices] /\ \A w \in Volumes : paths'[w] = paths[w] \ {d}
    BY <1>2 DEF NodeTypeOK, RemoveDevice
  <2> QED BY <1>2, <2>1, <2>2 DEF NodeTypeOK, RemoveDevice
<1> QED BY <1>1, <1>2

LEMMA InitTyped == Init => Typed
<1> SUFFICES ASSUME Init PROVE Typed
  OBVIOUS
<1>1. NodeTypeOK
  BY DEF Init, NodeInit, NodeTypeOK
<1>2. orphanStreak \in [Volumes -> 0 .. GracePolls] /\ \A w \in Volumes : orphanStreak[w] # GracePolls
  BY CleanerAssumption DEF Init
<1>3. faults \in 0 .. MaxFaults /\ restarts \in 0 .. MaxRestarts
  BY CleanerAssumption DEF Init
<1> QED BY <1>1, <1>2, <1>3 DEF Init, Typed, TypeOK, StreakInv

\* A scan's step that leaves the node as it is.
LEMMA ScanStepTyped ==
  ASSUME Typed, NEW to, ScanStep(to),
         to \in {"wait", "settle", "list", "next", "open", "probe", "state", "stale", "flush"},
         to \notin {"wait", "settle", "list", "next"} => cur' \in MapType,
         trigger' \in BOOLEAN, event' \in BOOLEAN, anyHealthy' \in BOOLEAN,
         owed' \in BOOLEAN, dropped' \in BOOLEAN,
         listed' \subseteq Volumes, cur' \in MapType \union {NoMap}, todo' \subseteq MapType,
         left' \subseteq Devices, dev' \subseteq Devices, okBefore' \subseteq Volumes,
         orphanStreak' \in [Volumes -> 0 .. GracePolls], faults' \in 0 .. MaxFaults,
         \A w \in Volumes : orphanStreak'[w] = GracePolls => to = "flush" /\ w = cur'.wwid
  PROVE  Typed'
<1>1. NodeTypeOK'
  BY DEF Typed, TypeOK, ScanStep, NodeTypeOK, nodeVars
<1>2. stillOpen' \subseteq Volumes /\ stillHealthy' \subseteq Devices /\ stillOwn' \subseteq Volumes
  BY WitnessTyped DEF Typed, ScanStep
<1>3. TypeOK'
  BY <1>1, <1>2 DEF Typed, TypeOK, ScanStep, MapType
<1> QED BY <1>3 DEF Typed, StreakInv, ScanStep

\* A fault is within its bound.
LEMMA FaultTyped == Typed /\ (fault \/ UNCHANGED faults) => faults' \in 0 .. MaxFaults
BY CleanerAssumption DEF Typed, TypeOK, fault

\* A streak that is reset, or kept as long as its map is not being disconnected.
LEMMA ResetTyped ==
  ASSUME Typed, NEW w \in Volumes, orphanStreak' = [orphanStreak EXCEPT ![w] = 0]
  PROVE  /\ orphanStreak' \in [Volumes -> 0 .. GracePolls]
         /\ \A v \in Volumes : orphanStreak'[v] = GracePolls => v # w /\ orphanStreak[v] = GracePolls
BY CleanerAssumption DEF Typed, TypeOK

LEMMA ListingTyped ==
  ASSUME Typed, NEW ws \in SUBSET Volumes, NEW listing \in [Volumes -> SUBSET Devices],
         Listing(ws, listing), faults' \in 0 .. MaxFaults, Heeded \/ Missed
  PROVE  Typed'
<1>1. todo' \subseteq MapType
  BY DEF Listing, MapType
<1>2. /\ stillOpen' \subseteq Volumes /\ stillHealthy' \subseteq Devices /\ stillOwn' \subseteq Volumes
      /\ NodeTypeOK'
  BY DEF Listing, Typed, TypeOK, NodeTypeOK, nodeVars
<1>3. owed' \in BOOLEAN /\ dropped' \in BOOLEAN
  BY DEF Heeded, Missed, Typed, TypeOK
<1>4. TypeOK'
  BY <1>1, <1>2, <1>3 DEF Listing, Typed, TypeOK, MapType
<1> QED BY <1>4 DEF Listing, Typed, StreakInv

LEMMA DisconnectTyped ==
  ASSUME Typed, FlushMap \/ DeletePath
  PROVE  Typed'
<1>0. cur \in MapType /\ left \subseteq Devices
  BY DEF Typed, TypeOK, StreakInv, FlushMap, DeletePath
<1>1. /\ NodeTypeOK' /\ faults' \in 0 .. MaxFaults /\ left' \subseteq Devices
      /\ DisconnectStep("delete")
  <2>1. CASE FlushMap
    <3>1. NodeTypeOK'
      <4>1. UNCHANGED nodeVars => NodeTypeOK'
        BY DEF Typed, TypeOK, NodeTypeOK, nodeVars
      <4> QED BY <1>0, <2>1, <4>1, RemoveTyped DEF FlushMap, Typed, TypeOK, MapType
    <3> QED BY <1>0, <2>1, <3>1, FaultTyped DEF FlushMap, MapType
  <2>2. CASE DeletePath
    <3>1. NodeTypeOK'
      <4>1. UNCHANGED nodeVars => NodeTypeOK'
        BY DEF Typed, TypeOK, NodeTypeOK, nodeVars
      <4> QED BY <1>0, <2>2, <4>1, RemoveTyped DEF DeletePath, Typed, TypeOK
    <3> QED BY <1>0, <2>2, <3>1, FaultTyped DEF DeletePath
  <2> QED BY <2>1, <2>2
<1>2. stillOpen' \subseteq Volumes /\ stillHealthy' \subseteq Devices /\ stillOwn' \subseteq Volumes
  BY <1>1, WitnessTyped DEF Typed, DisconnectStep
<1>3. TypeOK'
  BY <1>1, <1>2 DEF Typed, TypeOK, DisconnectStep, scanKept
<1>4. pc \in {"flush", "delete"}
  BY DEF FlushMap, DeletePath
<1> QED BY <1>0, <1>1, <1>3, <1>4 DEF Typed, StreakInv, DisconnectStep

LEMMA ScanTyped ==
  ASSUME Typed, Scan
  PROVE  Typed'
<1>0. TypeOK /\ StreakInv
  BY DEF Typed
<1>a. NoMap \in MapType \union {NoMap} /\ todo \subseteq MapType /\ cur \in MapType \union {NoMap}
  BY <1>0 DEF TypeOK, MapType
<1> USE DEF scanKept
<1>1. CASE Poll
  BY <1>0, <1>a, <1>1, ScanStepTyped DEF Poll, TypeOK, StreakInv
<1>2. CASE Triggered
  BY <1>0, <1>a, <1>2, ScanStepTyped DEF Triggered, TypeOK, StreakInv
<1>3. CASE Settled
  BY <1>0, <1>a, <1>3, ScanStepTyped DEF Settled, TypeOK, StreakInv
<1>4. CASE ListMaps
  BY <1>0, <1>4, ListingTyped DEF ListMaps, TypeOK, NodeTypeOK
<1>5. CASE ListCut
  <2>1. faults' \in 0 .. MaxFaults /\ Missed
    BY <1>5, FaultTyped DEF ListCut
  <2>2. CASE Listing({}, paths)
    BY <1>0, <2>1, <2>2, ListingTyped DEF TypeOK, NodeTypeOK
  <2>3. ASSUME NEW last \in present, NEW before \in SUBSET (present \ {last}),
               NEW ds \in SUBSET paths[last], NEW other \in {{}} \union {{d} : d \in Devices},
               Listing(before \union {last}, [paths EXCEPT ![last] = ds \union other])
        PROVE  Typed'
    <3>1. other \subseteq Devices
      OBVIOUS
    <3>2. /\ before \union {last} \in SUBSET Volumes
          /\ [paths EXCEPT ![last] = ds \union other] \in [Volumes -> SUBSET Devices]
      BY <1>0, <3>1 DEF TypeOK, NodeTypeOK
    <3> QED BY <2>1, <2>3, <3>2, ListingTyped
  <2> QED BY <1>5, <2>2, <2>3 DEF ListCut
<1>6. CASE ListFails
  <2>1. owed' \in BOOLEAN /\ dropped' \in BOOLEAN
    BY <1>0, <1>6 DEF ListFails, Missed, TypeOK
  <2> QED BY <1>0, <1>a, <1>6, <2>1, ScanStepTyped, FaultTyped DEF ListFails, TypeOK, StreakInv
<1>7. CASE Visit
  BY <1>0, <1>a, <1>7, ScanStepTyped DEF Visit, TypeOK, StreakInv
<1>8. CASE InUse
  <2>1. cur \in MapType /\ cur.wwid \in Volumes
    BY <1>0, <1>8 DEF InUse, StreakInv, MapType
  <2>2. faults' \in 0 .. MaxFaults
    BY <1>8, FaultTyped DEF InUse, busy
  <2>3. /\ orphanStreak' \in [Volumes -> 0 .. GracePolls]
        /\ \A w \in Volumes : orphanStreak'[w] # GracePolls
    BY <1>0, <1>8, <2>1, ResetTyped DEF InUse, StreakInv
  <2> QED BY <1>0, <1>a, <1>8, <2>2, <2>3, ScanStepTyped DEF InUse, TypeOK
<1>9. CASE Idle
  <2>1. cur \in MapType /\ cur.paths \subseteq Devices
    BY <1>0, <1>9 DEF Idle, StreakInv, MapType
  <2> QED BY <1>0, <1>a, <1>9, <2>1, ScanStepTyped DEF Idle, TypeOK, StreakInv
<1>10. CASE ProbeId
  <2>1. PICK d \in left :
          /\ left' = left \ {d}
          /\ \/ ScanStep("stale") /\ UNCHANGED <<dev, faults>>
             \/ ScanStep("state") /\ dev' = {d} /\ UNCHANGED faults
             \/ ScanStep("probe") /\ UNCHANGED <<dev, faults>>
             \/ fault /\ ScanStep("probe") /\ UNCHANGED dev
    BY <1>10 DEF ProbeId
  <2>2. PICK to \in {"stale", "state", "probe"} : ScanStep(to)
    BY <2>1
  <2>3. left' \subseteq Devices /\ dev' \subseteq Devices /\ faults' \in 0 .. MaxFaults
    BY <1>0, <2>1, FaultTyped DEF TypeOK
  <2>4. cur \in MapType /\ \A w \in Volumes : orphanStreak[w] # GracePolls
    BY <1>0, <1>10 DEF ProbeId, StreakInv
  <2> QED BY <1>0, <1>a, <1>10, <2>2, <2>3, <2>4, ScanStepTyped DEF ProbeId, TypeOK
<1>11. CASE ProbeState
  <2>1. anyHealthy' \in BOOLEAN /\ faults' \in 0 .. MaxFaults
    BY <1>0, <1>11, FaultTyped DEF ProbeState, TypeOK
  <2> QED BY <1>0, <1>a, <1>11, <2>1, ScanStepTyped DEF ProbeState, TypeOK, StreakInv
<1>12. CASE Probed
  <2>1. cur \in MapType /\ cur.wwid \in Volumes
    BY <1>0, <1>12 DEF Probed, StreakInv, MapType
  <2>2. /\ orphanStreak' \in [Volumes -> 0 .. GracePolls]
        /\ \A w \in Volumes : orphanStreak'[w] # GracePolls
    BY <1>0, <1>12, <2>1, CleanerAssumption DEF Probed, TypeOK, StreakInv
  <2>3. ScanStep("next") \/ ScanStep("stale")
    BY <1>12 DEF Probed
  <2> QED BY <1>0, <1>a, <1>12, <2>1, <2>2, <2>3, ScanStepTyped DEF Probed, TypeOK
<1>13. CASE Stale
  <2>1. cur \in MapType /\ cur.wwid \in Volumes /\ orphanStreak[cur.wwid] \in 0 .. GracePolls - 1
    BY <1>0, <1>13, CleanerAssumption DEF Stale, StreakInv, MapType, TypeOK
  <2>2. /\ orphanStreak' \in [Volumes -> 0 .. GracePolls]
        /\ \A w \in Volumes : w # cur.wwid => orphanStreak'[w] # GracePolls
        /\ orphanStreak'[cur.wwid] = orphanStreak[cur.wwid] + 1
    BY <1>0, <1>13, <2>1, CleanerAssumption DEF Stale, TypeOK, StreakInv
  <2>3. \/ ScanStep("flush")
        \/ ScanStep("next") /\ orphanStreak'[cur.wwid] # GracePolls
    BY <1>13, <2>1, <2>2, CleanerAssumption DEF Stale, graceOver
  <2> QED BY <1>0, <1>a, <1>13, <2>1, <2>2, <2>3, ScanStepTyped DEF Stale, TypeOK
<1>14. CASE FlushMap \/ DeletePath
  BY <1>14, DisconnectTyped
<1>15. CASE Disconnected
  <2>1. cur \in MapType /\ cur.wwid \in Volumes
    BY <1>0, <1>15 DEF Disconnected, StreakInv, MapType
  <2>2. /\ orphanStreak' \in [Volumes -> 0 .. GracePolls]
        /\ \A w \in Volumes : orphanStreak'[w] # GracePolls
    BY <1>0, <1>15, <2>1, ResetTyped DEF Disconnected, StreakInv
  <2> QED BY <1>0, <1>a, <1>15, <2>2, ScanStepTyped DEF Disconnected, TypeOK
<1>16. CASE EndScan
  <2>1. /\ orphanStreak' \in [Volumes -> 0 .. GracePolls]
        /\ \A w \in Volumes : orphanStreak'[w] # GracePolls
    BY <1>0, <1>16, CleanerAssumption DEF EndScan, StreakInv, TypeOK
  <2>2. okBefore' \subseteq Volumes
    BY <1>16 DEF EndScan
  <2> QED BY <1>0, <1>a, <1>16, <2>1, <2>2, ScanStepTyped DEF EndScan, TypeOK
<1> QED
  BY <1>1, <1>2, <1>3, <1>4, <1>5, <1>6, <1>7, <1>8, <1>9, <1>10, <1>11, <1>12, <1>13, <1>14,
     <1>15, <1>16 DEF Scan

LEMMA StepTyped == Typed /\ [Next]_vars => Typed'
<1> SUFFICES ASSUME Typed, [Next]_vars PROVE Typed'
  OBVIOUS
<1>0. TypeOK /\ StreakInv
  BY DEF Typed
<1>1. ASSUME NodeTypeOK', Witness, UNCHANGED <<scanVars, faults, okBefore>>,
             watching' \in BOOLEAN, trigger' \in BOOLEAN, owed' \in BOOLEAN, dropped' \in BOOLEAN,
             restarts' \in 0 .. MaxRestarts
      PROVE  Typed'
  <2>1. TypeOK'
    BY <1>0, <1>1, WitnessTyped DEF TypeOK, scanVars
  <2> QED BY <1>0, <1>1, <2>1 DEF Typed, StreakInv, scanVars
<1>2. UNCHANGED nodeVars => NodeTypeOK'
  BY <1>0 DEF TypeOK, NodeTypeOK, nodeVars
<1>3. CASE WatchOpens
  BY <1>0, <1>1, <1>2, <1>3 DEF WatchOpens, boundVars, TypeOK
<1>8. CASE WatchEnds
  BY <1>0, <1>1, <1>2, <1>8 DEF WatchEnds, boundVars, TypeOK
<1>4. CASE Node
  BY <1>0, <1>1, <1>4, NodeTyped DEF Node, boundVars, TypeOK
<1>5. ASSUME NEW w \in Volumes, Detached(w) PROVE Typed'
  <2>1. NodeTypeOK'
    BY <1>0, <1>5 DEF Detached, TypeOK, NodeTypeOK
  <2>2. trigger' \in BOOLEAN /\ owed' \in BOOLEAN /\ dropped' \in BOOLEAN
    BY <1>0, <1>5 DEF Detached, TypeOK, notified
  <2> QED BY <1>0, <1>1, <1>5, <2>1, <2>2 DEF Detached, boundVars, TypeOK
<1>6. CASE Restart
  <2>1. /\ restarts' \in 0 .. MaxRestarts /\ orphanStreak' \in [Volumes -> 0 .. GracePolls]
        /\ \A w \in Volumes : orphanStreak'[w] # GracePolls
    BY <1>0, <1>6, CleanerAssumption DEF Restart, TypeOK
  <2>2. TypeOK'
    BY <1>0, <1>2, <1>6, <2>1, WitnessTyped DEF Restart, TypeOK
  <2> QED BY <1>6, <2>1, <2>2 DEF Restart, Typed, StreakInv
<1>7. CASE UNCHANGED vars
  BY <1>0, <1>2, <1>7 DEF vars, scanVars, boundVars, history, Typed, TypeOK, StreakInv
<1> QED BY <1>3, <1>4, <1>5, <1>6, <1>7, <1>8, ScanTyped DEF Next

\* Every variable has its type; no streak outgrows the grace it is counted for.
THEOREM CleanerTypeCorrect == Spec => []TypeOK
<1>1. Typed => TypeOK
  BY DEF Typed
<1> QED BY InitTyped, StepTyped, <1>1, PTL DEF Spec
=============================================================================

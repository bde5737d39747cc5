---------------------------- MODULE PxStressProofs ---------------------------
(***************************************************************************)
(* TypeOK, NoFalseLoss and SuccessRanItsTime of PxStress, for any pools,   *)
(* sizes and number of faults.                                             *)
(*                                                                         *)
(* Keys: what a pool expects is on its volumes, and these are not being    *)
(* deleted, as long as storage has lost nothing and no key was written to  *)
(* a doomed volume.  Heard: a pool ends only when the run has been stopped *)
(* or a failure was recorded, and the run is stopped by a recorded failure *)
(* or because its time is up.                                              *)
(***************************************************************************)
EXTENDS PxStress, TLAPS, FiniteSetTheorems

Keys == \A p \in Pools \ (lost \union onDoomed) :
          /\ \A o \in expected[p] : volume[p][o] = "key" /\ o \notin doomed[p]
          /\ found[p] # "loss"

Heard ==
  /\ ctx = "cancelled" => rec # {}
  /\ \A p \in Pools : /\ pc[p] = "cancel" => rec # {}
                      /\ pc[p] = "end" => rec # {} \/ ctx # "live"
  /\ exit = "success" => rec = {} /\ \A p \in Pools : pc[p] = "end"

\* Where a pool is in its cycle.
Placed ==
  \A p \in Pools : /\ pc[p] \in {"survive", "verify"} => 0 \in expected[p]
                   /\ pc[p] = "loop" => stage[p] # "down"
                   /\ pc[p] = "fail" => found[p] # "none"

Inv == TypeOK /\ Keys /\ NoFalseLoss /\ Heard /\ Placed

LEMMA Sizes ==
  /\ MaxSize \in Nat \ {0} /\ MinSize \in 1 .. MaxSize /\ MidSize \in 1 .. MaxSize
  /\ \A s \in Stages : sizeOf[s] \in 1 .. MaxSize
  /\ \A s \in Stages \ {"down"} : after[s] \in Stages
  BY StressAssumption DEF Stages, sizeOf, after

\* A pool has at most MaxSize pods.
LEMMA PodCount == \A S \in SUBSET (0 .. MaxSize - 1) : Cardinality(S) \in 0 .. MaxSize
  <1>. TAKE S \in SUBSET (0 .. MaxSize - 1)
  <1>1. IsFiniteSet(0 .. MaxSize - 1) /\ Cardinality(0 .. MaxSize - 1) = MaxSize
    BY Sizes, FS_Interval
  <1>2. Cardinality(S) <= MaxSize /\ Cardinality(S) \in Nat
    BY <1>1, FS_Subset, FS_CardinalityType
  <1>. QED  BY <1>2, Sizes

LEMMA InitInv == Init => Inv
  <1>. SUFFICES ASSUME Init PROVE Inv
    OBVIOUS
  <1>1. TypeOK
    BY Sizes, StressAssumption DEF Init, TypeOK, Each, Ordinals, Stages, Locations
  <1>2. Keys /\ NoFalseLoss /\ Heard /\ Placed
    BY DEF Init, Each, Keys, NoFalseLoss, Heard, Placed
  <1>. QED  BY <1>1, <1>2 DEF Inv

-----------------------------------------------------------------------------
\* A step of the cluster changes neither what is expected nor the volumes that hold it.
LEMMA ClusterInv ==
  ASSUME Inv, NEW p \in Pools, Cluster(p)
  PROVE  Inv'
  <1>. USE DEF Unchanged, driver
  <1>1. CASE StatusUpdate(p)
    <2>1. TypeOK'
      BY <1>1, PodCount DEF Inv, TypeOK, StatusUpdate
    <2>. QED  BY <1>1, <2>1 DEF Inv, StatusUpdate, Keys, NoFalseLoss, Heard, Placed
  <1>2. ASSUME NEW o \in Ordinals, PodUp(p, o) PROVE Inv'
    <2>1. TypeOK'
      <3>1. o \in 0 .. MaxSize - 1
        BY <1>2, Sizes DEF Inv, TypeOK, PodUp, Ordinals
      <3>2. up' \in [Pools -> SUBSET (0 .. MaxSize - 1)]
        BY <1>2, <3>1 DEF Inv, TypeOK, PodUp
      <3>3. volume' \in [Pools -> [Ordinals -> {"none", "fresh", "key", "other"}]]
        BY <1>2 DEF Inv, TypeOK, PodUp
      <3>. QED  BY <1>2, <3>2, <3>3 DEF Inv, TypeOK, PodUp
    <2>2. Keys'
      BY <1>2 DEF Inv, TypeOK, PodUp, Keys
    <2>. QED  BY <1>2, <2>1, <2>2 DEF Inv, PodUp, NoFalseLoss, Heard, Placed
  <1>3. ASSUME NEW o \in Ordinals, PodDown(p, o) \/ PodFails(p, o) PROVE Inv'
    <2>1. up' \in [Pools -> SUBSET (0 .. MaxSize - 1)]
      BY <1>3 DEF Inv, TypeOK, PodDown, PodFails
    <2>2. faults' \in 0 .. MaxFaults
      BY <1>3, StressAssumption DEF Inv, TypeOK, PodDown, PodFails
    <2>3. TypeOK'
      BY <1>3, <2>1, <2>2 DEF Inv, TypeOK, PodDown, PodFails
    <2>. QED  BY <1>3, <2>3 DEF Inv, PodDown, PodFails, Keys, NoFalseLoss, Heard, Placed
  <1>4. ASSUME NEW o \in Ordinals, VolumeGone(p, o) PROVE Inv'
    <2>1. TypeOK'
      BY <1>4 DEF Inv, TypeOK, VolumeGone
    <2>2. Keys'
      BY <1>4 DEF Inv, TypeOK, VolumeGone, Keys
    <2>. QED  BY <1>4, <2>1, <2>2 DEF Inv, VolumeGone, NoFalseLoss, Heard, Placed
  <1>5. ASSUME NEW o \in Ordinals, Loss(p, o) PROVE Inv'
    <2>1. TypeOK'
      <3>1. o \in 0 .. MaxSize - 1 /\ faults' \in 0 .. MaxFaults
        BY <1>5, Sizes, StressAssumption DEF Inv, TypeOK, Loss, Ordinals
      <3>2. up' \in [Pools -> SUBSET (0 .. MaxSize - 1)]
        BY <1>5, <3>1 DEF Inv, TypeOK, Loss
      <3>3. volume' \in [Pools -> [Ordinals -> {"none", "fresh", "key", "other"}]]
        BY <1>5 DEF Inv, TypeOK, Loss
      <3>. QED  BY <1>5, <3>1, <3>2, <3>3 DEF Inv, TypeOK, Loss
    <2>2. Keys'
      BY <1>5 DEF Inv, TypeOK, Loss, Keys
    <2>. QED  BY <1>5, <2>1, <2>2 DEF Inv, Loss, NoFalseLoss, Heard, Placed
  <1>. QED  BY <1>1, <1>2, <1>3, <1>4, <1>5 DEF Cluster

\* Commands that keep the pool's volumes and keys.
LEMMA StepsInv ==
  ASSUME Inv, NEW p \in Pools,
         Apply(p) \/ Scale(p) \/ Ready(p) \/ Cleaned(p) \/ Checked(p) \/ Loop(p) \/ Kill(p)
  PROVE  Inv'
  <1>. USE DEF To, At, Shared
  <1>1. CASE Apply(p)
    <2>1. TypeOK'
      BY <1>1, Sizes DEF Inv, TypeOK, Apply, Locations
    <2>. QED  BY <1>1, <2>1 DEF Inv, TypeOK, Apply, Keys, NoFalseLoss, Heard, Placed
  <1>2. CASE Scale(p)
    <2>1. TypeOK'
      BY <1>2, Sizes DEF Inv, TypeOK, Scale, Locations
    <2>. QED  BY <1>2, <2>1 DEF Inv, TypeOK, Scale, Keys, NoFalseLoss, Heard, Placed
  <1>3. CASE Ready(p)
    <2>1. TypeOK'
      <3>1. pc' \in [Pools -> Locations]
        BY <1>3 DEF Inv, TypeOK, Ready, Locations
      <3>2. ord' \in [Pools -> 0 .. MaxSize + 1] /\ current' \in [Pools -> 0 .. MaxSize]
        <4>1. goal[p] \in 0 .. MaxSize /\ 0 \in 0 .. MaxSize + 1 /\ goal[p] \in 0 .. MaxSize + 1
          BY Sizes DEF Inv, TypeOK
        <4>2. ord' \in {ord, [ord EXCEPT ![p] = goal[p]], [ord EXCEPT ![p] = 0]}
          BY <1>3 DEF Ready
        <4>3. current' \in {current, [current EXCEPT ![p] = goal[p]]}
          BY <1>3 DEF Ready
        <4>4. ord' \in [Pools -> 0 .. MaxSize + 1]
          BY <4>1, <4>2 DEF Inv, TypeOK
        <4>5. current' \in [Pools -> 0 .. MaxSize]
          BY <4>1, <4>3 DEF Inv, TypeOK
        <4>. QED  BY <4>4, <4>5
      <3>. QED  BY <1>3, <3>1, <3>2 DEF Inv, TypeOK, Ready, cluster
    <2>2. Keys' /\ NoFalseLoss'
      BY <1>3 DEF Inv, Ready, Keys, NoFalseLoss, cluster
    <2>3. Heard'
      BY <1>3 DEF Inv, TypeOK, Ready, Heard
    <2>4. Placed'
      BY <1>3 DEF Inv, TypeOK, Ready, Placed
    <2>. QED  BY <2>1, <2>2, <2>3, <2>4 DEF Inv
  <1>4. CASE Cleaned(p)
    <2>1. TypeOK'
      BY <1>4, Sizes DEF Inv, TypeOK, Cleaned, Locations, cluster
    <2>. QED  BY <1>4, <2>1 DEF Inv, TypeOK, Cleaned, Keys, NoFalseLoss, Heard, Placed, cluster
  <1>5. CASE Checked(p)
    <2>1. TypeOK'
      BY <1>5 DEF Inv, TypeOK, Checked, Locations, cluster
    <2>. QED  BY <1>5, <2>1 DEF Inv, TypeOK, Checked, Keys, NoFalseLoss, Heard, Placed, cluster
  <1>6. CASE Loop(p)
    <2>1. TypeOK'
      <3>1. stage[p] \in Stages \ {"down"}
        BY <1>6 DEF Inv, TypeOK, Placed, Loop
      <3>2. pc' \in [Pools -> Locations] /\ stage' \in [Pools -> Stages]
        BY <1>6, <3>1, Sizes DEF Inv, TypeOK, Loop, Locations
      <3>3. \A c \in 0 .. RecreateEach : RecreateEach # 0 => (c + 1) % RecreateEach \in 0 .. RecreateEach
        BY StressAssumption
      <3>4. cycle' \in [Pools -> 0 .. RecreateEach]
        BY <1>6, <3>3 DEF Inv, TypeOK, Loop
      <3>. QED  BY <1>6, <3>2, <3>4 DEF Inv, TypeOK, Loop, cluster
    <2>. QED  BY <1>6, <2>1 DEF Inv, TypeOK, Loop, Keys, NoFalseLoss, Heard, Placed, cluster
  <1>7. CASE Kill(p)
    <2>1. TypeOK'
      BY <1>7, Sizes DEF Inv, TypeOK, Kill, Locations
    <2>. QED  BY <1>7, <2>1 DEF Inv, TypeOK, Kill, Keys, NoFalseLoss, Heard, Placed
  <1>. QED  BY <1>1, <1>2, <1>3, <1>4, <1>5, <1>6, <1>7

\* A deleted PVC is no longer expected; a key is expected once it is written.
LEMMA DeletePutInv ==
  ASSUME Inv, NEW p \in Pools, DeletePVC(p) \/ Put(p)
  PROVE  Inv'
  <1>. USE DEF At, Shared
  <1>1. CASE DeletePVC(p)
    <2>1. TypeOK'
      <3>1. doomed' \in [Pools -> SUBSET Ordinals] /\ expected' \in [Pools -> SUBSET Ordinals]
        BY <1>1, Sizes DEF Inv, TypeOK, DeletePVC, Ordinals
      <3>2. ord' \in [Pools -> 0 .. MaxSize + 1]
        BY <1>1, Sizes DEF Inv, TypeOK, DeletePVC
      <3>. QED  BY <1>1, <3>1, <3>2 DEF Inv, TypeOK, DeletePVC
    <2>2. Keys'
      BY <1>1 DEF Inv, TypeOK, DeletePVC, Keys
    <2>. QED  BY <1>1, <2>1, <2>2 DEF Inv, DeletePVC, NoFalseLoss, Heard, Placed
  <1>2. CASE Put(p)
    <2>1. TypeOK'
      <3>1. ord[p] \in Ordinals
        BY <1>2, Sizes DEF Inv, TypeOK, Put, Ordinals
      <3>2. volume' \in [Pools -> [Ordinals -> {"none", "fresh", "key", "other"}]]
        BY <1>2, <3>1 DEF Inv, TypeOK, Put
      <3>3. expected' \in [Pools -> SUBSET Ordinals] /\ onDoomed' \in SUBSET Pools
        BY <1>2, <3>1 DEF Inv, TypeOK, Put
      <3>4. ord' \in [Pools -> 0 .. MaxSize + 1]
        BY <1>2, Sizes DEF Inv, TypeOK, Put
      <3>. QED  BY <1>2, <3>2, <3>3, <3>4 DEF Inv, TypeOK, Put
    <2>2. Keys'
      <3>0. ord[p] \in Ordinals
        BY <1>2, Sizes DEF Inv, TypeOK, Put, Ordinals
      <3>1. ASSUME p \notin lost \union onDoomed'
            PROVE  /\ \A o \in expected'[p] : volume'[p][o] = "key" /\ o \notin doomed'[p]
                   /\ found'[p] # "loss"
        BY <1>2, <3>0, <3>1 DEF Inv, TypeOK, Put, Keys
      <3>2. \A k \in Pools \ {p} : /\ expected'[k] = expected[k] /\ volume'[k] = volume[k]
                                   /\ k \in onDoomed' <=> k \in onDoomed
        BY <1>2 DEF Inv, TypeOK, Put
      <3>. QED  BY <1>2, <3>1, <3>2 DEF Inv, Put, Keys
    <2>. QED  BY <1>2, <2>1, <2>2 DEF Inv, Put, NoFalseLoss, Heard, Placed
  <1>. QED  BY <1>1, <1>2

-----------------------------------------------------------------------------
\* With the namespace, the keys that were expected go.
LEMMA GoneType == ASSUME TypeOK, NEW p \in Pools, Gone(p)
  PROVE /\ replicas' \in [Pools -> 0 .. MaxSize]
        /\ up' \in [Pools -> SUBSET (0 .. MaxSize - 1)]
        /\ status' \in [Pools -> 0 .. MaxSize]
        /\ volume' \in [Pools -> [Ordinals -> {"none", "fresh", "key", "other"}]]
        /\ doomed' \in [Pools -> SUBSET Ordinals]
        /\ expected' \in [Pools -> SUBSET Ordinals] /\ expected'[p] = {}
        /\ \A k \in Pools \ {p} : /\ expected'[k] = expected[k] /\ volume'[k] = volume[k]
                                 /\ doomed'[k] = doomed[k]
  BY Sizes DEF TypeOK, Gone

\* A pool that leaves its cycle expects nothing any more.
LEMMA LeavesType == ASSUME TypeOK, NEW p \in Pools, Leaves(p)
  PROVE /\ stage' \in [Pools -> Stages] /\ goal' \in [Pools -> 0 .. MaxSize]
        /\ ord' \in [Pools -> 0 .. MaxSize + 1] /\ current' \in [Pools -> 0 .. MaxSize]
        /\ cycle' \in [Pools -> 0 .. RecreateEach]
        /\ stage'[p] = "made" /\ \A k \in Pools \ {p} : stage'[k] = stage[k]
  <1>0. 0 \in 0 .. MaxSize /\ 0 \in 0 .. MaxSize + 1 /\ 0 \in 0 .. RecreateEach
    BY Sizes, StressAssumption
  <1>1. /\ stage' \in [Pools -> Stages] /\ stage'[p] = "made"
        /\ \A k \in Pools \ {p} : stage'[k] = stage[k]
    BY DEF TypeOK, Leaves, Stages
  <1>2. goal' \in [Pools -> 0 .. MaxSize]
    BY <1>0 DEF TypeOK, Leaves
  <1>3. ord' \in [Pools -> 0 .. MaxSize + 1]
    BY <1>0 DEF TypeOK, Leaves
  <1>4. current' \in [Pools -> 0 .. MaxSize]
    BY <1>0 DEF TypeOK, Leaves
  <1>5. cycle' \in [Pools -> 0 .. RecreateEach]
    BY <1>0 DEF TypeOK, Leaves
  <1>. QED  BY <1>1, <1>2, <1>3, <1>4, <1>5

\* A pool leaves its cycle to report a failure, a loss only if there was one, or to end.
LEMMA LeavesInv ==
  ASSUME Inv, NEW p \in Pools, Leaves(p),
         pc[p] \in Locations \ {"fail", "cancel", "end"},
         NEW loc \in {"fail", "end"}, To(p, loc),
         NEW what \in {"none", "error", "loss"}, found' = [found EXCEPT ![p] = what],
         loc = "fail" => what # "none",
         loc = "end" => ctx # "live",
         what = "loss" => p \in lost \union onDoomed,
         onDoomed' = onDoomed, Shared
  PROVE  Inv'
  <1>1. /\ TypeOK /\ Gone(p) /\ faults' = faults /\ lost' = lost /\ rec' = rec /\ exit' = exit
        /\ ctx' = ctx
    BY DEF Inv, Leaves, Shared
  <1>2. /\ pc' \in [Pools -> Locations] /\ pc'[p] = loc
        /\ \A k \in Pools \ {p} : pc'[k] = pc[k]
    BY <1>1 DEF TypeOK, To, Locations
  <1>3. /\ found' \in [Pools -> {"none", "error", "loss"}] /\ found'[p] = what
        /\ \A k \in Pools \ {p} : found'[k] = found[k]
    BY <1>1 DEF TypeOK
  <1>4. TypeOK'
    <2>. QED  BY <1>1, <1>2, <1>3, GoneType, LeavesType DEF TypeOK
  <1>5. Keys'
    <2>. SUFFICES ASSUME NEW k \in Pools \ (lost \union onDoomed)
                  PROVE  /\ \A o \in expected'[k] : volume'[k][o] = "key" /\ o \notin doomed'[k]
                         /\ found'[k] # "loss"
      BY <1>1 DEF Keys
    <2>1. CASE k = p
      BY <2>1, <1>1, <1>3, GoneType
    <2>2. CASE k # p
      BY <2>2, <1>1, <1>3, GoneType DEF Inv, Keys
    <2>. QED  BY <2>1, <2>2
  <1>6. NoFalseLoss'
    BY <1>1 DEF Inv, NoFalseLoss
  <1>7. Heard'
    <2>1. \A k \in Pools : pc'[k] = "cancel" => rec # {}
      BY <1>2 DEF Inv, Heard
    <2>2. \A k \in Pools : pc'[k] = "end" => rec # {} \/ ctx # "live"
      BY <1>2 DEF Inv, Heard
    <2>3. exit # "success"
      BY DEF Inv, Heard
    <2>. QED  BY <1>1, <2>1, <2>2, <2>3 DEF Inv, Heard
  <1>8. Placed'
    <2>1. expected'[p] = {} /\ \A k \in Pools \ {p} : expected'[k] = expected[k]
      BY <1>1, GoneType
    <2>. QED  BY <1>1, <1>2, <1>3, <2>1, LeavesType DEF Inv, Placed
  <1>. QED  BY <1>4, <1>5, <1>6, <1>7, <1>8 DEF Inv

\* Keys are read: a wrong one is found in a pool that has lost content.
LEMMA ReadInv ==
  ASSUME Inv, NEW p \in Pools, Get(p) \/ Verify(p)
  PROVE  Inv'
  <1>. USE DEF To, At, Shared, cluster
  <1>1. ASSUME NEW o \in expected[p], FindLoss(p, o), pc[p] \in {"check", "verify"}
        PROVE  Inv'
    <2>1. p \in lost \union onDoomed
      BY <1>1 DEF Inv, Keys, FindLoss
    <2>2. /\ Leaves(p) /\ To(p, "fail") /\ found' = [found EXCEPT ![p] = "loss"]
          /\ onDoomed' = onDoomed /\ Shared
      BY <1>1 DEF FindLoss, Error
    <2>3. pc[p] \in Locations \ {"fail", "cancel", "end"}
      BY <1>1 DEF Locations
    <2>. QED  BY <2>1, <2>2, <2>3, LeavesInv
  <1>2. CASE Get(p) /\ ~FindLoss(p, ord[p])
    <2>1. TypeOK'
      <3>1. ord' \in [Pools -> 0 .. MaxSize + 1]
        BY <1>2, Sizes DEF Inv, TypeOK, Get
      <3>. QED  BY <1>2, <3>1 DEF Inv, TypeOK, Get
    <2>. QED  BY <1>2, <2>1 DEF Inv, Get, Keys, NoFalseLoss, Heard, Placed
  <1>3. CASE Verify(p) /\ ~FindLoss(p, 0)
    <2>0. pc' = [pc EXCEPT ![p] = "recreate"] \/ pc' = [pc EXCEPT ![p] = "loop"]
      BY <1>3 DEF Verify
    <2>1. TypeOK'
      BY <1>3, <2>0 DEF Inv, TypeOK, Verify, Locations, Stages
    <2>2. Keys' /\ NoFalseLoss'
      BY <1>3 DEF Inv, Verify, Keys, NoFalseLoss
    <2>3. Heard'
      BY <1>3, <2>0 DEF Inv, TypeOK, Verify, Heard
    <2>4. Placed'
      BY <1>3, <2>0 DEF Inv, TypeOK, Verify, Placed
    <2>. QED  BY <2>1, <2>2, <2>3, <2>4 DEF Inv
  <1>4. CASE Get(p) /\ FindLoss(p, ord[p])
    BY <1>1, <1>4 DEF Get
  <1>5. CASE Verify(p) /\ FindLoss(p, 0)
    BY <1>1, <1>5 DEF Inv, Placed, Verify
  <1>. QED  BY <1>2, <1>3, <1>4, <1>5

\* The errors, and the end of the loops of runPool.
LEMMA OutInv ==
  ASSUME Inv, NEW p \in Pools, CommandFails(p) \/ GiveUp(p) \/ Return(p)
  PROVE  Inv'
  <1>1. pc[p] \in Locations \ {"fail", "cancel", "end"}
    BY DEF CommandFails, GiveUp, Return, Locations
  <1>2. /\ Leaves(p) /\ onDoomed' = onDoomed /\ Shared
    BY DEF CommandFails, GiveUp, Return, Error
  <1>3. CASE CommandFails(p) \/ GiveUp(p)
    <2>1. To(p, "fail") /\ found' = [found EXCEPT ![p] = "error"]
      BY <1>3 DEF CommandFails, GiveUp, Error
    <2>. QED  BY <1>1, <1>2, <2>1, LeavesInv
  <1>4. CASE Return(p)
    <2>1. To(p, "end") /\ found' = found /\ ctx # "live"
      BY <1>4 DEF Return
    <2>2. found[p] \in {"none", "error", "loss"} /\ found' = [found EXCEPT ![p] = found[p]]
      BY <2>1 DEF Inv, TypeOK
    <2>3. found[p] = "loss" => p \in lost \union onDoomed
      BY DEF Inv, Keys
    <2>. QED  BY <1>1, <1>2, <2>1, <2>2, <2>3, LeavesInv
  <1>. QED  BY <1>3, <1>4

-----------------------------------------------------------------------------
LEMMA RecreateInv ==
  ASSUME Inv, NEW p \in Pools, Recreate(p)
  PROVE  Inv'
  <1>. USE GoneType DEF Inv, Recreate, To, At, Shared
  <1>1. TypeOK'
    BY DEF TypeOK, Locations
  <1>2. Keys'
    BY DEF Keys
  <1>. QED  BY <1>1, <1>2 DEF TypeOK, NoFalseLoss, Heard, Placed

\* A pool ends: what it found, if anything, has been recorded, or the run is over.
LEMMA EndInv ==
  ASSUME Inv, NEW p \in Pools, FailUnheard(p) \/ Cancel(p)
  PROVE  Inv'
  <1>0. /\ TypeOK /\ End(p) /\ rec' = rec
        /\ ctx' \in {ctx, "cancelled"}
        /\ ctx' # ctx => ctx = "live" /\ pc[p] = "cancel"
        /\ pc[p] = "cancel" \/ ctx # "live"
    BY DEF Inv, FailUnheard, Cancel
  <1>. USE DEF End, To, cluster
  <1>1. TypeOK'
    BY <1>0 DEF TypeOK, Locations
  <1>2. /\ pc'[p] = "end" /\ found'[p] = "none"
        /\ \A k \in Pools \ {p} : pc'[k] = pc[k] /\ found'[k] = found[k]
    BY <1>0 DEF TypeOK
  <1>3. Keys' /\ NoFalseLoss'
    BY <1>0, <1>2 DEF Inv, Keys, NoFalseLoss
  <1>4. Heard'
    <2>1. rec # {} \/ ctx' # "live"
      BY <1>0 DEF Inv, Heard
    <2>. QED  BY <2>1, <1>0, <1>2 DEF Inv, Heard
  <1>5. Placed'
    BY <1>0, <1>2 DEF Inv, Placed
  <1>. QED  BY <1>1, <1>3, <1>4, <1>5 DEF Inv

LEMMA FailInv ==
  ASSUME Inv, NEW p \in Pools, Fail(p)
  PROVE  Inv'
  <1>. USE DEF Inv, Fail, To, cluster
  <1>0. found[p] # "none"
    BY DEF Placed
  <1>1. TypeOK'
    BY <1>0 DEF TypeOK, Locations
  <1>2. NoFalseLoss'
    BY DEF TypeOK, Keys, NoFalseLoss
  <1>. QED  BY <1>1, <1>2 DEF TypeOK, Keys, Heard, Placed

LEMMA StepInv == Inv /\ [Next]_vars => Inv'
  <1>. SUFFICES ASSUME Inv, [Next]_vars PROVE Inv'
    OBVIOUS
  <1>1. ASSUME NEW p \in Pools, Pool(p) PROVE Inv'
    BY <1>1, StepsInv, DeletePutInv, ReadInv, OutInv, RecreateInv, EndInv, FailInv DEF Pool
  <1>2. ASSUME NEW p \in Pools, Cluster(p) PROVE Inv'
    BY <1>2, ClusterInv
  <1>3. CASE Elapse
    BY <1>3 DEF Elapse, Inv, TypeOK, Keys, NoFalseLoss, Heard, Placed, cluster, driver
  <1>4. CASE Verdict
    BY <1>4 DEF Verdict, Inv, TypeOK, Keys, NoFalseLoss, Heard, Placed, cluster, driver
  <1>5. CASE Exited \/ UNCHANGED vars
    BY <1>5 DEF Exited, vars, Inv, TypeOK, Keys, NoFalseLoss, Heard, Placed, cluster, driver
  <1>. QED  BY <1>1, <1>2, <1>3, <1>4, <1>5 DEF Next

\* Every variable keeps its type.
THEOREM Typed == Spec => []TypeOK
  <1>1. Inv => TypeOK
    BY DEF Inv
  <1>. QED  BY InitInv, StepInv, <1>1, PTL DEF Spec

(***************************************************************************)
(* A recorded loss is one of storage, or of a volume pxstress deletes and  *)
(* writes to, however pods and their status come and go.                   *)
(***************************************************************************)
THEOREM LossesAreReal == Spec => []NoFalseLoss
  <1>1. Inv => NoFalseLoss
    BY DEF Inv
  <1>. QED  BY InitInv, StepInv, <1>1, PTL DEF Spec

(***************************************************************************)
(* A run that reports success was not stopped before its time, by any pool *)
(* and for any reason; nor is it when it does not stop on an error.        *)
(***************************************************************************)
THEOREM SuccessIsHonest == Spec => []SuccessRanItsTime
  <1>1. Inv => SuccessRanItsTime
    BY DEF Inv, TypeOK, Heard, SuccessRanItsTime
  <1>. QED  BY InitInv, StepInv, <1>1, PTL DEF Spec
=============================================================================

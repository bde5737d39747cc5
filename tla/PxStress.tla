------------------------------- MODULE PxStress ------------------------------
(***************************************************************************)
(* pxstress (cmd/pxstress/main.go): pools of etcd instances are scaled up  *)
(* and down, killed and recreated, and every instance's key is read back.  *)
(* Each pool is a goroutine; all share the context, which ends when the    *)
(* duration has elapsed or a failure stops the run, and the recorder.      *)
(*                                                                         *)
(* The cluster is external: a StatefulSet per pool whose pods come up and  *)
(* go down, a status that lags behind, and volumes that storage may lose.  *)
(* The key of an instance is the same each time it is written, so content  *)
(* is "key" or not.  Every oc command takes effect at once and may fail.   *)
(***************************************************************************)
EXTENDS Integers, FiniteSets

CONSTANTS
  Pools,
  MinSize, MidSize, MaxSize,  \* o.min, o.mid, o.max
  RecreateEach,               \* o.recreateEach
  StopOnError,                \* o.stopOnError
  MaxFaults                   \* bound: pods that fail or come back without their content

ASSUME StressAssumption ==
  /\ {MinSize, MidSize, MaxSize} \subseteq Nat \ {0}
  /\ MinSize <= MaxSize /\ MidSize <= MaxSize
  /\ RecreateEach \in Nat /\ StopOnError \in BOOLEAN /\ MaxFaults \in Nat

Ordinals == 0 .. MaxSize

VARIABLES
  replicas,   \* cluster, per pool: pods asked for (0: no StatefulSet)
  up,         \* ordinals of the pods that run and are ready
  status,     \* .status.readyReplicas
  volume,     \* per ordinal: "none", "fresh", with its "key", or with "other" content
  doomed,     \* ordinals of PVCs being deleted
  faults, lost,   \* faults so far; history: pools of which a volume lost its key
  pc, stage,  \* per pool: where its goroutine is, and in which part of its cycle
  goal, ord,  \* the size it waits for or checks, the ordinal it has come to
  current, expected, cycle,  \* p.current, the keys of p.expected, cycle % RecreateEach
  found,      \* per pool: the failure it reports
  ctx,        \* the context: "live", or done since "elapsed" or "cancelled"
  rec,        \* rec.fail: failures, each of a pool
  exit,       \* the verdict of main
  onDoomed    \* history: pools that wrote a key to a volume still being deleted

cluster == <<replicas, up, status, volume, doomed>>
driver == <<pc, stage, goal, ord, current, expected, cycle, found>>
vars == <<cluster, faults, lost, driver, ctx, rec, exit, onDoomed>>

\* The stops of a cycle and the sizes they scale to; "made" is the first or a recreated pool.
Stages == {"made", "mid", "max", "down"}
sizeOf == [made |-> MinSize, mid |-> MidSize, max |-> MaxSize, down |-> MidSize]
after == [made |-> "mid", mid |-> "max", max |-> "down"]
Locations == {"apply", "wait", "clean", "check", "loop", "scale", "kill", "survive", "verify",
              "recreate", "fail", "cancel", "end"}

TypeOK ==
  /\ replicas \in [Pools -> 0 .. MaxSize]
  /\ up \in [Pools -> SUBSET (0 .. MaxSize - 1)]
  /\ status \in [Pools -> 0 .. MaxSize]
  /\ volume \in [Pools -> [Ordinals -> {"none", "fresh", "key", "other"}]]
  /\ doomed \in [Pools -> SUBSET Ordinals]
  /\ faults \in 0 .. MaxFaults /\ lost \in SUBSET Pools
  /\ pc \in [Pools -> Locations] /\ stage \in [Pools -> Stages]
  /\ goal \in [Pools -> 0 .. MaxSize] /\ ord \in [Pools -> 0 .. MaxSize + 1]
  /\ current \in [Pools -> 0 .. MaxSize]
  /\ expected \in [Pools -> SUBSET Ordinals]
  /\ cycle \in [Pools -> 0 .. RecreateEach]
  /\ found \in [Pools -> {"none", "error", "loss"}]
  /\ ctx \in {"live", "elapsed", "cancelled"}
  /\ rec \in SUBSET [pool : Pools, what : {"error", "loss"}]
  /\ exit \in {"none", "failed", "success"} /\ onDoomed \in SUBSET Pools

Each(x) == [p \in Pools |-> x]

Init ==
  /\ replicas = Each(0) /\ up = Each({}) /\ status = Each(0)
  /\ volume = Each([o \in Ordinals |-> "none"]) /\ doomed = Each({})
  /\ faults = 0 /\ lost = {}
  /\ pc = Each("apply") /\ stage = Each("made")
  /\ goal = Each(MinSize) /\ ord = Each(0)
  /\ current = Each(0) /\ expected = Each({}) /\ cycle = Each(0)
  /\ found = Each("none")
  /\ ctx = "live" /\ rec = {} /\ exit = "none" /\ onDoomed = {}

-----------------------------------------------------------------------------
\* The cluster.
Unchanged == UNCHANGED <<driver, ctx, rec, exit, onDoomed>>

\* A pod starts, on a new volume if it has none; not on one that is being deleted.
PodUp(p, o) ==
  /\ o < replicas[p] /\ o \notin up[p] \union doomed[p]
  /\ up' = [up EXCEPT ![p] = @ \union {o}]
  /\ volume' = [volume EXCEPT ![p][o] = IF @ = "none" THEN "fresh" ELSE @]
  /\ UNCHANGED <<replicas, status, doomed, faults, lost>> /\ Unchanged

\* A pod that is not asked for ends.
PodDown(p, o) ==
  /\ o \in up[p] /\ o >= replicas[p]
  /\ up' = [up EXCEPT ![p] = @ \ {o}]
  /\ UNCHANGED <<replicas, status, volume, doomed, faults, lost>> /\ Unchanged

PodFails(p, o) ==
  /\ o \in up[p] /\ faults < MaxFaults
  /\ up' = [up EXCEPT ![p] = @ \ {o}]
  /\ faults' = faults + 1
  /\ UNCHANGED <<replicas, status, volume, doomed, lost>> /\ Unchanged

StatusUpdate(p) ==
  /\ status[p] # Cardinality(up[p])
  /\ status' = [status EXCEPT ![p] = Cardinality(up[p])]
  /\ UNCHANGED <<replicas, up, volume, doomed, faults, lost>> /\ Unchanged

\* A PVC goes when no pod uses it any more.
VolumeGone(p, o) ==
  /\ o \in doomed[p] \ up[p]
  /\ volume' = [volume EXCEPT ![p][o] = "none"]
  /\ doomed' = [doomed EXCEPT ![p] = @ \ {o}]
  /\ UNCHANGED <<replicas, up, status, faults, lost>> /\ Unchanged

\* What pxstress looks for: a pod is attached to a volume that does not hold its key.
Loss(p, o) ==
  /\ o < replicas[p] /\ o \notin up[p] \union doomed[p]
  /\ volume[p][o] = "key" /\ faults < MaxFaults
  /\ up' = [up EXCEPT ![p] = @ \union {o}]
  /\ volume' = [volume EXCEPT ![p][o] = "other"]
  /\ lost' = lost \union {p}
  /\ faults' = faults + 1
  /\ UNCHANGED <<replicas, status, doomed>> /\ Unchanged

Cluster(p) ==
  \/ StatusUpdate(p)
  \/ \E o \in Ordinals : PodUp(p, o) \/ PodDown(p, o) \/ PodFails(p, o) \/ VolumeGone(p, o)
                         \/ Loss(p, o)

-----------------------------------------------------------------------------
To(p, loc) == pc' = [pc EXCEPT ![p] = loc]
Shared == UNCHANGED <<faults, lost, ctx, rec, exit>>

\* A command of p at one of locs is run: it is not even started once the context is done.
At(p, locs) == pc[p] \in locs /\ ctx = "live"

\* The namespace goes with all that was in it, and p.expected is cleared.
Gone(p) ==
  /\ replicas' = [replicas EXCEPT ![p] = 0]
  /\ up' = [up EXCEPT ![p] = {}]
  /\ status' = [status EXCEPT ![p] = 0]
  /\ volume' = [volume EXCEPT ![p] = [o \in Ordinals |-> "none"]]
  /\ doomed' = [doomed EXCEPT ![p] = {}]
  /\ expected' = [expected EXCEPT ![p] = {}]

\* runPool will return: what becomes of its variables and of the cluster is not followed.
Leaves(p) ==
  /\ Gone(p)
  /\ stage' = [stage EXCEPT ![p] = "made"]
  /\ goal' = [goal EXCEPT ![p] = 0] /\ ord' = [ord EXCEPT ![p] = 0]
  /\ current' = [current EXCEPT ![p] = 0] /\ cycle' = [cycle EXCEPT ![p] = 0]

\* An error of kind what, which fail is to look at.
Error(p, what) ==
  /\ Leaves(p)
  /\ found' = [found EXCEPT ![p] = what]
  /\ To(p, "fail")

\* The goroutine returns.
End(p) ==
  /\ To(p, "end")
  /\ found' = [found EXCEPT ![p] = "none"]
  /\ UNCHANGED <<cluster, stage, goal, ord, current, expected, cycle>>
  /\ UNCHANGED <<faults, lost, exit, onDoomed>>

\* The command fails, or times out, or the context ends meanwhile; nobody looks any more at
\* what it has changed.
CommandFails(p) ==
  /\ pc[p] \in Locations \ {"wait", "survive", "loop", "fail", "cancel", "end"}
  /\ pc[p] = "clean" => ord[p] <= MaxSize
  /\ pc[p] = "check" => ord[p] < goal[p]
  /\ Error(p, "error") /\ UNCHANGED onDoomed /\ Shared

\* ensure, up to waitReady.
Apply(p) ==
  /\ At(p, {"apply"})
  /\ replicas' = [replicas EXCEPT ![p] = MinSize]
  /\ current' = [current EXCEPT ![p] = MinSize]
  /\ goal' = [goal EXCEPT ![p] = MinSize]
  /\ To(p, "wait")
  /\ UNCHANGED <<up, status, volume, doomed, stage, ord, expected, cycle, found, onDoomed>> /\ Shared

\* scale, up to waitReady.
Scale(p) ==
  /\ At(p, {"scale"})
  /\ replicas' = [replicas EXCEPT ![p] = sizeOf[stage[p]]]
  /\ goal' = [goal EXCEPT ![p] = sizeOf[stage[p]]]
  /\ To(p, "wait")
  /\ UNCHANGED <<up, status, volume, doomed, stage, ord, current, expected, cycle, found, onDoomed>>
  /\ Shared

(***************************************************************************)
(* waitReady sees the size it waits for.  A pool that shrinks goes on to   *)
(* delete the PVCs it needs no more, a killed pod to the reading of its    *)
(* key, any other to the integrity check.                                  *)
(***************************************************************************)
Ready(p) ==
  /\ At(p, {"wait", "survive"}) /\ status[p] = goal[p]
  /\ \/ pc[p] = "survive" /\ To(p, "verify") /\ UNCHANGED <<ord, current>>
     \/ /\ pc[p] = "wait" /\ goal[p] < current[p] /\ To(p, "clean")
        /\ ord' = [ord EXCEPT ![p] = goal[p]]
        /\ UNCHANGED current
     \/ /\ pc[p] = "wait" /\ goal[p] >= current[p] /\ To(p, "check")
        /\ ord' = [ord EXCEPT ![p] = 0]
        /\ current' = [current EXCEPT ![p] = goal[p]]
  /\ UNCHANGED <<cluster, stage, goal, expected, cycle, found, onDoomed>> /\ Shared

\* waitReady's deadline passes, or the context ends.
GiveUp(p) ==
  /\ pc[p] \in {"wait", "survive"}
  /\ Error(p, "error") /\ UNCHANGED onDoomed /\ Shared

\* Seeded bug: the key of a deleted PVC is still expected.
DeletePVC_bug(p) ==
  /\ At(p, {"clean"}) /\ ord[p] <= MaxSize
  /\ doomed' = [doomed EXCEPT ![p] = IF volume[p][ord[p]] = "none" THEN @ ELSE @ \union {ord[p]}]
  /\ ord' = [ord EXCEPT ![p] = @ + 1]
  /\ UNCHANGED <<replicas, up, status, volume, pc, stage, goal, current, expected, cycle, found, onDoomed>>
  /\ Shared

\* deletePVCsFrom: the PVC of an ordinal is deleted, in the background, and its key forgotten.
DeletePVC(p) ==
  /\ At(p, {"clean"}) /\ ord[p] <= MaxSize
  /\ doomed' = [doomed EXCEPT ![p] = IF volume[p][ord[p]] = "none" THEN @ ELSE @ \union {ord[p]}]
  /\ expected' = [expected EXCEPT ![p] = @ \ {ord[p]}]
  /\ ord' = [ord EXCEPT ![p] = @ + 1]
  /\ UNCHANGED <<replicas, up, status, volume, pc, stage, goal, current, cycle, found, onDoomed>>
  /\ Shared

Cleaned(p) ==
  /\ pc[p] = "clean" /\ ord[p] > MaxSize
  /\ To(p, "check")
  /\ ord' = [ord EXCEPT ![p] = 0]
  /\ current' = [current EXCEPT ![p] = goal[p]]
  /\ UNCHANGED <<cluster, stage, goal, expected, cycle, found, onDoomed>> /\ Shared

\* reconcileIntegrity writes the key of an instance it has not seen.
Put(p) ==
  /\ At(p, {"check"}) /\ ord[p] < goal[p]
  /\ ord[p] \notin expected[p] /\ ord[p] \in up[p]
  /\ volume' = [volume EXCEPT ![p][ord[p]] = "key"]
  /\ expected' = [expected EXCEPT ![p] = @ \union {ord[p]}]
  /\ ord' = [ord EXCEPT ![p] = @ + 1]
  /\ onDoomed' = IF ord[p] \in doomed[p] THEN onDoomed \union {p} ELSE onDoomed
  /\ UNCHANGED <<replicas, up, status, doomed, pc, stage, goal, current, cycle, found>>
  /\ Shared

\* The key of o is not what is expected.
FindLoss(p, o) ==
  /\ o \in up[p] /\ volume[p][o] # "key"
  /\ Error(p, "loss") /\ UNCHANGED onDoomed /\ Shared

\* reconcileIntegrity reads the key of an instance it has.
Get(p) ==
  /\ At(p, {"check"}) /\ ord[p] < goal[p] /\ ord[p] \in expected[p]
  /\ \/ FindLoss(p, ord[p])
     \/ /\ ord[p] \in up[p] /\ volume[p][ord[p]] = "key"
        /\ ord' = [ord EXCEPT ![p] = @ + 1]
        /\ UNCHANGED <<cluster, pc, stage, goal, current, expected, cycle, found, onDoomed>> /\ Shared

\* Every instance has been checked: the next size, or after the last one the kill.
Checked(p) ==
  /\ pc[p] = "check" /\ ord[p] = goal[p]
  /\ To(p, IF stage[p] = "down" THEN "kill" ELSE "loop")
  /\ UNCHANGED <<cluster, stage, goal, ord, current, expected, cycle, found, onDoomed>> /\ Shared

\* Seeded bug: cycles are counted on.
Loop_bug(p) ==
  /\ At(p, {"loop"})
  /\ To(p, "scale")
  /\ stage' = [stage EXCEPT ![p] = after[@]]
  /\ cycle' = [cycle EXCEPT ![p] = IF stage[p] # "made" THEN @ ELSE @ + 1]
  /\ UNCHANGED <<cluster, goal, ord, current, expected, found, onDoomed>> /\ Shared

\* The next size is scaled to; a cycle begins after "made".
Loop(p) ==
  /\ At(p, {"loop"})
  /\ To(p, "scale")
  /\ stage' = [stage EXCEPT ![p] = after[@]]
  /\ cycle' = [cycle EXCEPT ![p] = IF stage[p] # "made" \/ RecreateEach = 0 THEN @
                                   ELSE (@ + 1) % RecreateEach]
  /\ UNCHANGED <<cluster, goal, ord, current, expected, found, onDoomed>> /\ Shared

\* killAndVerify(0): the pod is deleted, and comes back on its volume.
Kill(p) ==
  /\ At(p, {"kill"}) /\ 0 \in expected[p]
  /\ up' = [up EXCEPT ![p] = @ \ {0}]
  /\ goal' = [goal EXCEPT ![p] = current[p]]
  /\ To(p, "survive")
  /\ UNCHANGED <<replicas, status, volume, doomed, stage, ord, current, expected, cycle, found, onDoomed>>
  /\ Shared

\* Where a pool goes at the end of a cycle: every RecreateEach-th time it is made anew.
Verify(p) ==
  /\ At(p, {"verify"})
  /\ \/ FindLoss(p, 0)
     \/ /\ 0 \in up[p] /\ volume[p][0] = "key"
        /\ IF RecreateEach > 0 /\ cycle[p] = 0
             THEN To(p, "recreate") ELSE To(p, "loop")
        /\ stage' = [stage EXCEPT ![p] = "made"]
        /\ UNCHANGED <<cluster, goal, ord, current, expected, cycle, found, onDoomed>> /\ Shared

\* recreate, up to ensure.
Recreate(p) ==
  /\ At(p, {"recreate"})
  /\ Gone(p)
  /\ To(p, "apply")
  /\ UNCHANGED <<stage, goal, ord, current, cycle, found, onDoomed>> /\ Shared

\* The loops of runPool go on while the context is live.
Return(p) ==
  /\ pc[p] = "loop" /\ ctx # "live"
  /\ Leaves(p) /\ To(p, "end")
  /\ UNCHANGED <<found, onDoomed>> /\ Shared

\* Seeded bug: the context is cancelled before it is looked at.
Fail_bug(p) ==
  /\ pc[p] = "fail" /\ ctx = "live"
  /\ ctx' = IF StopOnError THEN "cancelled" ELSE ctx
  /\ End(p)
  /\ UNCHANGED rec

(***************************************************************************)
(* fail: what went wrong is recorded, unless the context is done by now;   *)
(* then the whole run is stopped.  The pool ends in any case.              *)
(***************************************************************************)
Fail(p) ==
  /\ pc[p] = "fail" /\ ctx = "live"
  /\ rec' = rec \union {[pool |-> p, what |-> found[p]]}
  /\ To(p, "cancel")
  /\ UNCHANGED <<cluster, faults, lost, stage, goal, ord, current, expected, cycle, found, ctx,
                 exit, onDoomed>>

FailUnheard(p) ==
  /\ pc[p] = "fail" /\ ctx # "live"
  /\ End(p)
  /\ UNCHANGED <<ctx, rec>>

\* Seeded bug: the other pools are not stopped.
Cancel_bug(p) ==
  /\ pc[p] = "cancel"
  /\ End(p)
  /\ UNCHANGED <<ctx, rec>>

Cancel(p) ==
  /\ pc[p] = "cancel"
  /\ End(p)
  /\ ctx' = IF StopOnError /\ ctx = "live" THEN "cancelled" ELSE ctx
  /\ UNCHANGED rec

Pool(p) ==
  \/ CommandFails(p) \/ Apply(p) \/ Scale(p) \/ Ready(p) \/ GiveUp(p) \/ DeletePVC(p)
  \/ Cleaned(p) \/ Put(p) \/ Get(p) \/ Checked(p) \/ Loop(p) \/ Return(p)
  \/ Kill(p) \/ Verify(p) \/ Recreate(p) \/ Fail(p) \/ FailUnheard(p) \/ Cancel(p)

-----------------------------------------------------------------------------
\* The duration elapses.
Elapse ==
  /\ ctx = "live" /\ exit = "none"
  /\ ctx' = "elapsed"
  /\ UNCHANGED <<cluster, faults, lost, driver, rec, exit, onDoomed>>

\* When every pool has ended, main reports and exits; the namespaces go later if at all.
Verdict ==
  /\ exit = "none" /\ \A p \in Pools : pc[p] = "end"
  /\ exit' = IF rec = {} THEN "success" ELSE "failed"
  /\ UNCHANGED <<cluster, faults, lost, driver, ctx, rec, onDoomed>>

\* The process is gone; the cluster is not.
Exited == exit # "none" /\ UNCHANGED vars

Next == (\E p \in Pools : Pool(p) \/ Cluster(p)) \/ Elapse \/ Verdict \/ Exited

Spec == Init /\ [][Next]_vars

\* Every command has a timeout and waitReady a deadline, so a pool moves on, whatever the
\* cluster does; nothing is assumed of the cluster, nor that the duration ever elapses.
FairSpec ==
  /\ Spec
  /\ \A p \in Pools : WF_vars(Pool(p))
  /\ WF_vars(Verdict)

-----------------------------------------------------------------------------
(***************************************************************************)
(* A loss is recorded of a pool only if storage lost content of that pool: *)
(* neither shrinking, whose PVCs go in the background, nor a restarted or  *)
(* slow pod, nor recreating the pool is taken for a loss.  The exception   *)
(* is a key that was written to a volume pxstress itself is deleting: its  *)
(* pod was still up when the pool grew again (line 285, --wait=false).     *)
(***************************************************************************)
NoFalseLoss == \A r \in rec : r.what = "loss" => r.pool \in lost \union onDoomed

(***************************************************************************)
(* "SUCCESS: no data loss or failures across the run" (line 104), as far as *)
(* it is true: a run that reports success has lasted its whole duration,   *)
(* so whatever a pool found before, and whatever stopped it, is reported.  *)
(* A loss found as the duration elapses is not.                            *)
(***************************************************************************)
SuccessRanItsTime == Pools # {} /\ exit = "success" => ctx = "elapsed"

(***************************************************************************)
(* "on the first failure it either stops the whole run" (pxstress:11):     *)
(* with StopOnError, once a failure is recorded all pools end and main     *)
(* exits, however long the run was to last.                                *)
(***************************************************************************)
FirstFailureStops == StopOnError /\ rec # {} ~> exit # "none"
=============================================================================

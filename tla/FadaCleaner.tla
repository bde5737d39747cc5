----------------------------- MODULE FadaCleaner ------------------------------
(***************************************************************************)
(* The cleaner of a node (cmd/fada-cleaner/main.go).  One goroutine runs   *)
(* scans, started by a ticker or by the trigger channel; another watches   *)
(* VolumeAttachments and fills that channel, which holds one trigger.  A   *)
(* scan lists the multipath maps once and then looks at them one by one,   *)
(* command by command, while px and the array go on: every command is a    *)
(* step of its own here.                                                   *)
(*                                                                         *)
(* Maps are those of the vendor the cleaner is for, as parsed from the     *)
(* listing; how it is parsed is in MultipathParse.  Dry runs are left out. *)
(***************************************************************************)
EXTENDS NodeDisks

CONSTANTS
  GracePolls,    \* cfg.gracePolls
  CutListings,   \* a listing may fail part-way
  WatchDrops,    \* the watch stream may end, as often as it likes
  MaxFaults,     \* bound: commands of the cleaner that fail or time out
  MaxRestarts    \* bound: restarts of the cleaner

ASSUME CleanerAssumption ==
  /\ GracePolls \in Nat \ {0}      \* loadConfig takes no less than 1
  /\ CutListings \in BOOLEAN /\ WatchDrops \in BOOLEAN
  /\ MaxFaults \in Nat /\ MaxRestarts \in Nat

VARIABLES
  watching,       \* the watch stream is open
  trigger,        \* the trigger channel holds a trigger
  pc,             \* where the scanning goroutine is
  event,          \* this scan's trigger is not "poll"
  listed,         \* the maps this scan's listing has seen
  todo,           \* the maps it has still to look at, as listed: [wwid, paths]
  cur,            \* the map it looks at
  left,           \* paths of cur still to be probed or deleted
  dev,            \* the path whose state is read next
  anyHealthy,     \* pathsStale's local
  orphanStreak,   \* per volume (0: no entry)
  faults, restarts,
  stillOpen,      \* history: maps open at every moment since this scan's listing
  stillHealthy,   \* history: devices that were a healthy path of their map ever since
  stillOwn,       \* history: maps none of whose paths has served another volume since
  okBefore,       \* history: maps the scan before this one could not find stale
  owed,           \* history: a detach was noticed; no scan for an event has listed the maps since
  dropped         \* history: the trigger of that detach is gone: its listing failed, or a restart

scanVars == <<pc, event, listed, todo, cur, left, dev, anyHealthy, orphanStreak>>
boundVars == <<faults, restarts>>
history == <<stillOpen, stillHealthy, stillOwn, okBefore, owed, dropped>>
vars == <<nodeVars, watching, trigger, scanVars, boundVars, history>>

NoMap == [wwid |-> NoVolume, paths |-> {}]

Init ==
  /\ NodeInit
  /\ watching = FALSE /\ trigger = FALSE
  /\ pc = "wait" /\ event = FALSE
  /\ listed = {} /\ todo = {} /\ cur = NoMap /\ left = {} /\ dev = {}
  /\ anyHealthy = FALSE
  /\ orphanStreak = [w \in Volumes |-> 0]
  /\ faults = 0 /\ restarts = 0
  /\ stillOpen = {} /\ stillHealthy = {} /\ stillOwn = {}
  /\ okBefore = Volumes /\ owed = FALSE /\ dropped = FALSE

-----------------------------------------------------------------------------
healthyPath(w, d) == d \in paths[w] /\ d \in online /\ serves[d] = w

ownPaths(w) == \A d \in paths[w] : inquiry(d) \subseteq {w}

(***************************************************************************)
(* The history since the listing.  Volumes that are opened, devices that   *)
(* become healthy and maps that come clean later do not count.             *)
(***************************************************************************)
Witness ==
  /\ stillOpen' = stillOpen \intersect opened'
  /\ stillHealthy' = {d \in stillHealthy : \E w \in Volumes : healthyPath(w, d)'}
  /\ stillOwn' = {w \in stillOwn : ownPaths(w)'}

\* A scan may not touch the map of w, as far as the node can have told it.
mustKeep(w) ==
  w \in stillOpen \/ (w \in stillOwn /\ paths[w] \intersect stillHealthy # {})

fault == faults < MaxFaults /\ faults' = faults + 1

-----------------------------------------------------------------------------
\* The watch's inner loop is entered and left (it reconnects, in its own time).
WatchOpens ==
  /\ ~watching
  /\ watching' = TRUE
  /\ UNCHANGED <<nodeVars, trigger, scanVars, boundVars, okBefore, owed, dropped>> /\ Witness

WatchEnds ==
  /\ watching /\ WatchDrops
  /\ watching' = FALSE
  /\ UNCHANGED <<nodeVars, trigger, scanVars, boundVars, okBefore, owed, dropped>> /\ Witness

\* Seeded bug: the trigger channel is not buffered.
notified_bug == IF pc = "wait" THEN TRUE ELSE trigger

\* A DELETED event fills the trigger channel; a trigger that is already pending covers it.
notified == TRUE

\* The VolumeAttachment of w is deleted.  The event is missed while the stream is down.
Detached(w) ==
  /\ w \in leaving
  /\ leaving' = leaving \ {w}
  /\ trigger' = (IF watching THEN notified ELSE trigger)
  /\ owed' = (owed \/ watching)
  /\ dropped' = (dropped /\ ~watching)
  /\ UNCHANGED <<attached, serves, online, present, paths, opened, attaches, flaps>>
  /\ UNCHANGED <<watching, scanVars, boundVars, okBefore>> /\ Witness

-----------------------------------------------------------------------------
\* The scan goes on at location to, without a change to the node.
ScanStep(to) ==
  /\ pc' = to
  /\ UNCHANGED <<nodeVars, watching, restarts>>
  /\ Witness

\* What a scan does not touch while it looks at one map.
scanKept == <<trigger, event, listed, okBefore, owed, dropped>>

\* main's select: the ticker ...
Poll ==
  /\ pc = "wait" /\ event' = FALSE
  /\ ScanStep("list")
  /\ UNCHANGED <<trigger, listed, todo, cur, left, dev, anyHealthy, orphanStreak, faults>>
  /\ UNCHANGED <<okBefore, owed, dropped>>

\* ... or the trigger, whose scan gives the kernel 2s first.
Triggered ==
  /\ pc = "wait" /\ trigger
  /\ trigger' = FALSE /\ event' = TRUE
  /\ ScanStep("settle")
  /\ UNCHANGED <<listed, todo, cur, left, dev, anyHealthy, orphanStreak, faults>>
  /\ UNCHANGED <<okBefore, owed, dropped>>

Settled ==
  /\ pc = "settle"
  /\ ScanStep("list")
  /\ UNCHANGED <<scanKept, todo, cur, left, dev, anyHealthy, orphanStreak, faults>>

\* "multipath -ll" has printed the maps ws with the paths listing[w].
Listing(ws, listing) ==
  /\ pc = "list" /\ pc' = "next"
  /\ listed' = ws
  /\ todo' = {[wwid |-> w, paths |-> listing[w]] : w \in ws}
  /\ stillOpen' = opened
  /\ stillHealthy' = {d \in Devices : \E w \in Volumes : healthyPath(w, d)}
  /\ stillOwn' = {w \in present : ownPaths(w)}
  /\ UNCHANGED <<nodeVars, watching, trigger, event, cur, left, dev, anyHealthy, orphanStreak,
                 restarts, okBefore>>

\* The detaches a scan is for are heeded if it lists the maps; if not, their trigger is gone.
Heeded == owed' = (owed /\ ~event) /\ dropped' = (dropped /\ ~event)
Missed == dropped' = (dropped \/ (owed /\ event /\ ~trigger)) /\ UNCHANGED owed

ListMaps == Listing(present, paths) /\ Heeded /\ UNCHANGED faults

\* It fails part-way: what it has printed, to some path of a last map, is taken for all.  The cut
\* may make another device's name of that path's ("sda" of "sdab").
ListCut ==
  /\ CutListings /\ fault /\ Missed
  /\ \/ Listing({}, paths)   \* it has printed no map, perhaps a message: stderr is part of the output
     \/ \E last \in present : \E before \in SUBSET (present \ {last}), ds \in SUBSET paths[last] :
          \E other \in {{}} \union {{d} : d \in Devices} :
            /\ other # {} => ds # paths[last]
            /\ Listing(before \union {last}, [paths EXCEPT ![last] = ds \union other])

\* It fails without output: the scan is over, its trigger is used up, and no streak is touched.
ListFails ==
  /\ pc = "list" /\ fault /\ Missed
  /\ ScanStep("wait")
  /\ UNCHANGED <<trigger, event, listed, todo, cur, left, dev, anyHealthy, orphanStreak, okBefore>>

Visit ==
  /\ pc = "next"
  /\ \E m \in todo : cur' = m /\ todo' = todo \ {m}
  /\ ScanStep("open")
  /\ UNCHANGED <<scanKept, left, dev, anyHealthy, orphanStreak, faults>>

\* openCount says "in use", or cannot tell (-1): dmsetup fails, or the map is gone.
busy ==
  \/ (cur.wwid \in opened \/ cur.wwid \notin present) /\ UNCHANGED faults
  \/ fault

\* Seeded bug: a map in use keeps its streak.
InUse_bug ==
  /\ pc = "open" /\ busy
  /\ ScanStep("next")
  /\ UNCHANGED <<scanKept, todo, cur, left, dev, anyHealthy, orphanStreak>>

InUse ==
  /\ pc = "open" /\ busy
  /\ orphanStreak' = [orphanStreak EXCEPT ![cur.wwid] = 0]
  /\ ScanStep("next")
  /\ UNCHANGED <<scanKept, todo, cur, left, dev, anyHealthy>>

Idle ==
  /\ pc = "open" /\ cur.wwid \in present \ opened
  /\ left' = cur.paths /\ anyHealthy' = FALSE
  /\ ScanStep("probe")
  /\ UNCHANGED <<scanKept, todo, cur, dev, orphanStreak, faults>>

(***************************************************************************)
(* pathsStale asks the next path for its SCSI id.  The id of another       *)
(* volume ends the loop; the map's own id has the path's state read next,  *)
(* in a second command; no answer is a path that is not healthy.           *)
(***************************************************************************)
ProbeId ==
  /\ pc = "probe"
  /\ \E d \in left :
       /\ left' = left \ {d}
       /\ \/ inquiry(d) \ {cur.wwid} # {} /\ ScanStep("stale") /\ UNCHANGED <<dev, faults>>
          \/ inquiry(d) = {cur.wwid} /\ ScanStep("state") /\ dev' = {d} /\ UNCHANGED faults
          \/ inquiry(d) = {} /\ ScanStep("probe") /\ UNCHANGED <<dev, faults>>
          \/ fault /\ ScanStep("probe") /\ UNCHANGED dev
  /\ UNCHANGED <<scanKept, todo, cur, anyHealthy, orphanStreak>>

\* Seeded bug: the last path decides.
ProbeState_bug ==
  /\ pc = "state"
  /\ \/ anyHealthy' = (dev \subseteq online) /\ UNCHANGED faults
     \/ fault /\ UNCHANGED anyHealthy
  /\ dev' = {}
  /\ ScanStep("probe")
  /\ UNCHANGED <<scanKept, todo, cur, left, orphanStreak>>

\* The state of a path with the map's id, "missing" if it cannot be read: one that is running
\* makes the map healthy.
ProbeState ==
  /\ pc = "state"
  /\ \/ anyHealthy' = (anyHealthy \/ dev \subseteq online) /\ UNCHANGED faults
     \/ fault /\ UNCHANGED anyHealthy
  /\ dev' = {}
  /\ ScanStep("probe")
  /\ UNCHANGED <<scanKept, todo, cur, left, orphanStreak>>

\* All paths were probed: a map with a healthy path is left alone.
Probed ==
  /\ pc = "probe" /\ left = {}
  /\ orphanStreak' = [orphanStreak EXCEPT ![cur.wwid] = IF anyHealthy THEN 0 ELSE @]
  /\ ScanStep(IF anyHealthy THEN "next" ELSE "stale")
  /\ UNCHANGED <<scanKept, todo, cur, left, dev, anyHealthy, faults>>

\* Seeded bug: one more poll than configured.
graceOver_bug(n) == event \/ n > GracePolls

\* A detach event needs no streak.
graceOver(n) == event \/ n >= GracePolls

Stale ==
  /\ pc = "stale"
  /\ orphanStreak' = [orphanStreak EXCEPT ![cur.wwid] = @ + 1]
  /\ left' = {}
  /\ ScanStep(IF graceOver(orphanStreak[cur.wwid] + 1) THEN "flush" ELSE "next")
  /\ UNCHANGED <<scanKept, todo, cur, dev, anyHealthy, faults>>

\* fullDisconnect goes on at location to, with what it has done to the node.
DisconnectStep(to) ==
  /\ pc' = to
  /\ UNCHANGED <<watching, scanKept, todo, cur, dev, anyHealthy, orphanStreak, restarts>>
  /\ Witness

\* "multipath -f": it fails if the map is open (or at all), and is then only warned about.
FlushMap ==
  /\ pc = "flush"
  /\ left' = cur.paths
  /\ \/ cur.wwid \notin opened /\ RemoveMap(cur.wwid) /\ UNCHANGED faults
     \/ cur.wwid \in opened /\ UNCHANGED <<nodeVars, faults>>
     \/ fault /\ UNCHANGED nodeVars
  /\ DisconnectStep("delete")

\* The listed paths are deleted one by one, whatever became of the map.
DeletePath ==
  /\ pc = "delete"
  /\ \E d \in left :
       /\ left' = left \ {d}
       /\ \/ RemoveDevice(d) /\ UNCHANGED faults
          \/ fault /\ UNCHANGED nodeVars
  /\ DisconnectStep("delete")

Disconnected ==
  /\ pc = "delete" /\ left = {}
  /\ orphanStreak' = [orphanStreak EXCEPT ![cur.wwid] = 0]
  /\ ScanStep("next")
  /\ UNCHANGED <<scanKept, todo, cur, left, dev, anyHealthy, faults>>

\* Seeded bug: the streaks of the maps that were seen are dropped.
unseen_bug(w) == w \in listed

unseen(w) == w \notin listed

\* The scan ends: maps that are gone lose their streaks.
EndScan ==
  /\ pc = "next" /\ todo = {}
  /\ orphanStreak' = [w \in Volumes |-> IF unseen(w) THEN 0 ELSE orphanStreak[w]]
  /\ okBefore' = {w \in Volumes : mustKeep(w) \/ w \notin listed}
  /\ listed' = {} /\ cur' = NoMap
  /\ ScanStep("wait")
  /\ UNCHANGED <<trigger, event, owed, dropped, todo, left, dev, anyHealthy, faults>>

\* The pod is restarted: streaks, trigger and a disconnect half done are forgotten.
Restart ==
  /\ restarts < MaxRestarts
  /\ restarts' = restarts + 1
  /\ watching' = FALSE /\ trigger' = FALSE
  /\ pc' = "wait" /\ event' = FALSE /\ listed' = {} /\ todo' = {} /\ cur' = NoMap
  /\ left' = {} /\ dev' = {} /\ anyHealthy' = FALSE
  /\ orphanStreak' = [w \in Volumes |-> 0]
  /\ okBefore' = Volumes /\ dropped' = owed
  /\ UNCHANGED <<nodeVars, faults, owed>>
  /\ Witness

-----------------------------------------------------------------------------
\* Every step of the scanning goroutine.
Scan ==
  \/ Poll \/ Triggered \/ Settled \/ ListMaps \/ ListCut \/ ListFails
  \/ Visit \/ InUse \/ Idle
  \/ ProbeId \/ ProbeState \/ Probed \/ Stale \/ FlushMap \/ DeletePath \/ Disconnected \/ EndScan

Node ==
  /\ NodeStep
  /\ UNCHANGED <<watching, trigger, scanVars, boundVars, okBefore, owed, dropped>>
  /\ Witness

Next ==
  \/ Scan \/ Restart \/ Node \/ WatchOpens \/ WatchEnds
  \/ \E w \in Volumes : Detached(w)

Spec == Init /\ [][Next]_vars

\* The ticker keeps ticking and every command ends (hostCmd gives it 15s).
FairSpec == Spec /\ WF_vars(Scan)

-----------------------------------------------------------------------------
TypeOK ==
  /\ NodeTypeOK
  /\ watching \in BOOLEAN /\ trigger \in BOOLEAN /\ event \in BOOLEAN /\ anyHealthy \in BOOLEAN
  /\ pc \in {"wait", "settle", "list", "next", "open", "probe", "state", "stale", "flush", "delete"}
  /\ listed \subseteq Volumes
  /\ cur \in [wwid : Volumes, paths : SUBSET Devices] \union {NoMap}
  /\ todo \subseteq [wwid : Volumes, paths : SUBSET Devices]
  /\ left \subseteq Devices /\ dev \subseteq Devices
  /\ orphanStreak \in [Volumes -> 0 .. GracePolls]
  /\ faults \in 0 .. MaxFaults /\ restarts \in 0 .. MaxRestarts
  /\ stillOpen \subseteq Volumes /\ stillHealthy \subseteq Devices /\ stillOwn \subseteq Volumes
  /\ okBefore \subseteq Volumes /\ owed \in BOOLEAN /\ dropped \in BOOLEAN

(***************************************************************************)
(* "A healthy-but-briefly-unmounted map ... is never touched", nor is one  *)
(* that was open all along: while a scan lasts, no path is taken from a    *)
(* map that has been open, or has had a healthy path and none of another   *)
(* volume, ever since the maps were listed, whatever the node does between *)
(* the scan's commands.                                                    *)
(***************************************************************************)
HealthyUntouched ==
  [][\A w \in Volumes : mustKeep(w) => paths[w] \subseteq paths'[w]]_vars

(***************************************************************************)
(* "In-use volumes (open count > 0) are never touched": no path is taken   *)
(* from a map that is open when it is taken.                               *)
(***************************************************************************)
InUseUntouched ==
  [][\A w \in opened : paths[w] \subseteq paths'[w]]_vars

(***************************************************************************)
(* A poll "must persist across the grace streak": it disconnects no map    *)
(* that the scan before it cannot have found stale, because it was open,   *)
(* healthy or not there all the time.                                      *)
(***************************************************************************)
GraceKept ==
  [][pc = "stale" /\ pc' = "flush" /\ ~event => cur.wwid \notin okBefore]_vars

(***************************************************************************)
(* A detach that was noticed has a scan of its own, a detach event's, that *)
(* lists the maps after it, also if it came while a scan was under way or  *)
(* a trigger was pending.  Its trigger is lost in two ways only: the scan  *)
(* it started could not list the maps, or the cleaner was restarted; the   *)
(* detach is then left to the polls and their grace.                       *)
(***************************************************************************)
EventHeeded == owed => trigger \/ (event /\ pc \in {"settle", "list"}) \/ dropped

(***************************************************************************)
(* What px leaves behind goes: the map of a volume that stays detached is  *)
(* removed in the end, also when its event is missed, commands fail or the *)
(* cleaner restarts.                                                       *)
(***************************************************************************)
LeftMapsGone == <>[](present \subseteq attached)
=============================================================================

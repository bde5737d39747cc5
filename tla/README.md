# A verification project for px-smt-multirealm-shim

TLA+ modules, TLC configurations and TLAPS proofs about the shim that lets
Portworx (px) attach FlashArray volumes of several realms, about the node agent
`fada-cleaner` that completes px's disconnects, and about `pxstress`, the driver
that looks for lost data. Paths below are those of the repository.

## 1. The system

px talks to a FlashArray through the shim, with a token that is good for one
realm. A realm may not own initiators (IQNs, WWNs, NQNs) that belong to an
array-level host, so px's own "realm host" (`realm::worker0-<uid>`) can never
have any. The shim makes px believe it does. It answers px's `PATCH /hosts`
itself, injects the initiators of the node's array-level host into
`GET /hosts`, and makes px's `/connections` calls on the array-level host with
the array-admin token, after granting that host access into the realm. It maps
the array host's name back to px's name in what px gets to read. If it fails
to, px derives a new name from the array host's, deletes the connection and
makes it again under another LUN, and data is lost.

On each node the cleaner looks for multipath maps that px left behind and
disconnects them: flush of the map, deletion of its SCSI devices. Otherwise the
array gives the LUN to another volume, and the old device serves it.

px also takes two realms on one array for one backend. With
`SHIM_ARRAY_IDENTITY` the shim shows px another array behind each FQDN, and maps
px's queries back. `pxstress` churns volumes on a cluster and reads back what
it wrote.

| component | state | operations | talks to |
|---|---|---|---|
| `Rewriter` (`internal/proxy/rewrite.go`) | `byArrayHost`: array host -> px's name; `granted`: pairs cached; `byNode` (constant) | `Intercept`: `getHostSynth`, `patchHostInitiators`, `connection`, `ensureRealmAccess`; `ModifyResponse`: `ModifyHostsResponse`, `mapConnHostsBack` | px (HTTP handlers, any number at a time), the array through `arraySession` or the reverse proxy |
| `arraySession` (`array.go`) | `auth`, guarded by a mutex for single accesses | `login`, `validate`, `token`, `do` | the array; all handlers share it |
| `arrayIdentity` (`arrayident.go`) | the real id and name, fetched once, and a mutex | `ensure`, `synth`, rewriting of bodies and queries | the array, `ModifyResponse`, `RewriteRequest`; all handlers share it |
| reverse proxy (`proxy.go`) | none | `ServeHTTP`: `Intercept`, else proxy and `ModifyResponse`; `ErrorHandler` | px, the array |
| server (`cmd/px-smt-multirealm-shim`) | none | start, shutdown with 20s of grace | signals |
| `config` | constants for a run | `FromEnv` | environment, the mounted secret |
| `fada-cleaner` scan | `orphanStreak`, the trigger channel | `scanAndClean`, `pathsStale`, `fullDisconnect` | the node's `multipath`, `dmsetup`, `scsi_id`, `/sys` |
| `fada-cleaner` watch | the stream | `watchVolumeAttachments` | the API server; fills the trigger channel |
| `parseMultipath` | the map being read | a line automaton over `multipath -ll` | scan |
| `pxstress` | per pool: its size and the keys it expects; shared: the context, the recorder | `runPool`: `ensure`, `scale`, `deletePVCsFrom`, `reconcileIntegrity`, `killAndVerify`, `recreate` | a cluster, through `oc` |
| `fa_provision.py` | none | hosts, realms, pods, grants, admins | the array |

What makes it correct, and what makes it hard:

- **Rewriter.** px sees its own names only; what it is told was done was done;
  the initiators it sees and the connections it gets are those of one node; no
  connection is refused for want of a grant; and what px keeps asking for
  happens. Hard: requests interleave at every call and at every access to two
  lock-free maps; the maps live in memory only; calls are lost, time out, and
  are executed after their timeout; px retries; Go's map order is random;
  names are matched by prefix.
- **arraySession.** One call of `do` is one call to the array, or none. Hard:
  the token is read twice, logins run side by side, the array ends sessions,
  a call is made twice after a 401.
- **fada-cleaner.** A map that is in use or healthy is left alone; a map left
  behind goes in the end; no detach event is lost between scans. Hard: a scan is
  dozens of commands, and px, the kernel and the array act between any two of
  them; commands fail or time out; watch events are lost; the pod restarts.
- **arrayIdentity and the server.** px never takes two FQDNs for one array; its
  queries reach the array with the array's own identity; requests are answered.
  Hard: the cache is filled by whoever needs it first, with the mutex held over
  an array call that may fail; a restart empties it while px remembers what it
  was shown; the bodies of px's requests and of responses have no timeout; a drain has
  one.
- **pxstress.** What it reports as lost is lost, and success is reported only when the
  run has lasted its time. Hard: pods, their status and deleted volumes lag behind the commands;
  one pool's failure ends the context under the others; so does the duration.
- **parseMultipath.** A map is given its own paths, since they are deleted with
  it. Hard: headers have several forms, and a listing may end anywhere.

`PROJECT.json` lists these hazards at their lines.

## 2. Modules

```
 HostNames  <-- FlashArray <-- Rewriter <-- MCRewriter
 (names,        (external)     ^  ^---------- RewriterProofs <-- ConnectionProofs
  resolve)      Attachment ----'
                (abstract)
 ArrayCall  <-- ArraySession <-- MCArraySession
 (abstract)          ^------------ ArraySessionProofs
 ArrayIdentity  <-- ShimServer <-- MCShimServer
                     ^------------ ShimServerProofs
 NodeDisks  <-- FadaCleaner  <-- MCFadaCleaner
 (external)          ^------------ FadaCleanerProofs <-- FadaCleanerSafetyProofs
 MultipathParse <-- MCMultipathParse, MultipathParseProofs
 PxStress       <-- MCPxStress, PxStressProofs
```

**HostNames** holds `resolve` and its helpers. The code compares strings; a
name is here a record of its realm and of the parts between its dashes, so
that "equal to `node` or starting with `node-`" is being a prefix of parts.
`resolve` is the set of mappings that match: the code returns the first it
meets in Go's random map order.

**FlashArray** is the array as the shim's calls use it: hosts, accesses,
connections, what an answer tells the caller. It is not in the repository; its
answers are those the code, its comments and its tests distinguish. What an
operator does is taken from `scripts/fa_provision.py`, a call at a time: a host is
created and later granted an access; to remove one, its connections are deleted
one by one, and then the host, which the array refuses while px has it connected.

**Rewriter** has one thread per request in the shim. `Send` is the handler up
to its first call; `GrantCached` to `GrantError` are `ensureRealmAccess`,
`AnswerConnection` the rest of `connection`; `EmptyHosts`, `ForwardAsIs`,
`BeginRewrite`, `InjectItem`, `MapBackItem`, `EndRewrite` are `ModifyResponse`.
The loops take a step per item, since they read or write `byArrayHost` item by
item while other handlers do. `ArrayExec`, `ArrayRefuse`, `CallLost` and
`LateExec` are the outcomes of a call, `Restart` the end of the process,
`Reprovision` an operator. The calls the shim has given up are a bag (`late`), so two
identical ones may both arrive. `Provisioned` are the array hosts there are when
the shim starts. `met` and `shown` are history.

**Attachment** is what px may rely on when it connects and disconnects: a
command is asked, takes effect atomically at one of the places its name stands
for, or is refused, and is answered; when something is lost px gets an error, and
the order has had its effect, never will, or stays in the bag `left` and may
still arrive. Grants, array host names, pass-throughs, "already exists" and second
calls are absent from it. `CommandsTakeEffectOnce == Promised!Spec`, with `Promised` an
instance of Attachment under the mapping `order`, `phase`, `left` (and
`attached <- conns`), says that Rewriter implements it. That nothing else may
change `attached` (but an operator who deletes a connection) is part of it.

**ArrayCall** is what a caller of `arraySession.do` relies on: a call is asked,
carried out at most once, and returned, failed, or left with the array.
**ArraySession** is `do` itself with its logins and tokens. `AtMostOnce ==
Promise!Spec`, with `Promise` an instance of ArrayCall under the mapping
`phase`, says that the latter implements the former. Rewriter models `do` as one
call on the strength of that.

**ArrayIdentity** is the cache and its mutex: `EnsureLock` begins the array call
with the mutex held, `FetchOk` and `FetchFails` end it, `SynthRead` looks at the
cache under the mutex once more. An identity is a name and an id; `replaceAll`
is what `strings.ReplaceAll` does to a text that holds them. **ShimServer** has
a handler's way through `proxy.go`: `Accept`, the reading of px's body
(`drainBody`, after which it goes on by `Intercept`, `MapQuery` or `Proxy`, also
if the reading failed), and the two uses of `synth`, for the query and for the
response; and the process around it: `Signal`, `Drained`, `DrainTimeout`,
`Crash`, `Boot`. What px was last shown behind each FQDN (`shown`) survives the
process and comes back in px's queries. `missed` and `exposed` are history:
whose identity call failed, and where px was told so.

**NodeDisks** is a node: devices, what they serve, maps and their paths, open
maps, and the steps of px, the kernel and the array. A device left behind
(`NoVolume`) may be given to the next volume that is attached. **FadaCleaner**
adds the cleaner's two goroutines. Every command of a scan is a step of its
own: the listing, the open count, each path's id and each path's state, the
flush, each deletion. A listing that fails after some output is taken for a
whole one, as `scanAndClean` does (`ListCut`): it may end between any two maps or
paths, within the name of a path, which may then be another device's ("sda" of
"sdab"), or before the first map (a message on stderr is output too, since `hostCmd`
combines the two). One that fails without output ends the scan, and its trigger
is used up (`ListFails`). `stillOpen`, `stillHealthy` and `stillOwn` are history: what has
held ever since this scan's listing; so are `okBefore`, `owed` (a detach was noticed,
and no scan for an event has listed the maps since) and `dropped` (its trigger was
lost to a listing that failed or to a restart).

**MultipathParse** is `parseMultipath`, a line per step: what the three
regular expressions make of a line, and the map being read. The command that
prints the lines is part of it (`follows`): a map's lines come after its
header. Headers that no expression matches (a WWID that is not a long
hexadecimal number) are lines like any other to the parser. `Reading` says what a
listing means, by all its headers.

**PxStress** has a goroutine per pool, a command per step. `Apply`, `Scale`,
`Recreate` change the cluster and wait (`Ready`, `GiveUp`); `DeletePVC`, `Put`
and `Get` are the loops over ordinals; `Kill` and `Verify` are
`killAndVerify`; `Fail` and `Cancel` are the `fail` closure, whose two effects
another pool may come between. The cluster is external: pods come up and go
down in their own time, the status lags behind them, deleted PVCs go when no pod
uses them, and `Loss` is storage handing out a volume without its key. `lost`
and `onDoomed` are history.

Definitions whose name ends in `_bug` are plausible mistakes in the definition
they precede; nothing uses them. Putting one in the place of its original must
break the property `PROJECT.json` names for it, which shows that the property
can fail.

## 3. Runs

`tlc -workers 2 -config <cfg> <module>`.

| run | what it asks | instance |
|---|---|---|
| `MCRewriter_attach` | `TypeOK`; `NoArrayHostLeak`: no connection listing px gets holds an array host name; `SameNode`: the initiators shown for a name are those of the host its connections are made on; `ConnectedAsMapped`: no connection on a mapped realm host; `AckedWasConnected`: px is told of success only if the connection existed since its request came in; `CommandsTakeEffectOnce` (refinement): each connect or disconnect of px is one atomic command | 2 nodes, 1 realm, 1 volume, 2 threads, 9 kinds of request, one array host still to be created, one act of an operator on array hosts, accesses or connections; 0.36M states |
| `MCRewriter_retry` | `GrantedBeforeConnect`: no connection of the shim is refused for want of a grant; `CachedMeansGranted`; `AckedWasConnected`; `CommandsTakeEffectOnce`; `EventuallyConnected` and `LeakHeals` under fairness | 1 node, 1 volume, 2 threads, 2 lost, late or refused calls, 1 restart; 0.11M states |
| `MCArraySession_do` | `TypeOK`, `AtMostOnce` (refinement), `OneExpiryIsHidden`: one ended session costs no caller an error; `SessionHeals` under fairness | 2 callers, 3 tokens, 3 expiries, 1 fault, 1 restart; 0.4M states |
| `MCFadaCleaner_scan` | `TypeOK`; `HealthyUntouched`: a scan takes no path from a map that has been open, or healthy and clean, ever since it listed the maps; `GraceKept`: a poll disconnects nothing the scan before it cannot have found stale | 2 volumes, 2 devices, 2 paths each, 3 attachments, 1 flap, no failing command; 2.06M states |
| `MCFadaCleaner_left` | `EventHeeded`: a noticed detach has a scan of its own that lists the maps, unless that listing fails or the cleaner restarts; `LeftMapsGone` under fairness | 2 volumes, 2 devices, 1 failing command or cut listing, a watch that is dropped any number of times, 1 restart; 1.09M states |
| `MCShimServer_serve` | `TypeOK`; `DistinctArrays`: px is not shown one array behind two FQDNs, unless identity calls failed under its last answers on both; `MappedBack`: a query reaches the array with the array's identity, unless its request's identity call failed; `AnsweredOrHung` under fairness: a request ends, or is in its own or its response's body | 2 handlers, 2 FQDNs, identity calls that fail at any time, the process stopped once; 0.13M states |
| `MCPxStress_stress` | `TypeOK`; `NoFalseLoss`: a recorded loss is one of storage, or of a volume the pool was deleting when it wrote its key; `SuccessRanItsTime`: success is reported only once the duration has elapsed; `FirstFailureStops` under fairness | 2 pools of 1 to 2 instances, recreated after every second cycle (the default), any command failing, 1 fault of the cluster; 0.45M states |

The bounds let each hazard happen at least once, together with one
interfering actor. Two threads suffice for a check and a use that race; two
nodes whose names share a part are needed for a wrong prefix match, a third
name without a mapping for a pass-through; one fault followed by a retry and a
late execution is the shape of every duplicated call, and a second one gives up an
identical call; one act of an operator is enough to take a connection or an array
host away under a request (a whole removal, of the connections and then of the
host, takes more: there the theorem `ConnectionsAreAtomic` stands alone); a third
expiry finds a session that two slow logins have both tried to replace; three
attachments of two volumes on two devices give a LUN away and take it back; two
handlers are one that holds the identity mutex and one that waits; two pools are one
that fails and one that is stopped. Symmetry is used for threads, volumes and devices in the runs without liveness, where they are
interchangeable. Deadlock is checked in every run but `listing`, where a listing
ends.

Five further runs check what the repository's own text says against what the
code does, and fail:

| run | text | what happens |
|---|---|---|
| `MCRewriter_realms` | `README.md:51` "Portworx only ever sees its own realm host" | `byArrayHost` has one name per array host; with two realms on a node, the last one used is shown to both. |
| `MCRewriter_poison` | `rewrite.go:281` "a 400 that mentions the grant already exists" | "does not exist" contains "exist" as well. The array host is not there when the shim asks for its access, and the refusal is cached, in a state without any fault or act of an operator; when the host is created later, its connections are refused and no grant is asked for. |
| `MCFadaCleaner_inuse` | `README.md:85` "In-use volumes ... are never touched" | the map is opened after its open count was read; `multipath -f` fails and is only logged; the paths are deleted under the open map. |
| `MCFadaCleaner_hiccup` | `main.go:20` "A healthy-but-briefly-unmounted map ... is never touched" | a `scsi_id` that fails or times out counts as a path that is not healthy. `openCount` is careful about this (-1), `scsiID` is not. A listing cut off before a map's paths does the same (`CutListings`). |
| `MCMultipathParse_listing` | `main.go:53` "Paths ... backing sd device names" | neither expression matches the second header, so the path below it is counted to the first map: its id makes that map stale, and it is deleted with it. |

`CachedMeansGranted` passes in `retry` and fails in `poison`: it needs an array
host that is missing when the shim asks for the grant (`Provisioned` is empty in
`poison`). `OwnPaths` needs a header the parser does not know: without one it is
the theorem `PathsAreOwn`. `OwnRealmOnly` fails in `realms` only because two
realms share a node: the theorem `RealmsKeptApart` is about every host map where
they do not. No run connects under a name without a mapping (it passes through
to the array); the theorems about `ConnectedAsMapped`, `AckedWasConnected` and
`CommandsTakeEffectOnce` have no such limit. `HealthyUntouched` passes in `scan`
and fails in `hiccup`: it needs a failing command. `SameNode` is about maps in
which no node is a prefix of another, in the runs as in its theorem; with others
`resolve` answers at random. Other disagreements have no run of their own:

- A restarted shim has no names, and a listing by volume shows px the array host
  (`rewrite.go:176` "px only ever sees its own names"). `NoArrayHostLeak` holds
  in `attach`, which has no restart, and fails with one; `LeakHeals` says how
  long, until px names its host or lists its hosts.
- Two first attaches both issue the grant (`rewrite.go:42` says "at most once";
  the array takes the second as "already exists").
- A slow listing may store an older name over a newer one (`rewrite.go:406`).
- A cleaner that is restarted between the flush of a map and the deletions leaves
  devices in no map, which no scan lists (`main.go:16` "delete every backing
  SCSI device"); a re-attachment between listing and flush leaves the path that
  the rescan added in the same place.
- A drain ends after 20s and cuts the calls still under way
  (`cmd/px-smt-multirealm-shim/main.go:53` "not cut mid-response").
- A `multipath -ll` that fails without output has used up the trigger of the detach
  it was for (`main.go:236-239`): the map waits for the polls and their grace
  (`main.go:17` "we react immediately"). `EventHeeded` has it as an exception.
- pxstress drops a loss it finds as its duration elapses, and reports success
  (`cmd/pxstress/main.go:117`, against line 5-6 "any FADA data loss under churn is
  caught"); no property excludes it.
- pxstress's own background deletion of a PVC can take a key it has just written, which
  it reports as a loss (`cmd/pxstress/main.go:285`); `NoFalseLoss` has it as an exception.

### Fairness

`Rewriter!FairSpec`: each handler runs on (a goroutine that is not waiting is
scheduled, and a waiting one has a client timeout of 30s or 60s); each request
of px is made again and again (px retries). A fault or restart is never required
to happen, and never forbidden while its bound allows it. `ShimServer!FairSpec`:
calls to the array and its answers' headers are bounded by timeouts, so a fetch
and a wait for headers end in one way or another; the mutex is handed to whoever
has waited longest (Go's `sync.Mutex` goes into starvation mode after 1ms),
which is strong fairness of the two steps that take it, since it is free only
now and then. Nothing is assumed of a body, px's or the array's, of px, or of
the process. `PxStress!FairSpec`: a pool moves on, because every command has
`cmdTimeout` and every wait its deadline; nothing is assumed of the cluster, nor
that the duration ever elapses. `ArraySession!FairSpec`: a call under way goes
on, by an answer or by its timeout. `FadaCleaner!FairSpec`: the ticker keeps
ticking and every command ends (`hostCmd` gives it 15s; it kills `nsenter`, and
whether that ends the command `nsenter` has forked, and closes its output, is
assumed). Nothing is assumed of the watch stream: the poll must do alone, as it
does when the ServiceAccount token the agent has read once has expired.

### What the models abstract from

- Response bodies are the sets of host items in them. A body cut short in
  transit (`do` ignores `io.ReadAll`'s error) is not modelled.
- Comma-separated names, a name with an empty realm (`::x`) and a `PATCH`
  that adds nothing are not among px's requests; the last two go
  different ways in the code.
- Rewriter does not have the synthetic array identity, nor ShimServer what
  Rewriter does: the one replaces array names and ids in bodies and queries, the
  other host names, and they share no state but `arraySession`.
- In ArrayIdentity the array is never renamed, and hashes of FQDNs do not
  collide. Two FQDNs with one first label share a synthetic name;
  `DistinctArrays` says so.
- In PxStress instances are at least one (`StressAssumption`; pool sizes are
  flags whose defaults are 1, 3 and 5), an `oc` command takes effect at once or
  fails, and neither the cluster nor the variables of a pool that has failed or
  ended are followed.
- MultipathParse has no map names, aliases or vendors; FadaCleaner has the maps of the
  vendor it is for, under headers the parser knows.
- In NodeDisks a volume cannot be detached while it is open, and a map's
  WWID never changes. Device names are reused only after their deletion.
- Tokens come from a finite set; one that nobody remembers may be issued again.
- `GraceKept` says something for `GracePolls` of 2 or more (2 is the default).

## 4. Proofs

Checked by `tlapm`, for every value of the constants that satisfies the
assumptions named in the modules.

| theorem | says | along |
|---|---|---|
| `RewriterProofs!TypeCorrect` | `Spec => []TypeOK` | `Typed == TypeOK /\ Placed`: where a handler stands tells which call it is about to make; without it the call of a `"grant"` step could be anything |
| `RewriterProofs!GrantFirst` | `GrantedBeforeConnect`, if `MaxReprovisions = 0` and `Provisioned = ArrayHosts` | `GrantInv`: what is cached is granted; a handler past `ensureRealmAccess`, and every connect call given up, has its pair granted. Grants only grow, so late calls are harmless |
| `RewriterProofs!CacheSound` | `CachedMeansGranted`, under the same conditions | the same; array hosts exist, so a 400 with "exist" does mean the access is there |
| `RewriterProofs!ResolveUnique` | with `PrefixFree`, `resolve` has at most one match | prefixes of one sequence are prefixes of each other |
| `RewriterProofs!OwnNamesInListings` | `NoArrayHostLeak`, if the shim does not restart, the host map is `PrefixFree` and px names its own hosts | `LeakInv`: an array host with a connection, or about to get one, has a name recorded. `ResolveUnique` makes the host learned the host called |
| `ArraySessionProofs!SessionTypeCorrect` | `Spec => []TypeOK` | `SessionInv`: a call past its login has been preceded by a store, so the token it reads is one |
| `ArraySessionProofs!DoIsOneCall` | `Spec => AtMostOnce` | `SessionInv`: a call that is still to be answered, or left with the array, has not been carried out. Each step is a step of `ArrayCall` or changes none of its variables |
| `ArraySessionProofs!ExpiryHidden` | `OneExpiryIsHidden` | `ExpiryInv`: after one ended session at most one token that anyone still remembers is dead, and a rejected call has used it; a token about to be stored is known to nobody else, so from the second login on no call uses the dead one |
| `ConnectionProofs!AcksAreTrue` | `AckedWasConnected` | `AckInv`: a handler that holds the array's success for a connect call has met the connection since its request was accepted |
| `ConnectionProofs!ConnectionsAreMapped` | `ConnectedAsMapped` | `MapInv`: every connection, and every connect call under way or given up, is on an array host, or on a realm host that has no mapping |
| `ConnectionProofs!InitiatorsMatch` | `SameNode`, if the host map is `PrefixFree` | `NodeInv`: what is injected for a name, and the calls made for it, are of an array host `resolve` gives for it; `ResolveUnique` leaves one |
| `ConnectionProofs!RealmsKeptApart` | `OwnRealmOnly`, if no array host serves two realms | `RealmInv`: connections, calls (late ones too), learned names and the items of an answer are of the realm of their volume, or on an array host that serves it |
| `ConnectionProofs!ConnectionsAreAtomic` | `Spec => CommandsTakeEffectOnce` | `CommandInv`: the call a handler makes for a command is the command's, on a host its name stands for. `ArrayExec` is `Do` or `Refuse`, `LateExec` is `Arrive`, `Restart` is `Break` of the waiting threads; the steps of `ensureRealmAccess` and of listings change nothing |
| `FadaCleanerProofs!CleanerTypeCorrect` | `TypeOK` | `StreakInv`: a streak is at its limit only for the map being disconnected, so it is reset before it grows again |
| `FadaCleanerSafetyProofs!HealthyMapsUntouched` | `HealthyUntouched`, if `MaxFaults = 0` | `SafeInv`: no device is in two maps; a listing stays good for the maps not yet visited, since the node only adds devices that were not there (`Calm`); what is left to be probed covers every path that has stayed healthy, so a map found stale need not be kept, and never needs to again |
| `FadaCleanerSafetyProofs!PollsKeepGrace` | `GraceKept`, if `MaxFaults = 0` and `GracePolls >= 2` | `GraceInv`: a map that must be kept has no streak once the scan has decided about it, nor has one that was fine in the scan before until it is decided about |
| `ShimServerProofs!Typed` | `TypeOK` | an invariant with the two below |
| `ShimServerProofs!QueriesMapped` | `MappedBack` | `Sound`: a handler out of `synth` knows the identity, or its own call failed; `Mapped`: a query carries the array's identity or that of its FQDN |
| `ShimServerProofs!ArraysDistinct` | `DistinctArrays` | `Mapped`: px is shown the FQDN's identity, or the array's behind FQDNs in `exposed` only |
| `PxStressProofs!Typed` | `TypeOK` | with `Placed`, where a pool is in its cycle |
| `PxStressProofs!LossesAreReal` | `NoFalseLoss` | `Keys`: what a pool expects is on its volumes and these are not being deleted, unless storage lost a key of the pool or it wrote to a volume being deleted |
| `PxStressProofs!SuccessIsHonest` | `SuccessRanItsTime` | `Heard`: a pool ends without having failed only after the context is done, and only a recorded failure cancels it |
| `FadaCleanerProofs!NoEventLost` | `EventHeeded` | inductive as it stands, with a case for each way a trigger is used |
| `MultipathParseProofs!ParsedFaithfully` | `ParsedAsPrinted`: if all the headers of a listing are known, also of one that ends early, the maps returned are those it says | `ReadInv`: what has been read of a listing is at every line what a reading of its whole prefix gives; a further line adds one to the headers counted so far, or to the paths of the last of them |
| `MultipathParseProofs!PathsAreOwn` | `Spec => [](AllKnown => OwnPaths)` | `ParseInv`: the map being read is the one the last line printed belongs to, as long as every header is known |

The conditions are necessary: `poison` has a counterexample for `CacheSound`
where the array hosts are not there at first, `listing` one for `PathsAreOwn`
with an odd header, `realms` one for `RealmsKeptApart` with a shared node,
`hiccup` one for `HealthyMapsUntouched` with a failing command, and a restart is
one for `OwnNamesInListings`.

Every invariant and both refinements the passing runs check are theorems, some under
the conditions above. Only
model-checked: the liveness properties (`EventuallyConnected`, `LeakHeals`,
`SessionHeals`, `LeftMapsGone`, `AnsweredOrHung`, `FirstFailureStops`), which
rest on fairness and ENABLED, out of the prover's reach.

## 5. Not modelled

- `config.go` beyond the host map, and the configuration of `fada-cleaner`:
  inputs read once at the start, without later state. What they guarantee is in
  the named assumptions (`CleanerAssumption`: a grace of at least 1).
- `log.go` and capture output, TLS and certificates: pure I/O.
- `fa_provision.py` beyond array hosts and grants: a sequence of calls made once,
  by hand, before the system runs.
- Manifests and scenario scripts: no control flow of their own.
- px itself. Rewriter takes its requests from a set, and NodeDisks its attachments
  as steps of the node. A composition of Rewriter and NodeDisks would say
  whether the churn of LUNs (the reason for the shim) is closed end to end; it
  would have to model px's attacher, of which the repository has only an account
  in prose.
- Renewal of realm hosts by px, array renames, the kernel's choice of a path:
  behaviour outside of the repository that some hazards in `PROJECT.json` would
  need.

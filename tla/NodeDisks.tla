------------------------------ MODULE NodeDisks ------------------------------
(***************************************************************************)
(* A worker node as the cleaner (cmd/fada-cleaner) finds it: the SCSI      *)
(* devices of the kernel, the multipath maps built from them, and what px  *)
(* and the array do to them meanwhile.  None of it is in the repository;   *)
(* it is modelled from the cleaner's commands and the README's account of  *)
(* LUN recycling.                                                          *)
(*                                                                         *)
(* A detached volume leaves its map and its devices behind.  When the      *)
(* array gives the freed LUN to another volume, the device left behind     *)
(* serves that volume, inside the map of the old one.                      *)
(***************************************************************************)
EXTENDS Naturals, FiniteSets

CONSTANTS
  Volumes, Devices,
  NoVolume,     \* what a device serves when the array presents nothing at its LUN
  NoDevice,     \* ... and when the device does not exist
  PathsPerVolume,
  MaxAttaches,  \* bound: attachments of a volume to the node
  MaxFlaps      \* bound: paths that go down

ASSUME NodeAssumption ==
  /\ NoVolume \notin Volumes /\ NoDevice \notin Volumes /\ NoVolume # NoDevice
  /\ PathsPerVolume \in Nat /\ MaxAttaches \in Nat /\ MaxFlaps \in Nat

VARIABLES
  attached,   \* volumes the array presents to the node
  leaving,    \* volumes detached whose VolumeAttachment is not yet deleted
  serves,     \* per device: the volume it serves
  online,     \* devices that answer
  present,    \* the volumes (WWIDs) that have a multipath map
  paths,      \* per volume: the devices of its map
  opened,     \* maps with an open count above 0
  attaches, flaps

nodeVars == <<attached, leaving, serves, online, present, paths, opened, attaches, flaps>>

NodeInit ==
  /\ attached = {} /\ leaving = {} /\ present = {} /\ opened = {} /\ online = {}
  /\ serves = [d \in Devices |-> NoDevice]
  /\ paths = [w \in Volumes |-> {}]
  /\ attaches = 0 /\ flaps = 0

NodeTypeOK ==
  /\ attached \subseteq Volumes /\ leaving \subseteq Volumes \ attached
  /\ serves \in [Devices -> Volumes \union {NoVolume, NoDevice}]
  /\ online \subseteq Devices
  /\ present \subseteq Volumes /\ opened \subseteq present
  /\ paths \in [Volumes -> SUBSET Devices]
  /\ \A w \in Volumes : \A d \in paths[w] : serves[d] # NoDevice
  /\ \A w \in Volumes \ present : paths[w] = {}

\* What a SCSI INQUIRY of device d says: the volume, or nothing.
inquiry(d) == IF d \in online /\ serves[d] \in Volumes THEN {serves[d]} ELSE {}

\* The array connects w; a device left behind at the LUN it chooses serves w from now on.
Attach(w) ==
  /\ w \notin attached \union leaving /\ attaches < MaxAttaches
  /\ attaches' = attaches + 1
  /\ attached' = attached \union {w}
  /\ serves' \in {serves} \union {[serves EXCEPT ![d] = w] : d \in {d \in Devices : serves[d] = NoVolume}}
  /\ UNCHANGED <<leaving, online, present, paths, opened, flaps>>

\* A rescan finds another device of w, and multipathd adds it to w's map.
Discover(w, d) ==
  /\ w \in attached /\ serves[d] = NoDevice
  /\ Cardinality({e \in Devices : serves[e] = w}) < PathsPerVolume
  /\ serves' = [serves EXCEPT ![d] = w]
  /\ online' = online \union {d}
  /\ present' = present \union {w}
  /\ paths' = [paths EXCEPT ![w] = @ \union {d}]
  /\ UNCHANGED <<attached, leaving, opened, attaches, flaps>>

\* px opens the map of an attached volume, whatever its paths serve, and closes it.
Mount(w) ==
  /\ w \in attached /\ paths[w] # {} /\ w \notin opened
  /\ opened' = opened \union {w}
  /\ UNCHANGED <<attached, leaving, serves, online, present, paths, attaches, flaps>>

Unmount(w) ==
  /\ w \in opened
  /\ opened' = opened \ {w}
  /\ UNCHANGED <<attached, leaving, serves, online, present, paths, attaches, flaps>>

\* px disconnects w at the array and leaves the node as it is.
Detach(w) ==
  /\ w \in attached \ opened
  /\ attached' = attached \ {w}
  /\ leaving' = leaving \union {w}
  /\ serves' = [d \in Devices |-> IF serves[d] = w THEN NoVolume ELSE serves[d]]
  /\ UNCHANGED <<online, present, paths, opened, attaches, flaps>>

PathDown(d) ==
  /\ d \in online /\ flaps < MaxFlaps
  /\ online' = online \ {d} /\ flaps' = flaps + 1
  /\ UNCHANGED <<attached, leaving, serves, present, paths, opened, attaches>>

PathUp(d) ==
  /\ d \notin online /\ serves[d] # NoDevice
  /\ online' = online \union {d}
  /\ UNCHANGED <<attached, leaving, serves, present, paths, opened, attaches, flaps>>

\* "multipath -f": the map of w goes, unless it is open; its devices stay.
RemoveMap(w) ==
  /\ present' = present \ {w}
  /\ paths' = [paths EXCEPT ![w] = {}]
  /\ UNCHANGED <<attached, leaving, serves, online, opened, attaches, flaps>>

\* "echo 1 > .../delete": the device goes, out of whatever map it is in, open or not.
RemoveDevice(d) ==
  /\ serves' = [serves EXCEPT ![d] = NoDevice]
  /\ online' = online \ {d}
  /\ paths' = [w \in Volumes |-> paths[w] \ {d}]
  /\ UNCHANGED <<attached, leaving, present, opened, attaches, flaps>>

\* What goes on without the cleaner.
NodeStep ==
  \/ \E w \in Volumes : Attach(w) \/ Mount(w) \/ Unmount(w) \/ Detach(w)
                        \/ \E d \in Devices : Discover(w, d)
  \/ \E d \in Devices : PathDown(d) \/ PathUp(d)
=============================================================================

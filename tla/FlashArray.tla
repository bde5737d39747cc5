------------------------------ MODULE FlashArray -----------------------------
(***************************************************************************)
(* The FlashArray as the shim's calls use it: realm hosts px creates,      *)
(* array-level hosts an operator provisions, the resource accesses that    *)
(* let an array-level host into a realm, and host-volume connections.      *)
(* The array is not part of the repository; its answers are those the      *)
(* code, its comments and its tests tell apart.                            *)
(***************************************************************************)
EXTENDS HostNames, FiniteSets

CONSTANTS
  Volumes,    \* volumes px connects
  NoVolume,   \* a call that names no volume
  volRealm    \* [Volumes -> Realms]: the realm (or its pod) a volume lives in

ASSUME VolumesAssumption ==
  /\ NoVolume \notin Volumes
  /\ volRealm \in [Volumes -> Realms]

VARIABLES
  hosts,       \* realm hosts that exist on the array
  arrayHosts,  \* array-level hosts that exist (the parts of their names)
  grants,      \* resource accesses: pairs <<array host, realm>>
  conns        \* connections: [host, vol]

arrayVars == <<hosts, arrayHosts, grants, conns>>

\* What a call asks of the array.
Ops == {"createHost", "deleteHost", "patchHost", "listHosts",
        "grant", "connect", "disconnect", "listConnections"}

(***************************************************************************)
(* What an answer tells the shim.  "exists" is a 400 "... already exists", *)
(* "absent" a 400 "... does not exist", "nomatch" the 400 "No matching     *)
(* hosts found" of an empty host listing, "noaccess" the refusal to        *)
(* connect a volume of a realm the host has no access to, "refused" any    *)
(* other answer that says the call was not carried out.                    *)
(***************************************************************************)
Answers == {"ok", "exists", "absent", "nomatch", "noaccess", "refused"}

Conn(c) == [host |-> c.host, vol |-> c.vol]

exists(h) == IF isRealmHost(h) THEN h \in hosts ELSE h.rest \in arrayHosts

\* A realm host is inside its own realm; an array-level host needs a grant.
hasAccess(h, realm) ==
  IF isRealmHost(h) THEN h.realm = realm ELSE <<h.rest, realm>> \in grants

\* The realm hosts a GET /hosts with names=h returns (px's token sees realm hosts only).
listed(h) ==
  {x \in hosts : h = NoHost \/ x = h \/ (isWild(h) /\ x.realm = h.realm)}

\* The hosts in the connections a GET /connections filtered by c's host or volume returns.
connectedHosts(c) ==
  {k.host : k \in {k \in conns : /\ c.host \in {NoHost, k.host}
                                 /\ c.vol \in {NoVolume, k.vol}}}

\* The array carries call c out.
succeeds(c) ==
  \/ c.op = "createHost" /\ ~exists(c.host)
  \/ c.op = "deleteHost" /\ exists(c.host) /\ \A k \in conns : k.host # c.host
  \/ c.op = "listHosts" /\ (listed(c.host) # {} \/ c.host = NoHost)
  \/ c.op = "grant" /\ exists(c.host) /\ <<c.host.rest, c.realm>> \notin grants
  \/ c.op = "connect" /\ exists(c.host) /\ hasAccess(c.host, volRealm[c.vol])
                      /\ Conn(c) \notin conns
  \/ c.op = "disconnect" /\ Conn(c) \in conns
  \/ c.op = "listConnections" /\ (c.host = NoHost \/ exists(c.host))

\* Its answer.  A patchHost is refused: the initiators belong to the array-level host.
outcome(c) ==
  IF succeeds(c) THEN "ok"
  ELSE IF c.op = "listHosts" THEN "nomatch"
  ELSE IF c.op \in {"deleteHost", "patchHost"} THEN "refused"
  ELSE IF c.op = "disconnect" \/ (c.op # "createHost" /\ ~exists(c.host)) THEN "absent"
  ELSE IF c.op = "connect" /\ ~hasAccess(c.host, volRealm[c.vol]) THEN "noaccess"
  ELSE "exists"

\* The host names in the body of the answer.
mentioned(c) ==
  IF c.op = "listHosts" THEN listed(c.host)
  ELSE IF c.op = "listConnections" THEN connectedHosts(c)
  ELSE IF c.op = "connect" /\ succeeds(c) THEN {c.host}
  ELSE {}

\* The array carries out call c, atomically.
Execute(c) ==
  LET done(op) == c.op = op /\ succeeds(c) IN
  /\ hosts' = (IF done("deleteHost") THEN hosts \ {c.host} ELSE hosts)
                \union (IF done("createHost") THEN {c.host} ELSE {})
  /\ grants' = grants \union (IF done("grant") THEN {<<c.host.rest, c.realm>>} ELSE {})
  /\ conns' = (IF done("disconnect") THEN conns \ {Conn(c)} ELSE conns)
                \union (IF done("connect") THEN {Conn(c)} ELSE {})
  /\ UNCHANGED arrayHosts

\* An operator creates an array-level host (scripts/fa_provision.py), as yet without access ...
Provision(a) ==
  /\ a \notin arrayHosts
  /\ arrayHosts' = arrayHosts \union {a}
  /\ UNCHANGED <<hosts, grants, conns>>

\* ... and grants it access into a realm, in a later call of the same script.
OperatorGrant(a, realm) ==
  /\ a \in arrayHosts
  /\ <<a, realm>> \notin grants
  /\ grants' = grants \union {<<a, realm>>}
  /\ UNCHANGED <<hosts, arrayHosts, conns>>

\* An operator removes an array-level host: the script deletes its connections one by one ...
OperatorDisconnect(k) ==
  /\ k \in conns /\ ~isRealmHost(k.host)
  /\ conns' = conns \ {k}
  /\ UNCHANGED <<hosts, arrayHosts, grants>>

\* ... and then the host, which the array refuses while px has it connected; its accesses go with it.
Deprovision(a) ==
  /\ a \in arrayHosts /\ \A k \in conns : k.host # ArrayLevel(a)
  /\ arrayHosts' = arrayHosts \ {a}
  /\ grants' = {g \in grants : g[1] # a}
  /\ UNCHANGED <<hosts, conns>>

=============================================================================

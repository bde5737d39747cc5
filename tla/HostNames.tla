------------------------------ MODULE HostNames ------------------------------
(***************************************************************************)
(* Host names as the Rewriter reads them (internal/proxy/rewrite.go), and  *)
(* the static node -> array-host map it resolves them with.                *)
(*                                                                         *)
(* The code works on strings, splitting a name at its first "::" and       *)
(* comparing what follows with "<node>", "<node>-" and "<arrayHost>".  A   *)
(* name is here a record: realm is what precedes the "::" (NoRealm when    *)
(* there is none) and rest is what follows, split at its dashes into a     *)
(* sequence of parts.  For strings joined with "-", being equal to node or *)
(* having the prefix node \o "-" is the same as node's parts being a       *)
(* prefix of the name's parts, so nothing the code tells apart is lost.    *)
(***************************************************************************)
EXTENDS Sequences, Naturals

CONSTANTS
  Realms,     \* realm names; "" (no realm) is not one of them
  NoRealm,    \* the realm of an array-level name
  Hosts       \* cfg.Hosts: the sequence of [node, arrayHost] mappings

\* Nodes and array hosts are written in parts, too: <<"worker", "0">>.
ASSUME HostsAssumption ==
  /\ NoRealm \notin Realms
  /\ Hosts \in Seq([node : Seq(STRING) \ {<<>>}, arrayHost : Seq(STRING) \ {<<>>}])

-----------------------------------------------------------------------------
\* The array-level host name written with the parts h.
ArrayLevel(h) == [realm |-> NoRealm, rest |-> h]

isRealmHost(name) == name.realm # NoRealm

\* A request that names no host; as a value of byArrayHost, "no entry".
NoHost == ArrayLevel(<<>>)

\* The wildcard "<realm>::*" of a host listing.
Wild(realm) == [realm |-> realm, rest |-> <<"*">>]

isWild(name) == name.rest = <<"*">>

\* Seeded bug: the last part of the node name is not compared.
Prefix_bug(p, s) == Len(p) <= Len(s) /\ \A i \in 1 .. Len(p) - 1 : p[i] = s[i]

\* The parts p are the first parts of s.
Prefix(p, s) == Len(p) <= Len(s) /\ \A i \in 1 .. Len(p) : p[i] = s[i]

(***************************************************************************)
(* NewRewriter fills byNode from cfg.Hosts in order, so the last mapping   *)
(* of a node wins.                                                         *)
(***************************************************************************)
byNode ==
  {Hosts[i] : i \in {i \in DOMAIN Hosts :
                       \A j \in DOMAIN Hosts : Hosts[j].node = Hosts[i].node => j <= i}}

ArrayHosts == {h.arrayHost : h \in byNode}

\* The match resolve tries for one mapping.
matches(rest, h) == Prefix(h.node, rest) \/ rest = h.arrayHost

(***************************************************************************)
(* resolve: the mappings a realm host name can be resolved to.  The code   *)
(* returns the first match while it ranges over a Go map, whose order is   *)
(* random: with more than one match any of them may be returned, and two   *)
(* calls for the same name may differ.  The empty set is the code's nil.   *)
(***************************************************************************)
resolve(name) ==
  IF isRealmHost(name) THEN {h \in byNode : matches(name.rest, h)} ELSE {}

\* The form "<realm>::<arrayHost>" px derives from a leaked array host name.
doublePrefixed(name, h) == name.rest = h.arrayHost

\* realmOf: "" (NoRealm) for an array-level name.
realmOf(name) == name.realm

(***************************************************************************)
(* The host map tells nodes apart: no node is a prefix of another node or  *)
(* of another mapping's array host, and no two mappings share an array     *)
(* host.  Nothing in the code checks this of the secret it is given; the   *)
(* README's example map has it.                                            *)
(***************************************************************************)
PrefixFree ==
  \A h, g \in byNode : h # g =>
    /\ ~Prefix(h.node, g.node)
    /\ ~Prefix(h.node, g.arrayHost)
    /\ h.arrayHost # g.arrayHost
=============================================================================

------------------------------ MODULE MCRewriter -----------------------------
(***************************************************************************)
(* Instances of Rewriter for TLC: two nodes whose names share their first  *)
(* part, one or two realms, and the requests px makes while it attaches    *)
(* volumes to nodes.                                                       *)
(***************************************************************************)
EXTENDS Rewriter, TLC

CONSTANTS r1, r2, v1, v2, t1, t2

MCHosts ==
  <<[node |-> <<"worker", "0">>, arrayHost |-> <<"ocp", "worker", "0">>],
    [node |-> <<"worker", "1">>, arrayHost |-> <<"ocp", "worker", "1">>]>>

\* The second node's array host has still to be created.
FirstProvisioned == {MCHosts[1].arrayHost}

MCOneHost == <<MCHosts[1]>>

Realm(r, rest) == [realm |-> r, rest |-> rest]

\* The realm host px made for node n (random suffix s), and the double-prefixed form.
px(r, n, s) == Realm(r, <<"worker", n, s>>)
doubled(r, n) == Realm(r, <<"ocp", "worker", n>>)
unmapped(r) == Realm(r, <<"worker", "9", "a">>)

OnHosts(m, h) == [method |-> m, path |-> "hosts", host |-> h, vol |-> NoVolume]
OnConns(m, h, v) == [method |-> m, path |-> "connections", host |-> h, vol |-> v]

OneRealmVolumes == v1 :> r1
TwoRealmVolumes == (v1 :> r1) @@ (v2 :> r2)

\* What px does to attach v1 to two nodes and detach it again, with the name it
\* derives for a node; worker 9 has no mapping.
AttachRequests ==
  {OnHosts("GET", Wild(r1)), OnHosts("GET", doubled(r1, "0")),
   OnHosts("POST", px(r1, "0", "a")), OnHosts("PATCH", px(r1, "0", "a")),
   OnConns("DELETE", px(r1, "0", "a"), v1),
   OnConns("POST", px(r1, "0", "a"), v1), OnConns("POST", px(r1, "1", "a"), v1),
   OnConns("GET", NoHost, v1),
   OnHosts("POST", unmapped(r1))}

\* A volume is connected, and listed.
ListingRequests ==
  {OnConns("POST", px(r1, "0", "a"), v1), OnConns("GET", NoHost, v1)}

\* The node's realm hosts of two realms.
TwoRealmRequests ==
  {OnConns("POST", px(r1, "0", "a"), v1), OnConns("POST", px(r2, "0", "b"), v2),
   OnConns("GET", NoHost, v1)}

Symmetry == Permutations({t1, t2})

=============================================================================

----------------------------- MODULE MCShimServer ----------------------------
(***************************************************************************)
(* Two requests at a time on two FQDNs with labels of their own.           *)
(***************************************************************************)
EXTENDS ShimServer

CONSTANTS fa, fb

MCLabel == [f \in FQDNs |-> IF f = fa THEN "a" ELSE "b"]
=============================================================================

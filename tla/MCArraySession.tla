--------------------------- MODULE MCArraySession ----------------------------
(***************************************************************************)
(* Instances of ArraySession for TLC: two calls to do side by side, and    *)
(* one token more than anybody can know of when a login is answered.       *)
(***************************************************************************)
EXTENDS ArraySession, TLC

CONSTANTS c1, c2, k1, k2, k3
=============================================================================

------------------------------ MODULE MCPxStress -----------------------------
(***************************************************************************)
(* Two pools that shrink and grow between one and two instances.           *)
(***************************************************************************)
EXTENDS PxStress

CONSTANTS p1, p2
=============================================================================

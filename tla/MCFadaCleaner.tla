---------------------------- MODULE MCFadaCleaner ----------------------------
(***************************************************************************)
(* Instances of FadaCleaner for TLC: two volumes with up to two paths each *)
(* on a node with one or two device names.                                 *)
(***************************************************************************)
EXTENDS FadaCleaner, TLC

CONSTANTS v1, v2, d1, d2

Symmetry == Permutations(Volumes) \union Permutations(Devices)
=============================================================================

--------------------------- MODULE MCMultipathParse ---------------------------
(***************************************************************************)
(* Instances of MultipathParse for TLC: every listing of three maps with   *)
(* up to seven lines.                                                      *)
(***************************************************************************)
EXTENDS MultipathParse, TLC

CONSTANTS m1, m2, m3

Symmetry == Permutations(Maps)
=============================================================================

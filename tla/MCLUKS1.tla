------------------------------- MODULE MCLUKS1 -------------------------------
(* Small instances of LUKS1 for TLC.                                       *)
EXTENDS LUKS1

MCSymmetry == Permutations(Pass)
=============================================================================

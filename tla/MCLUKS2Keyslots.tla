--------------------------- MODULE MCLUKS2Keyslots ---------------------------
(* Small instances of LUKS2Keyslots for TLC.                               *)
EXTENDS LUKS2Keyslots, TLC

MCAreaLen == [v \in Key |-> IF v = FirstKey THEN 1 ELSE 2]
MCSymmetry == Permutations(Ctx) \cup Permutations(Pass)
=============================================================================

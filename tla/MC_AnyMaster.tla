---------------------------- MODULE MC_AnyMaster ----------------------------
(* The arm controller under any master, for TLC.                           *)
EXTENDS AnyMaster

MCIdMod == 2

MCSlots == {1}

MCBadSlot == 0

MCPoints == {1}
=============================================================================

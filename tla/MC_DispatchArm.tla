--------------------------- MODULE MC_DispatchArm ----------------------------
(* The dispatcher's transport and the arm, for TLC.                        *)
EXTENDS DispatchArm

MCSlots == {1}

MCPoints == {1}
=============================================================================

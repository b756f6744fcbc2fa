--------------------------- MODULE MC_RackDispatch ---------------------------
(* The dispatcher between objects, rack and arm, for TLC.                  *)
EXTENDS RackDispatch

CONSTANTS circle, square

MCSlots == 1 .. 2

MCShapes == {circle, square}

MCColumnOf == [s \in MCSlots |-> circle]
=============================================================================

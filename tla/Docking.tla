------------------------------- MODULE Docking -------------------------------
(* The last centimetres of a drive (docking_compute of docking.c).  One call  *)
(* of the controller takes what it sees of the goal to its next state and to  *)
(* a command: a straight move, a turn, or done.                               *)
EXTENDS Naturals

CONSTANTS ApproachSteps,   \* approach_max_steps
          ApproachStall,   \* approach_stall_limit
          TurnSteps,       \* max_rotation_steps
          TurnStall        \* turns without improvement

\* docking_init, docking_reset.
docking_reset ==
  [mode |-> "approach", steps |-> 0, stall |-> 0, turning |-> TRUE, side |-> "none",
   flips |-> 0, turns |-> 0, noGain |-> 0]

\* What a call may see: how far the goal is, whether it came nearer, whether the
\* car points at the goal (approach) or along the goal heading (close, turn), and
\* on which side of it the car is along that heading.
DockSight ==
  [range : {"far", "close", "there"}, nearer : BOOLEAN, straight : BOOLEAN,
   along : {"before", "at", "past"}]

Command(d, c) == [dock |-> d, command |-> c]
position_reached(d) == d.mode = "turn"

\* At the position: turn to the goal heading; give up turning that gains nothing.
\* The counters of the approach are not read again.
FinalTurn(d, o) ==
  LET noGain == IF o.nearer THEN 0 ELSE d.noGain + 1
      next == [docking_reset EXCEPT !.mode = "turn", !.noGain = noGain, !.turns = d.turns + 1]
  IN Command(next, IF o.straight \/ noGain = TurnStall \/ next.turns > TurnSteps
                   THEN "done" ELSE "turn")

\* Near the goal: turn to its heading, then move along it; overshooting it twice
\* ends the approach.  The steps of the approach are not counted here.
CloseIn(d, o) ==
  LET flip == o.along # "at" /\ d.side \notin {"none", o.along}
      next == [d EXCEPT !.side = IF o.along = "at" THEN @ ELSE o.along,
                        !.flips = IF flip THEN @ + 1 ELSE @]
  IN IF ~o.straight THEN Command(d, "turn")
     ELSE IF next.flips >= 2 \/ o.along = "at" THEN FinalTurn(next, o)
     ELSE Command(next, "straight")

\* Far from it: turn towards it, then go straight; too many steps, or too many
\* straight ones without progress, and the position counts as reached.
Approach(d, o) ==
  LET stall == IF d.turning \/ o.nearer THEN d.stall ELSE d.stall + 1
      next == [d EXCEPT !.steps = @ + 1,
                        !.stall = IF d.turning THEN @
                                  ELSE IF o.nearer THEN 0 ELSE stall % ApproachStall,
                        !.turning = ~o.straight,
                        !.mode = IF d.steps + 1 > ApproachSteps \/ stall = ApproachStall
                                 THEN "turn" ELSE @]
  IN Command(next, IF o.straight THEN "straight" ELSE "turn")

docking_compute(d, o) ==
  IF position_reached(d) \/ o.range = "there" THEN FinalTurn(d, o)
  ELSE LET near == IF o.range = "close" /\ d.mode = "approach"
                   THEN [docking_reset EXCEPT !.mode = "close"] ELSE d
       IN IF near.mode = "close" THEN CloseIn(near, o) ELSE Approach(near, o)
=============================================================================

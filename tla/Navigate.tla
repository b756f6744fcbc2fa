------------------------------ MODULE Navigate -------------------------------
(* Driving one leg (robot_navigate.c) with the route follower it asks for its *)
(* commands (dynamic_navigator.c, docking.c): stop and look, or cruise on     *)
(* with the latest scan; find the pose again when lost; push the car free     *)
(* when it is stuck.  Poses, paths, speeds and clearances are left out.       *)
EXTENDS SlotAlign, Docking

CONSTANTS Drives,          \* of "hybrid", "stop", "cruise": the ways of driving
          LostSteps,       \* steps of a bad fit before the car counts as lost
          LostGap,         \* steps between two searches of the whole map
          StuckEscape, StuckSteps,   \* NAV_STUCK_ESCAPE_AT, NAV_STUCK_STEPS
          StuckEscapes,    \* NAV_STUCK_MAX_ESCAPES
          BlindSteps,      \* NAV_BLIND_RELOC_AT
          ClearEscapes, ClearCooldown   \* ROT_CLEAR_MAX_ESCAPES, ROT_ESCAPE_COOLDOWN

navigate_one_leg(drive) ==
  [at |-> "nav", drive |-> drive, lost |-> 0, gap |-> LostGap + 1, stuck |-> 0, ref |-> FALSE,
   tries |-> 0, blind |-> 0, turned |-> TRUE, escapes |-> 0, cooldown |-> 0,
   docking |-> FALSE, dock |-> docking_reset]

NavStep(f) == [f EXCEPT !.at = "nav", !.gap = Smaller(LostGap + 1, @ + 1)]
NavFresh(f) == [f EXCEPT !.at = "nav", !.stuck = 0, !.ref = FALSE]

\* nav__observe: the car stands for the look after a turn and while it docks.
need_stop(f) == \/ f.turned \/ f.drive = "stop"
                \/ f.docking /\ f.dock.mode # "approach"
\* nav__watch_lost.
Lost(f, asked) == (f.lost = LostSteps \/ asked) /\ f.gap > LostGap

\* Mutant: a car that is lost searches the map while it drives on.
SearchMoving == UNCHANGED moving

SearchStanding == Stand

NavObserve ==
  /\ At("nav") /\ Top.drive # "cruise" /\ Keep
  /\ IF ~take_scan THEN Return("no") /\ Stand
     ELSE \E fits, asked \in BOOLEAN :
            LET f == [Top EXCEPT !.lost = IF fits THEN 0 ELSE Smaller(LostSteps, @ + 1)]
            IN IF Lost(f, asked)
               THEN /\ SearchStanding
                    /\ Call(relocalize_global, [f EXCEPT !.at = "nav found", !.gap = 0, !.lost = 0])
               ELSE /\ IF need_stop(f) THEN Stand ELSE UNCHANGED moving
                    /\ Become([f EXCEPT !.at = "nav go"])
NavFound ==
  /\ At("nav found") /\ UNCHANGED moving /\ Keep
  /\ Become(IF result = "yes" THEN NavStep([NavFresh(Top) EXCEPT !.turned = TRUE])
            ELSE [Top EXCEPT !.at = "nav go"])

\* The finish box ends the leg; then nav__watch_stuck: a car that does not move
\* looks whether it is blocked or blind, and pushes itself free if it is blocked.
StillHere(f) ==
  LET next == NavStep(NavFresh(f))
  IN \/ /\ Stand                      \* the scan changes and the pose does not
        /\ Call(relocalize_global, [next EXCEPT !.blind = 0])
     \/ IF f.blind + 1 = BlindSteps
        THEN Stand /\ Call(relocalize_global, [next EXCEPT !.blind = 0])
        ELSE UNCHANGED moving /\ Become([next EXCEPT !.blind = @ + 1])
     \/ /\ UNCHANGED moving
        /\ Call(escape_to_open, [f EXCEPT !.at = "nav freed", !.tries = @ + 1])
NavGo ==
  /\ At("nav go") /\ Keep
  /\ \/ Return("yes") /\ Stand
     \/ \E moved \in IF Top.ref THEN {"none", "some", "much"} ELSE {"none"} :
          LET cooler == [Top EXCEPT !.cooldown = IF @ > 0 THEN @ - 1 ELSE 0,
                                    !.ref = TRUE, !.at = "nav drive"]
              f == IF moved = "none"
                   THEN [cooler EXCEPT !.stuck = Smaller(StuckSteps, @ + 1)]
                   ELSE [cooler EXCEPT !.stuck = 0, !.blind = 0,
                           !.tries = IF moved = "much" /\ @ > 0 THEN @ - 1 ELSE @]
          IN IF moved = "none" /\ f.stuck >= StuckEscape /\ f.tries < StuckEscapes
             THEN StillHere(f)
             ELSE IF f.stuck = StuckSteps THEN Return("no") /\ Stand
             ELSE UNCHANGED moving /\ Become(f)
NavFreed ==
  /\ At("nav freed") /\ UNCHANGED moving /\ Keep
  /\ IF result = "yes" THEN Call(relocalize_after_move, NavFresh(Top))
     ELSE Call(corner_escape, [Top EXCEPT !.at = "nav cornered"])
NavCornered ==
  /\ At("nav cornered") /\ UNCHANGED moving /\ Keep
  /\ Call(relocalize_after_move,
          [NavFresh(Top) EXCEPT !.tries = IF result = "yes" THEN @ ELSE StuckEscapes])

\* A command of the route follower: on straight, or a turn, which is taken in one
\* sweep, or step by step; a turn with no room pushes the car to a freer place.
Straight(f) == moving' = TRUE /\ Become(NavStep([f EXCEPT !.turned = FALSE]))
Turned(f) == NavStep([f EXCEPT !.turned = TRUE])
MayEscape(f) == f.cooldown = 0 /\ f.escapes < ClearEscapes
TrySweep(f) == ~f.docking /\ sweep_rotate(Turned(f))
TurnStep(f) == /\ moving' = TRUE
               /\ \/ Become([Turned(f) EXCEPT !.escapes = 0])
                  \/ ~MayEscape(f) /\ Become(Turned(f))
NoRoom(f) == MayEscape(f) /\ Stand
             /\ Call(escape_to_open, [f EXCEPT !.at = "nav room", !.escapes = @ + 1,
                                               !.cooldown = ClearCooldown])
Turn(f) == TrySweep(f) \/ TurnStep(f) \/ NoRoom(f)
NavRoom ==
  LET next == IF result = "yes" THEN NavFresh(Top) ELSE Top
  IN /\ At("nav room") /\ UNCHANGED moving /\ Keep
     /\ Call(relocalize_after_move, NavStep([next EXCEPT !.turned = TRUE]))

\* dynnav_update: follow the route; near its end dock, once begun to the end; a
\* route used up far from the goal makes the goal unreachable.
Arrive(r) == Return(r) /\ Stand
FollowRoute ==
  /\ ~Top.docking
  /\ \/ Straight(Top) \/ Turn(Top) \/ Arrive("yes") \/ Arrive("unreachable")
     \/ Become(NavStep(Top)) /\ UNCHANGED moving            \* a new route, no command
DockStep ==
  \E o \in DockSight :
    LET c == docking_compute(Top.dock, o)
        f == [Top EXCEPT !.docking = TRUE, !.dock = c.dock]
    IN \/ c.command = "done" /\ Arrive("yes")
       \/ c.command = "straight" /\ Straight(f)
       \/ c.command = "turn" /\ Turn(f)
NavDrive == At("nav drive") /\ Keep /\ (FollowRoute \/ DockStep)
\* nav__cruise_loop: every command goes out as it comes, the wheels never stop.
NavCruise ==
  /\ At("nav") /\ Top.drive = "cruise" /\ Keep
  /\ IF stop THEN Return("no") /\ Stand
     ELSE Arrive("yes") \/ Arrive("unreachable") \/ (moving' \in BOOLEAN /\ Become(Top))

NavigateNext == NavObserve \/ NavFound \/ NavGo \/ NavFreed \/ NavCornered \/ NavRoom
                \/ NavDrive \/ NavCruise
=============================================================================

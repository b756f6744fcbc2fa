------------------------------- MODULE Maneuver ------------------------------
(* What the mission of the shuttle relies on in the routines that move the    *)
(* car, each of which is called, works for a while and returns a result.      *)

CONSTANTS Plain,       \* the maneuvers that return yes or no
          Sure,        \* the ones that never fail
          Unbounded    \* the ones that may go on for ever unless they are stopped

Maneuvers == Plain \cup Sure \cup Unbounded

VARIABLES moving,      \* a wheel is commanded
          stop,        \* Ctrl+C was pressed
          running,     \* the maneuver that runs, or "none"
          result,      \* of the last maneuver, once it has ended
          locating,    \* a search of the map reads the scan
          noWall,      \* the last drive into a slot has told that it met no wall
          ground       \* what it had seen to take the car to be in the slot

maneuverVars == <<moving, stop, running, result, locating, noWall, ground>>

Results(m) == IF m \in Sure THEN {"yes"}
              ELSE IF m \in Unbounded THEN {"yes", "no", "unreachable"} ELSE {"yes", "no"}

\* Contact with the wall at the end of the slot, or the walls at both sides of the car.
Grounds == {"nothing", "wall", "sides"}

\* Only a drive into a slot says anything of it.
Walls(m) == IF m = "drive in" THEN noWall' \in BOOLEAN /\ ground' \in Grounds
                              ELSE UNCHANGED <<noWall, ground>>

Begin(m) ==
  /\ running = "none" /\ running' = m
  /\ result' = "none" /\ locating' \in BOOLEAN
  /\ UNCHANGED <<moving, stop, noWall, ground>>

\* A search of the map is made with the wheels at rest.
Work ==
  /\ running # "none" /\ Walls(running)
  /\ moving' \in BOOLEAN /\ locating' \in BOOLEAN
  /\ locating' => ~moving'
  /\ UNCHANGED <<stop, running, result>>

\* A maneuver leaves the wheels at rest; a drive in that succeeds has seen that the
\* car is in a slot, or has told that it met no wall.
End(r) ==
  /\ running # "none" /\ r \in Results(running) /\ Walls(running)
  /\ running = "drive in" /\ r = "yes" => ground' # "nothing" \/ noWall'
  /\ running' = "none" /\ result' = r /\ moving' = FALSE /\ locating' = FALSE
  /\ UNCHANGED stop

Interrupt ==
  /\ stop' = TRUE
  /\ UNCHANGED <<moving, running, result, locating, noWall, ground>>

ManeuverInit ==
  /\ moving = FALSE /\ stop = FALSE /\ running = "none" /\ result = "none"
  /\ locating = FALSE /\ noWall = FALSE /\ ground = "nothing"

ManeuverNext ==
  \/ \E m \in Maneuvers : Begin(m)
  \/ Work \/ Interrupt
  \/ \E r \in {"yes", "no", "unreachable"} : End(r)

\* A maneuver ends; one that is unbounded, when it is told to stop.
Ends == (running # "none" /\ (stop \/ running \notin Unbounded)) ~> (running = "none")

ManeuverSpec == ManeuverInit /\ [][ManeuverNext]_maneuverVars /\ Ends
=============================================================================

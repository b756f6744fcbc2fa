------------------------------ MODULE Maneuvers ------------------------------
(* The routines of the shuttle program that move the car, called as the       *)
(* mission calls them, and the contract the mission relies on, which they     *)
(* implement.                                                                 *)
EXTENDS Navigate

VARIABLE running        \* the routine the mission has called, or "none"

vars == <<routineVars, running>>

\* The calls the mission makes, by the names the contract gives them.
Routine(m) ==
  CASE m = "navigate"    -> {navigate_one_leg(d) : d \in Drives}
    [] m = "align"       -> {slot_align}
    [] m = "lateral"     -> {slot_lateral_align}
    [] m = "trim"        -> {slot_lane_trim}
    [] m = "room"        -> {ensure_rotation_room}
    [] m = "good pose"   -> {require_good_pose}
    [] m = "find pose"   -> {relocalize_global}
    [] m = "escape"      -> {escape_to_open}
    [] m = "drive in"    -> {slot_drive(TRUE, r) : r \in BOOLEAN}
    [] m = "drive out"   -> {slot_drive(FALSE, r) : r \in BOOLEAN}
    [] m = "seat"        -> {slot_seat}
    [] m = "confirm"     -> {slot_confirm_park}

Plain == {"align", "lateral", "room", "good pose", "find pose", "escape", "drive in",
          "drive out", "confirm"}
Sure == {"trim", "seat"}
Unbounded == {"navigate"}

\* One call a behaviour: a routine starts where any call of it does, the wheels at
\* rest, and what it leaves behind is the state the next one starts in.
CallRoutine(m) ==
  /\ running = "none" /\ running' = m
  /\ result = "none"
  /\ \E frame \in Routine(m) : stack' = <<frame>>
  /\ result' = "none" /\ UNCHANGED <<moving, stop, noWall, ground>>

Go ==
  /\ EscapeNext \/ SlotDriveNext \/ SlotAlignNext \/ NavigateNext
  /\ running' = IF stack' = <<>> THEN "none" ELSE running

Init ==
  /\ moving = FALSE /\ stop = FALSE /\ stack = <<>> /\ result = "none"
  /\ noWall = FALSE /\ ground = "nothing" /\ running = "none"

Next ==
  \/ \E m \in Plain \cup Sure \cup Unbounded : CallRoutine(m)
  \/ Go
  \/ robot_handle_sigint /\ UNCHANGED running

\* The thread runs on: every routine takes its next step.
Spec == Init /\ [][Next]_vars /\ WF_vars(Go)

-----------------------------------------------------------------------------
\* Every routine keeps the contract: it returns with the wheels at rest, it
\* searches the map only with the wheels at rest, and every one of them ends, a leg
\* of navigation once Ctrl+C is pressed.  A drive into the slot that succeeds was
\* stopped by the wall while the car sat straight, or the lidar saw the walls of a
\* slot at both sides of the car, or it has raised slot_no_wall: pressed past the
\* depth it may stand without contact (robot_slot_drive.c:450-483).
Contract == INSTANCE Maneuver WITH
  result <- IF stack = <<>> THEN result ELSE "none",
  locating <- At("global") \/ At("wide")
KeepsContract == Contract!ManeuverSpec
=============================================================================

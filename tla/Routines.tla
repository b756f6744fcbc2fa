------------------------------ MODULE Routines -------------------------------
(* The shuttle program (rc_shuttle) is one thread: routines that call each    *)
(* other, command the wheels, sleep, and look.  A routine is a frame of the   *)
(* stack: a record with the place it stands at and its loop counters.         *)
EXTENDS Naturals, Sequences

VARIABLES moving,      \* fpga_link_set_speed: some wheel is commanded
          stop,        \* g_stop_requested: Ctrl+C
          stack,       \* the routines that run, the called one first
          result,      \* what the last routine returned
          noWall,      \* robot_runner__slot_no_wall
          ground       \* ghost: what the last slot_drive into a slot had seen when it ended:
                       \* it was stopped by the "wall", the lidar saw the walls at both
                       \* "sides", or "nothing"

routineVars == <<moving, stop, stack, result, noWall, ground>>
wallVars == <<noWall, ground>>

Top == Head(stack)
At(place) == stack # <<>> /\ Top.at = place

\* Go on with other counters, call a routine and go on at back, return.
Become(frame) == stack' = <<frame>> \o Tail(stack) /\ result' = "none"
Call(frame, back) == stack' = <<frame, back>> \o Tail(stack) /\ result' = "none"
Return(r) == stack' = Tail(stack) /\ result' = r
YesNo(b) == IF b THEN "yes" ELSE "no"

Stand == moving' = FALSE
Keep == UNCHANGED <<stop, noWall, ground>>

\* A timed move: set_speed, sleep, set_speed(0, 0).
Pulse(back) == Call([at |-> "pulse"], back) /\ moving' = TRUE
PulseEnd == At("pulse") /\ Return("yes") /\ Stand /\ Keep

robot_handle_sigint ==
  /\ ~stop /\ stop' = TRUE
  /\ UNCHANGED <<moving, stack, result, noWall, ground>>

\* wait_for_fresh_scan gives up at once when the program is to stop, and for
\* that reason alone: of a silent lidar it returns the scan it has.
take_scan == ~stop
=============================================================================

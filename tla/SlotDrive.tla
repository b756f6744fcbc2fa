------------------------------ MODULE SlotDrive ------------------------------
(* Driving into and out of a slot (robot_slot_drive.c) and turning the car   *)
(* straight again on the way (slot_fix_heading of robot_slot_align.c).  The   *)
(* steering, the speeds and the aim that is biased away from a wall are left  *)
(* out; what a step sees of the depth, the wall and the angle is arbitrary.   *)
EXTENDS Escape, SlotSight

CONSTANTS DriveSteps,     \* SLOT_MAX_STEPS
          StallSteps,     \* SLOT_STALL_STEPS
          QuietSteps,     \* steps before a stall is believed
          FunnelTries,    \* FUNNEL_MAX_TRIES
          JamGrace,       \* steps without an angle check after a recovery
          PressGrace,     \* and after the decision to press on
          FixSteps, FixBackoffs     \* slot_fix_heading: MAX_STEPS, MAX_BACKOFFS

Smaller(a, b) == IF a < b THEN a ELSE b

slot_drive(forward, retry) ==
  [at |-> "drive start", forward |-> forward, retry |-> retry, step |-> 0,
   stall |-> 0, known |-> FALSE, tries |-> 0, grace |-> 0, asked |-> 0,
   confirm |-> FALSE, fixed |-> FALSE, stuckFix |-> 0, ditch |-> FALSE, sure |-> FALSE]
slot_fix_heading(jammed) ==
  [at |-> "fix", step |-> 0, fresh |-> TRUE, noGain |-> 0, backoffs |-> 0,
   need |-> jammed, angle |-> "no"]

NextStep(f) == [f EXCEPT !.at = "drive", !.step = @ + 1]
\* A recovery forgets the stall and where it was.
Rested(f, grace) == [f EXCEPT !.stall = 0, !.known = FALSE, !.grace = grace]

\* direction_ok: the goal must lie ahead of the direction asked for.
DriveStart ==
  /\ At("drive start")
  /\ IF Top.forward THEN noWall' = FALSE /\ ground' = "nothing" ELSE UNCHANGED wallVars
  /\ Return("no") \/ Become([Top EXCEPT !.at = "drive"])
  /\ UNCHANGED <<moving, stop>>

\* What a step may see: how deep the car is (going in: short of the seat, where
\* a second look decides, at the depth, pressed past it; going out: short, close,
\* out, past), whether it stood still, gained depth, was tilted, sits straight
\* with no free front, and whether the car was found in the lane (SlotSight).
Sight(forward, fix) ==
  [zone : IF forward THEN {"short", "confirm", "depth", "over"}
                     ELSE {"short", "close", "out", "past"},
   still : BOOLEAN, gain : BOOLEAN, tilted : BOOLEAN, fits : BOOLEAN,
   fix : {fix}, same : BOOLEAN]

\* eval_seat.
Seen(f, o) == [f EXCEPT
  !.stall = IF f.known /\ o.still THEN Smaller(StallSteps, @ + 1) ELSE 0,
  !.known = TRUE,
  !.tries = IF f.forward /\ o.gain /\ @ > 0 THEN @ - 1 ELSE @]
Contact(f) == f.stall >= StallSteps /\ f.step > QuietSteps
SeatCandidate(f, o) == f.forward /\ Contact(f) /\ o.fits
Confirming(f, o) == SeatCandidate(f, o) /\ o.zone = "confirm"

Seated(f, o) == /\ SeatCandidate(f, o)
                /\ \/ o.zone \in {"depth", "over"}
                   \/ o.zone = "confirm" /\ f.confirm /\ o.same
OverLimit(f, o) == f.forward /\ o.zone = "over"
Reached(f, o) == IF f.forward THEN Seated(f, o) \/ OverLimit(f, o)
                              ELSE o.zone \in {"out", "past"}
Stalled(f, o) == IF f.forward THEN Seated(f, o) ELSE Contact(f)

\* The guards that send a step to a recovery instead of on.
BackJam(f, o) == /\ ~f.forward /\ o.zone \in {"short", "past"}
                 /\ Contact(f) \/ (f.step > 0 /\ f.grace = 0 /\ o.tilted)
JamStall(f, o) == f.forward /\ Contact(f) /\ ~Seated(f, o)
JamAngle(f, o) == /\ f.forward /\ o.zone \in {"short", "confirm"} /\ ~Seated(f, o)
                  /\ f.step > 0 /\ f.grace = 0 /\ o.tilted

\* recover_back, recover_jam: straighten the car, a bounded number of times.
RecoverBack(f) ==
  IF f.tries < FunnelTries
  THEN Call(slot_fix_heading(Contact(f)), [f EXCEPT !.at = "drive backed", !.tries = @ + 1])
  ELSE Return("no")
AtSeat(o) == o.zone # "short"
LastDitch(f, o) == ~f.ditch /\ AtSeat(o) /\ (~o.tilted \/ o.fix = "in lane")
RecoverJam(f, o) ==
  IF f.tries < FunnelTries
  THEN Call(slot_fix_heading(JamStall(f, o)),
            [f EXCEPT !.at = "drive freed", !.tries = @ + 1,
                      !.sure = AtSeat(o) /\ o.fix = "in lane"])
  ELSE ~LastDitch(f, o) /\ Return("no")

\* push: on for one more step.
Push(f) == moving' = TRUE /\ Become(NextStep([f EXCEPT !.grace = IF @ > 0 THEN @ - 1 ELSE 0]))

\* Ghost: what the step has seen of the slot, whatever it makes of it.
Ground(f, o) == IF SeatCandidate(f, o) THEN "wall"
                ELSE IF o.fix # "none" THEN "sides" ELSE "nothing"

\* finish: what a step does when no recovery took it.
GoOn(f, o) ==
  \/ /\ Reached(f, o) /\ Return("yes") /\ Stand
     /\ ground' = IF f.forward THEN Ground(f, o) ELSE ground
  \/ /\ ~Reached(f, o) /\ Stalled(f, o) /\ Stand /\ UNCHANGED ground
     /\ Return("yes") \/ (~f.retry /\ Return("no"))       \* close enough, or not
  \/ ~Reached(f, o) /\ ~Stalled(f, o) /\ Push(f) /\ UNCHANGED ground

\* A jam: two fixes in a row that changed nothing make the car press on.
Jam(f, o) ==
  LET g == [f EXCEPT !.stuckFix = IF f.fixed /\ o.same THEN @ + 1 ELSE 0, !.fixed = TRUE]
  IN IF g.stuckFix >= 2
     THEN GoOn(Rested([g EXCEPT !.stuckFix = 0], JamGrace + 1), o)
     ELSE \/ RecoverJam(g, o) /\ Stand /\ UNCHANGED ground
          \/ /\ g.tries = FunnelTries /\ LastDitch(g, o)
             /\ GoOn([Rested(g, PressGrace) EXCEPT !.tries = 0, !.ditch = TRUE], o)

\* Mutant: the drive only warns that it met no wall.
OverUnsaid(f, o) == FALSE

\* slot_no_wall: pressed past the depth, and the lidar does not see the walls of a slot
\* at both sides.  When it does, the car counts as parked although it met no wall.
Over(f, o) == OverLimit(f, o) /\ o.fix = "none"

\* A second look in a row that cannot tell where the car is.
AskedTwice(look) == ~look.wrong_lane /\ look.request = 1 /\ Top.asked = 1

\* One step: stop, look, and decide; or give up in the wrong slot, at the bound or
\* on Ctrl+C.  slot_fix_heading may have left the word of the wrong slot behind.
DriveStep ==
  /\ At("drive") /\ UNCHANGED stop
  /\ IF Top.step = DriveSteps \/ ~take_scan
     THEN Return("no") /\ Stand /\ UNCHANGED wallVars
     ELSE \E look \in Anchors :
          \/ look.wrong_lane /\ Return("no") /\ Stand /\ UNCHANGED wallVars
          \/ /\ AskedTwice(look) /\ Stand /\ UNCHANGED wallVars
             /\ Call(relocalize_global,
                     [Rested(Top, Top.grace) EXCEPT !.at = "drive lost", !.asked = 0])
          \/ /\ ~look.wrong_lane /\ ~AskedTwice(look)
             /\ \E o \in Sight(Top.forward, look.fix) :
               LET f == Seen([Top EXCEPT !.asked = look.request], o)
                   g == IF Confirming(f, o) /\ ~Seated(f, o)
                        THEN [f EXCEPT !.confirm = TRUE] ELSE f
               IN /\ noWall' = (noWall \/ Over(f, o))
                  /\ IF BackJam(f, o) THEN RecoverBack(f) /\ Stand /\ UNCHANGED ground
                     ELSE IF JamStall(f, o) \/ JamAngle(f, o) THEN Jam(g, o)
                     ELSE GoOn(g, o)
DriveLost ==
  /\ At("drive lost") /\ UNCHANGED moving /\ Keep
  /\ IF result = "yes" THEN Become(NextStep(Top)) ELSE Call(relocalize_wide, NextStep(Top))
DriveFixed ==
  /\ At("drive backed") \/ At("drive freed")
  /\ Keep
  /\ IF result # "skewed"
     THEN /\ UNCHANGED moving
          /\ Become(NextStep(Rested(Top, IF At("drive freed") THEN JamGrace ELSE Top.grace)))
     ELSE IF At("drive freed") /\ Top.sure        \* press on: the lidar sees the seat
     THEN UNCHANGED moving /\ Become(NextStep([Rested(Top, PressGrace) EXCEPT !.tries = 0]))
     ELSE Stand /\ Return("no")

\* slot_fix_heading: turn until straight; back off when turning gains nothing.
FixStep ==
  /\ At("fix") /\ Keep
  /\ IF Top.step = FixSteps \/ ~take_scan THEN Return(Top.angle) /\ Stand
     ELSE \/ Return("yes") /\ Stand
          \/ \E gain \in {Top.fresh, TRUE}, angle \in {"no", "skewed"}, limit \in BOOLEAN :
               LET seen == IF gain THEN 0 ELSE Top.noGain + 1
                   need == (Top.need \/ seen = 2) /\ ~limit
                   f == [Top EXCEPT !.step = @ + 1, !.angle = angle, !.need = need,
                                    !.noGain = seen % 2, !.fresh = FALSE]
               IN Pulse(IF need /\ Top.backoffs < FixBackoffs
                        THEN [f EXCEPT !.backoffs = @ + 1, !.need = FALSE, !.fresh = TRUE]
                        ELSE f)

SlotDriveNext == DriveStart \/ DriveStep \/ DriveLost \/ DriveFixed \/ FixStep
=============================================================================

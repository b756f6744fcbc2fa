----------------------------- MODULE ArmMotion ------------------------------
(* What the arm does for a job (pickAndPlace), move by move: fetch the box,   *)
(* turn to the shelf with a level wrist, push it into the slot, let go, come  *)
(* home.  A move that does not arrive in time ends the job where it stands,   *)
(* with the box in the gripper, and the console goes on from there.           *)
EXTENDS ArmPoses

CONSTANT Calibrations       \* tables of measured slot poses that may be flashed
ASSUME CalibrationsAssumption == Calibrations \subseteq [1 .. 9 -> [1 .. 5 -> Int]]

VARIABLES slots,            \* PLACE_SLOTS
          stage,            \* the move that is next, or "idle"
          test,             \* testPlaceSlot: nothing is picked, no load on the wrist
          slot,             \* of the job
          present,          \* where the joints are
          sent,             \* the goal that moveArm was given last
          aim,              \* the pose whose arrival was judged last
          box               \* in the gripper: "none", "ours", or "left" by an earlier job

places == <<present, sent, aim>>
held == <<slots, test, slot, box>>
vars == <<stage, places, held>>

measuredPose == slots[slot]
insertionPose == makeSlotInsertionPose(slot, measuredPose)
withdrawPose == withdrawal(slot, measuredPose)

\* The joints that carry a load stop at an end of the tolerance, the upper two
\* at the same one.
Around(target, tol) ==
  {[target EXCEPT ![2] = @ + e[1] * tol[2], ![3] = @ + e[1] * tol[3], ![4] = @ + e[2] * tol[4]] :
     e \in {-1, 1} \X {-1, 1}}
Within(p, target, tol) ==
  \A i \in 1 .. 5 : p[i] - target[i] <= tol[i] /\ target[i] - p[i] <= tol[i]

\* moveArm and waitForArmTol: the joints arrive, or time is over, or a servo
\* reports an error, wherever they are.
Move(command, target, tol, yes, no) ==
  /\ sent' = command /\ aim' = target
  /\ \/ present' \in Around(target, tol) /\ stage' = yes
     \/ present' \in {present, target} /\ stage' = no
MoveTo(target, tol, yes, no) == Move(target, target, tol, yes, no)

\* moveSmoothAndWait: over waypoints, from where the joints are.
Smooth(target, steps, tol, yes, no) ==
  IF \A s \in 1 .. steps - 1 : isPoseWithinLimits(lerpPose(present, target, s, steps))
  THEN MoveTo(target, tol, yes, no)
  ELSE stage' = no /\ UNCHANGED places

\* A J4 under load is sent lower than the pose that is waited for.
Lowered(p, comp) == [p EXCEPT ![4] = clampJoint(4, @ - comp)]
Command(p, comp) == IF comp > 0 THEN Lowered(p, comp) ELSE p

\* Mutant: the height is taken from the plan whatever J2 really is.
heightAsPlanned(target) == [target EXCEPT ![1] = present[1], ![2] = present[2], ![5] = present[5]]

\* moveHeightWithJ3J4Only: the others stay, J4 makes good what J2 is off.
heightFrom(target) ==
  [target EXCEPT ![1] = present[1], ![2] = present[2], ![5] = present[5],
                 ![4] = @ + target[2] - present[2]]
Height(target, steps, comp, yes, no) ==
  LET goal == heightFrom(target)
      mid(s) == [present EXCEPT ![3] = @ + Quotient((goal[3] - @) * s, steps),
                                ![4] = @ + Quotient((goal[4] - @) * s, steps)]
      again == IF comp > 0 THEN {-60, 0, 60} ELSE {0}   \* sent again, by what J4 was off
  IN IF \A s \in 1 .. steps : isPoseWithinLimits(Command(mid(s), comp))
     THEN \E off \in again : Move(Lowered(Command(goal, comp), off), goal, PLACE_TOLERANCE, yes, no)
     ELSE stage' = no /\ UNCHANGED places

At(s) == stage = s /\ UNCHANGED held

\* pickAndPlace up to the shelf.  Homing is not waited for.
Home(yes) ==
  /\ present' \in {present, POSE_HOME} /\ sent' = POSE_HOME
  /\ stage' = yes /\ UNCHANGED aim
Homing == At("home") /\ Home("after home")
Approaches ==
  \/ At("after home") /\ MoveTo(POSE_AFTER_HOME, JOINT_TOLERANCE, "left", "idle")
  \/ At("left") /\ MoveTo(leftTransitPose, JOINT_TOLERANCE, "base", "idle")
  \/ At("base") /\ MoveTo(baseSafePose, JOINT_TOLERANCE, "above", "idle")
  \/ At("above") /\ MoveTo(abovePose, JOINT_TOLERANCE, "prepare", "idle")
  \/ At("mid") /\ MoveTo(midPose, JOINT_TOLERANCE, "pick", "idle")
  \/ At("pick") /\ MoveTo(pickPose, JOINT_TOLERANCE, "close", "idle")
Leaves ==
  \/ At("up mid") /\ MoveTo(midPose, JOINT_TOLERANCE, "up above", "idle")
  \/ At("up above") /\ MoveTo(abovePose, JOINT_TOLERANCE, "up base", "idle")
  \/ At("up base") /\ MoveTo(baseSafePose, JOINT_TOLERANCE, "up left", "idle")
  \/ At("up left") /\ MoveTo(leftTransitPose, JOINT_TOLERANCE, "seat", "idle")
  \/ At("seat") /\ Smooth(frontSeatedPose, 4, JOINT_TOLERANCE, "front", "idle")

\* moveGripperAndWait.  It may fail with the gripper wherever it is.
Grip(now, yes, no) ==
  /\ \/ box' = now /\ stage' = yes
     \/ box' \in {box, now} /\ stage' = no
  /\ UNCHANGED <<slots, test, slot, places>>
Prepare == stage = "prepare" /\ Grip("none", "mid", "idle")
Close == stage = "close" /\ \E b \in {"none", "ours"} : Grip(b, "up mid", "idle")

\* moveHeldObjectToSlot, and testPlaceSlot, which goes the same way without a
\* box and turns back where it does not get on.
Comp(load) == IF test THEN 0 ELSE load
Back == IF test THEN "withdraw" ELSE "idle"
LevelTol == IF test THEN JOINT_TOLERANCE ELSE HORIZONTAL_TOLERANCE
Horizontal(p, yes) == Move(Command(p, Comp(90)), p, LevelTol, yes, Back)
Front == At("front") /\ Horizontal(frontHorizontal(measuredPose), "turn")
Turn == At("turn") /\ Horizontal(slotHorizontal(measuredPose), "height")
SetHeight ==
  /\ At("height")
  /\ Height(makeRaisedEntryHeightPose(measuredPose), IF slot >= 7 THEN 4 ELSE 6,
            Comp(IF slot >= 7 THEN 20 ELSE 90), "insert", Back)
Insert ==
  /\ At("insert")
  /\ Smooth(insertionPose, 3, PLACE_TOLERANCE, IF test THEN "withdraw" ELSE "release",
            IF test THEN "withdraw" ELSE "insert again")

\* Mutant: the box is let go wherever the second try has ended.
InsertAgainUnjudged ==
  At("insert again") /\ MoveTo(insertionPose, INSERTION_RELEASE_TOLERANCE, "release", "release")

InsertAgain ==
  At("insert again") /\ MoveTo(insertionPose, INSERTION_RELEASE_TOLERANCE, "release", "idle")

\* Slot 7 tries again to open.
Release ==
  stage = "release" /\ Grip("none", "withdraw", IF slot = 7 THEN "release again" ELSE "idle")
ReleaseAgain == stage = "release again" /\ Grip("none", "withdraw", "idle")

\* Out of the slot, and home by way of the front, each with a second try that
\* opens the gripper first.
WithdrawTol == IF slot = 7 /\ ~test THEN SLOT7_WITHDRAW_TOLERANCE ELSE JOINT_TOLERANCE
Steps(first, seventh) == IF slot = 7 /\ ~test THEN seventh ELSE first
Opened == box' = "none" /\ UNCHANGED <<slots, test, slot>>
Withdraw ==
  /\ At("withdraw")
  /\ Smooth(withdrawPose, Steps(6, 10), WithdrawTol, "out",
            IF test THEN "idle" ELSE "withdraw again")
WithdrawAgain ==
  /\ stage = "withdraw again" /\ Opened
  /\ Smooth(withdrawPose, Steps(8, 14), WithdrawTol, "out", "idle")
returnHomeAfterPlacement ==
  \/ At("out") /\ Smooth(POSE_AFTER_HOME, 8, JOINT_TOLERANCE, "in front", "out again")
  \/ stage = "out again" /\ Opened
     /\ Smooth(POSE_AFTER_HOME, 10, JOINT_TOLERANCE, "in front", "idle")
  \/ At("in front") /\ Smooth(POSE_HOME, 8, JOINT_TOLERANCE, "idle", "in front again")
  \/ stage = "in front again" /\ Opened /\ Smooth(POSE_HOME, 10, JOINT_TOLERANCE, "idle", "idle")

\* A job of the line or of the console, a test, or homing alone; a job that has
\* failed has left the box in the gripper, where someone may take it out.
Leave == IF box = "ours" THEN "left" ELSE box
Begin(s, t) ==
  /\ stage = "idle"
  /\ validatePlaceSlot(s, slots[s])
  /\ slot' = s /\ test' = t /\ stage' = (IF t THEN "front" ELSE "home")
  /\ box' = Leave
  /\ UNCHANGED <<slots, places>>
HomePose == At("idle") /\ Home("idle")
TakeOut == stage = "idle" /\ box' = "none" /\ UNCHANGED <<slots, test, slot, stage, places>>

Init ==
  /\ slots \in Calibrations /\ stage = "idle" /\ test = FALSE /\ slot = 1
  /\ present = POSE_HOME /\ sent = POSE_HOME /\ aim = POSE_HOME /\ box = "none"
Next ==
  \/ \E s \in 1 .. 9, t \in BOOLEAN : Begin(s, t)
  \/ HomePose \/ TakeOut
  \/ Homing \/ Approaches \/ Prepare \/ Close \/ Leaves
  \/ Front \/ Turn \/ SetHeight \/ Insert \/ InsertAgain \/ Release \/ ReleaseAgain
  \/ Withdraw \/ WithdrawAgain \/ returnHomeAfterPlacement
Spec == Init /\ [][Next]_vars

-----------------------------------------------------------------------------
\* Every pose on the way into the slot and out again keeps the wrist at the
\* angle that was measured in the slot: no correction of the height or of the
\* depth tilts the gripper (openrb_robot_arm.ino:987-990, 1245-1248).
LevelAtTheShelf ==
  stage \in {"turn", "height", "insert", "release", "out"} => pitch(aim) = pitch(measuredPose)

\* moveArm never cuts a goal down to the range of a joint: the arm would stop
\* short of the pose that is then waited for (openrb_robot_arm.ino:814-820).
NothingIsClamped == isPoseWithinLimits(sent)

\* The box that the job has picked leaves the gripper in its slot or not at
\* all, whatever move failed before (openrb_robot_arm.ino:1520-1554).
LetGoInTheSlot ==
  [][box = "ours" /\ box' = "none" /\ stage # "idle"
       => Within(present, insertionPose, INSERTION_RELEASE_TOLERANCE)]_vars
=============================================================================

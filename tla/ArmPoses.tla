------------------------------ MODULE ArmPoses ------------------------------
(* The poses of the arm (openrb_robot_arm.ino), five joints in servo ticks,   *)
(* and the ones that are computed for a slot of the shelf from the pose that  *)
(* was measured there.  The wrist is level when j2 + j3 + j4 is the measured. *)
EXTENDS Integers

pitch(p) == p[2] + p[3] + p[4]

LIM_MIN == <<0, 683, 683, 910, 0>>
LIM_MAX == <<4095, 3072, 3100, 3210, 4095>>
clampJoint(i, tick) ==
  IF tick < LIM_MIN[i] THEN LIM_MIN[i] ELSE IF tick > LIM_MAX[i] THEN LIM_MAX[i] ELSE tick
isPoseWithinLimits(p) == \A i \in 1 .. 5 : p[i] >= LIM_MIN[i] /\ p[i] <= LIM_MAX[i]

POSE_HOME == <<2048, 747, 3079, 3194, 2023>>
POSE_AFTER_HOME == <<2021, 1708, 2065, 3196, 2027>>
leftTransitPose == <<3072, 1708, 2065, 3196, 2027>>
pickPose == <<3020, 2500, 1395, 3060, 1882>>
baseSafePose == <<3020, 1900, 1800, 2800, 2048>>
abovePose == <<3020, 1900, 1800, 2800, 1882>>
seatedJ2 == 1708 - (((1708 - 683) * 50) \div 100)
frontSeatedPose == <<2021, seatedJ2, 2065, 3196, 2027>>

\* lroundf and the division of C.
Rounded(n, d) == IF n >= 0 THEN (2 * n + d) \div (2 * d) ELSE -((d - 2 * n) \div (2 * d))
Quotient(n, d) == IF n >= 0 THEN n \div d ELSE -((-n) \div d)
lerpPose(a, b, s, steps) == [i \in 1 .. 5 |-> a[i] + Rounded((b[i] - a[i]) * s, steps)]
midPose == lerpPose(abovePose, pickPose, 70, 100)

\* makePlaceRetreatPose: only validated, never moved to.
makePlaceRetreatPose(m) ==
  LET j4 == IF m[4] - 780 > 1600 THEN m[4] - 780 ELSE 1600
      way == IF m[4] > j4 THEN m[4] - j4 ELSE j4 - m[4]
      back == Quotient(390 * way, 780)
  IN <<m[1], m[2] + back, m[3] + back, j4, m[5]>>

\* Deeper for the slots at the sides, most for slot 1; raised by 30 ticks.
Depth(slot) == (IF slot = 1 THEN 30 ELSE 0) + (IF slot \in {1, 3, 4, 6, 7, 9} THEN 30 ELSE 0)

makeSlotInsertionPose(slot, m) ==
  <<m[1], m[2] + Depth(slot), m[3] - 30, m[4] - Depth(slot) + 30, m[5]>>

makeMaxBackHorizontalPose(m) ==
  <<m[1], seatedJ2, 2065, m[2] + m[3] + m[4] - seatedJ2 - 2065, m[5]>>
makeHeightSetPose(m) == <<m[1], seatedJ2, m[3], m[2] + m[4] - seatedJ2, m[5]>>
makeRaisedEntryHeightPose(m) == <<m[1], seatedJ2, m[3] - 30, m[2] + m[4] - seatedJ2 + 30, m[5]>>

\* Lower than the height by 20, 40 or 80 ticks of j3, row by row.
Down(slot) == IF slot >= 7 THEN 80 ELSE IF slot >= 4 THEN 40 ELSE 20
makeCeilingSafeWithdrawPose(slot, insertion, height) ==
  <<height[1], height[2], height[3] + Down(slot),
    insertion[2] + insertion[3] + insertion[4] - height[2] - height[3] - Down(slot), height[5]>>

slotHorizontal(m) == makeMaxBackHorizontalPose(m)
frontHorizontal(m) == [makeMaxBackHorizontalPose(m) EXCEPT ![1] = 2021]
withdrawal(slot, m) ==
  makeCeilingSafeWithdrawPose(slot, makeSlotInsertionPose(slot, m), makeHeightSetPose(m))

\* Mutant: the pose in the slot itself is not looked at.
validateAround(slot, m) ==
  \A p \in {m, makePlaceRetreatPose(m), makeRaisedEntryHeightPose(m), withdrawal(slot, m),
            frontHorizontal(m), slotHorizontal(m)} : isPoseWithinLimits(p)

validatePlaceSlot(slot, m) ==
  \A p \in {m, makePlaceRetreatPose(m), makeSlotInsertionPose(slot, m),
            makeRaisedEntryHeightPose(m), withdrawal(slot, m), frontHorizontal(m),
            slotHorizontal(m)} : isPoseWithinLimits(p)

\* The tolerances that an arrival is judged by.
JOINT_TOLERANCE == <<20, 60, 60, 90, 20>>
PLACE_TOLERANCE == <<12, 40, 40, 45, 12>>
INSERTION_RELEASE_TOLERANCE == <<20, 50, 50, 100, 20>>
HORIZONTAL_TOLERANCE == <<12, 40, 40, 50, 20>>
SLOT7_WITHDRAW_TOLERANCE == <<30, 90, 90, 140, 30>>
=============================================================================

-------------------------- MODULE ArmMotion_proofs ---------------------------
(* For every calibration of the slots: the wrist is level at the shelf, no    *)
(* goal is cut down to the range of a joint, and a box that was picked is let *)
(* go in its slot or stays in the gripper.                                    *)
EXTENDS ArmMotion, TLAPS

Pose == [1 .. 5 -> Int]
Fixed == {POSE_HOME, POSE_AFTER_HOME, leftTransitPose, baseSafePose, abovePose, midPose,
          pickPose, frontSeatedPose}
SlotPoses(s, m) == {frontHorizontal(m), slotHorizontal(m), makeRaisedEntryHeightPose(m),
                    makeSlotInsertionPose(s, m), withdrawal(s, m)}
Tolerances == {JOINT_TOLERANCE, PLACE_TOLERANCE, INSERTION_RELEASE_TOLERANCE,
               HORIZONTAL_TOLERANCE, SLOT7_WITHDRAW_TOLERANCE}

\* The types that the other parts need.
ArmTypes ==
  /\ slots \in [1 .. 9 -> Pose] /\ slot \in 1 .. 9 /\ present \in Pose
\* A job runs only in a slot whose poses are in range.
Validated == stage # "idle" => validatePlaceSlot(slot, measuredPose)
\* Where the gripper opens for the box, the arm is in the slot.
InTheSlot ==
  stage \in {"release", "release again"} => Within(present, insertionPose, INSERTION_RELEASE_TOLERANCE)
\* A test goes to the shelf at once; before the box is picked and after it was let go, and in a test, no picked
\* box is in the gripper.
Unladen == {"home", "after home", "left", "base", "above", "prepare", "mid", "pick", "close",
            "withdraw", "withdraw again", "out", "out again", "in front", "in front again"}
Fetching == {"home", "after home", "left", "base", "above", "prepare", "mid", "pick", "close"}
NotOurs == stage \in Unladen \/ test => box # "ours"
FetchesInJobs == stage \in Fetching => ~test

ArmInv ==
  ArmTypes /\ Validated /\ LevelAtTheShelf /\ NothingIsClamped /\ InTheSlot
  /\ NotOurs /\ FetchesInJobs

------------------------------------------------------------------------------
\* The constants of the firmware are poses in range.
LEMMA FixedPoses == \A p \in Fixed : p \in Pose /\ isPoseWithinLimits(p)
<1>1. seatedJ2 = 1196 BY SMT DEF seatedJ2
<1>2. /\ POSE_HOME \in Pose /\ isPoseWithinLimits(POSE_HOME)
      /\ POSE_AFTER_HOME \in Pose /\ isPoseWithinLimits(POSE_AFTER_HOME)
  BY SMT DEF Pose, isPoseWithinLimits, LIM_MIN, LIM_MAX, POSE_HOME, POSE_AFTER_HOME
<1>3. /\ leftTransitPose \in Pose /\ isPoseWithinLimits(leftTransitPose)
      /\ baseSafePose \in Pose /\ isPoseWithinLimits(baseSafePose)
  BY SMT DEF Pose, isPoseWithinLimits, LIM_MIN, LIM_MAX, leftTransitPose, baseSafePose
<1>4. /\ abovePose \in Pose /\ isPoseWithinLimits(abovePose)
      /\ pickPose \in Pose /\ isPoseWithinLimits(pickPose)
  BY SMT DEF Pose, isPoseWithinLimits, LIM_MIN, LIM_MAX, abovePose, pickPose
<1>5. midPose \in Pose
  BY SMT DEF midPose, Pose, lerpPose, Rounded, abovePose, pickPose
<1>6. isPoseWithinLimits(midPose)
  BY SMT DEF isPoseWithinLimits, midPose, lerpPose, Rounded, abovePose, pickPose, LIM_MIN, LIM_MAX
<1>7. frontSeatedPose \in Pose /\ isPoseWithinLimits(frontSeatedPose)
  BY <1>1, SMT DEF Pose, isPoseWithinLimits, LIM_MIN, LIM_MAX, frontSeatedPose
<1> QED BY <1>2, <1>3, <1>4, <1>5, <1>6, <1>7 DEF Fixed

\* The poses that are computed for a slot are poses.
LEMMA ComputedPoses ==
  ASSUME NEW s \in 1 .. 9, NEW m \in Pose PROVE SlotPoses(s, m) \subseteq Pose
<1>1. seatedJ2 = 1196 BY SMT DEF seatedJ2
<1>2. Depth(s) \in Int /\ Down(s) \in Int BY SMT DEF Depth, Down
<1>3. frontHorizontal(m) \in Pose /\ slotHorizontal(m) \in Pose
  BY <1>1, SMT DEF frontHorizontal, slotHorizontal, makeMaxBackHorizontalPose, Pose
<1>4. makeRaisedEntryHeightPose(m) \in Pose /\ makeHeightSetPose(m) \in Pose
  BY <1>1, SMT DEF makeRaisedEntryHeightPose, makeHeightSetPose, Pose
<1>5. makeSlotInsertionPose(s, m) \in Pose
  BY <1>2, SMT DEF makeSlotInsertionPose, Pose
<1>6. ASSUME NEW i \in Pose, NEW h \in Pose PROVE makeCeilingSafeWithdrawPose(s, i, h) \in Pose
  BY <1>2, SMT DEF makeCeilingSafeWithdrawPose, Pose
<1>7. withdrawal(s, m) \in Pose BY <1>4, <1>5, <1>6 DEF withdrawal
<1> QED BY <1>3, <1>4, <1>5, <1>7 DEF SlotPoses

\* They keep the wrist at the angle that was measured.
LEMMA ComputedLevel ==
  ASSUME NEW s \in 1 .. 9, NEW m \in Pose
  PROVE /\ pitch(frontHorizontal(m)) = pitch(m) /\ pitch(slotHorizontal(m)) = pitch(m)
        /\ pitch(makeSlotInsertionPose(s, m)) = pitch(m) /\ pitch(withdrawal(s, m)) = pitch(m)
<1>1. seatedJ2 = 1196 BY SMT DEF seatedJ2
<1>2. Depth(s) \in Int /\ Down(s) \in Int BY SMT DEF Depth, Down
<1>3. pitch(frontHorizontal(m)) = pitch(m) /\ pitch(slotHorizontal(m)) = pitch(m)
  BY <1>1, SMT DEF frontHorizontal, slotHorizontal, makeMaxBackHorizontalPose, Pose, pitch
<1>4. pitch(makeSlotInsertionPose(s, m)) = pitch(m)
  BY <1>2, SMT DEF makeSlotInsertionPose, Pose, pitch
<1>5. makeHeightSetPose(m) \in Pose /\ makeSlotInsertionPose(s, m) \in Pose
  BY <1>1, <1>2, SMT DEF makeHeightSetPose, makeSlotInsertionPose, Pose
<1>6. ASSUME NEW i \in Pose, NEW h \in Pose
      PROVE pitch(makeCeilingSafeWithdrawPose(s, i, h)) = pitch(i)
  BY <1>2, SMT DEF makeCeilingSafeWithdrawPose, Pose, pitch
<1>7. pitch(withdrawal(s, m)) = pitch(m) BY <1>4, <1>5, <1>6 DEF withdrawal
<1> QED BY <1>3, <1>4, <1>7

\* A goal whose J4 is lowered stays a pose in range.
LEMMA LoweredPoses ==
  ASSUME NEW p \in Pose, NEW comp \in Int
  PROVE /\ Lowered(p, comp) \in Pose
        /\ isPoseWithinLimits(p) => isPoseWithinLimits(Lowered(p, comp))
<1> DEFINE q == clampJoint(4, p[4] - comp)
<1>1. q \in 910 .. 3210
  BY SMT DEF clampJoint, LIM_MIN, LIM_MAX, Pose
<1>2. [p EXCEPT ![4] = q] \in Pose
  <2> HIDE DEF q
  <2> QED BY <1>1, SMT DEF Pose
<1>3. ASSUME isPoseWithinLimits(p) PROVE isPoseWithinLimits([p EXCEPT ![4] = q])
  <2> HIDE DEF q
  <2>1. \A i \in 1 .. 5 : [p EXCEPT ![4] = q][i] = IF i = 4 THEN q ELSE p[i]
    BY <1>1, SMT DEF Pose
  <2>2. LIM_MIN[4] = 910 /\ LIM_MAX[4] = 3210 BY SMT DEF LIM_MIN, LIM_MAX
  <2> QED BY <1>1, <1>3, <2>1, <2>2, SMT DEF isPoseWithinLimits
<1> QED BY <1>2, <1>3 DEF Lowered

\* So does the goal that is sent, lowered or not.
LEMMA CommandedPoses ==
  ASSUME NEW p \in Pose, NEW comp \in Int
  PROVE /\ Command(p, comp) \in Pose
        /\ isPoseWithinLimits(p) => isPoseWithinLimits(Command(p, comp))
  BY LoweredPoses DEF Command

\* Where joints stop within a tolerance is a pose, and within any wider one.
LEMMA Arrivals ==
  ASSUME NEW target \in Pose, NEW tol \in Pose
  PROVE /\ Around(target, tol) \subseteq Pose
        /\ \A wide \in Pose :
             (\A i \in 1 .. 5 : 0 <= tol[i] /\ tol[i] <= wide[i])
               => \A p \in Around(target, tol) : Within(p, target, wide)
<1> DEFINE P(e, f) == [target EXCEPT ![2] = @ + e * tol[2], ![3] = @ + e * tol[3],
                                     ![4] = @ + f * tol[4]]
<1>1. ASSUME NEW p \in Around(target, tol) PROVE \E e, f \in {-1, 1} : p = P(e, f)
  BY <1>1 DEF Around
<1>2. \A e, f \in {-1, 1} : P(e, f) \in Pose BY SMT DEF Pose
<1>3. ASSUME NEW wide \in Pose, \A i \in 1 .. 5 : 0 <= tol[i] /\ tol[i] <= wide[i],
             NEW e \in {-1, 1}, NEW f \in {-1, 1}
      PROVE Within(P(e, f), target, wide)
  BY <1>3, SMT DEF Within, Pose
<1> QED BY <1>1, <1>2, <1>3
------------------------------------------------------------------------------
\* The poses of the job that runs.
JobPoses == {frontHorizontal(measuredPose), slotHorizontal(measuredPose),
             makeRaisedEntryHeightPose(measuredPose), insertionPose, withdrawPose}

LEMMA PosesOfTheJob ==
  ASSUME ArmTypes
  PROVE /\ measuredPose \in Pose /\ JobPoses \subseteq Pose
        /\ \A p \in JobPoses \ {makeRaisedEntryHeightPose(measuredPose)} :
             pitch(p) = pitch(measuredPose)
        /\ Validated /\ stage # "idle" => \A p \in JobPoses : isPoseWithinLimits(p)
<1>1. measuredPose \in Pose /\ slot \in 1 .. 9 BY DEF ArmTypes, measuredPose
<1>2. JobPoses = SlotPoses(slot, measuredPose)
  BY DEF JobPoses, SlotPoses, insertionPose, withdrawPose
<1>3. JobPoses \subseteq Pose BY <1>1, <1>2, ComputedPoses
<1>4. \A p \in JobPoses \ {makeRaisedEntryHeightPose(measuredPose)} :
        pitch(p) = pitch(measuredPose)
  BY <1>1, ComputedLevel DEF JobPoses, insertionPose, withdrawPose
<1>5. Validated /\ stage # "idle" => \A p \in JobPoses : isPoseWithinLimits(p)
  BY <1>2 DEF Validated, validatePlaceSlot, SlotPoses
<1> QED BY <1>1, <1>3, <1>4, <1>5

\* The tolerances are poses too; three of them are no wider than the one the box
\* is let go with.
LEMMA TolerancesTyped ==
  /\ Tolerances \subseteq Pose
  /\ \A tol \in {PLACE_TOLERANCE, INSERTION_RELEASE_TOLERANCE} : \A i \in 1 .. 5 :
       0 <= tol[i] /\ tol[i] <= INSERTION_RELEASE_TOLERANCE[i]
  BY SMT DEF Tolerances, Pose, JOINT_TOLERANCE, PLACE_TOLERANCE, INSERTION_RELEASE_TOLERANCE,
             HORIZONTAL_TOLERANCE, SLOT7_WITHDRAW_TOLERANCE

\* The height is reached with a level wrist, by goals in range.
LEMMA HeightPose ==
  ASSUME ArmTypes
  PROVE LET goal == heightFrom(makeRaisedEntryHeightPose(measuredPose))
        IN /\ goal \in Pose /\ pitch(goal) = pitch(measuredPose)
           /\ \A i \in {1, 2, 5} : goal[i] = present[i]
<1>1. measuredPose \in Pose /\ present \in Pose BY PosesOfTheJob DEF ArmTypes
<1>2. seatedJ2 = 1196 BY SMT DEF seatedJ2
<1> DEFINE h == makeRaisedEntryHeightPose(measuredPose)
<1>3. /\ h \in Pose /\ h[2] = seatedJ2 /\ h[3] = measuredPose[3] - 30
      /\ h[4] = measuredPose[2] + measuredPose[4] - seatedJ2 + 30
  BY <1>1, <1>2, SMT DEF makeRaisedEntryHeightPose, Pose
<1> HIDE DEF h
<1> DEFINE goal == heightFrom(h)
<1>4. /\ goal \in Pose
      /\ goal[1] = present[1] /\ goal[2] = present[2] /\ goal[5] = present[5]
      /\ goal[3] = h[3] /\ goal[4] = h[4] + h[2] - present[2]
  BY <1>1, <1>3, SMT DEF heightFrom, Pose
<1> HIDE DEF goal
<1>5. goal[2] + goal[3] + goal[4] = measuredPose[2] + measuredPose[3] + measuredPose[4]
  BY <1>1, <1>2, <1>3, <1>4, SMT DEF Pose
<1>6. pitch(goal) = pitch(measuredPose) BY <1>5 DEF pitch
<1>7. \A i \in {1, 2, 5} : goal[i] = present[i] BY <1>4
<1> QED BY <1>4, <1>6, <1>7 DEF goal, h
\* The last waypoint of a height is the height.
LEMMA LastWaypoint ==
  ASSUME NEW q \in Pose, NEW g \in Pose, NEW steps \in {4, 6}, \A i \in {1, 2, 5} : g[i] = q[i]
  PROVE [q EXCEPT ![3] = @ + Quotient((g[3] - @) * steps, steps),
                  ![4] = @ + Quotient((g[4] - @) * steps, steps)] = g
<1>1. \A n \in Int : Quotient(n * steps, steps) = n BY SMT DEF Quotient
<1>2. /\ q[3] + Quotient((g[3] - q[3]) * steps, steps) = g[3]
      /\ q[4] + Quotient((g[4] - q[4]) * steps, steps) = g[4]
  BY <1>1, SMT DEF Pose
<1>3. [q EXCEPT ![3] = g[3], ![4] = g[4]] = g BY SMT DEF Pose
<1> QED BY <1>2, <1>3, Zenon

\* A height is sent only when its last waypoint, which is the goal, is in range.
LEMMA HeightInRange ==
  ASSUME ArmTypes, NEW steps \in {4, 6}, NEW comp \in Int, NEW yes, NEW no,
         Height(makeRaisedEntryHeightPose(measuredPose), steps, comp, yes, no)
  PROVE sent' = sent \/ isPoseWithinLimits(sent')
<1> DEFINE goal == heightFrom(makeRaisedEntryHeightPose(measuredPose))
           mid(s) == [present EXCEPT ![3] = @ + Quotient((goal[3] - @) * s, steps),
                                     ![4] = @ + Quotient((goal[4] - @) * s, steps)]
<1>1. goal \in Pose /\ present \in Pose /\ \A i \in {1, 2, 5} : goal[i] = present[i]
  BY HeightPose DEF ArmTypes
<1>2. CASE isPoseWithinLimits(Command(mid(steps), comp))
  <2>1. mid(steps) = goal BY <1>1, LastWaypoint
  <2>2. Command(goal, comp) \in Pose BY <1>1, CommandedPoses
  <2>3. isPoseWithinLimits(Command(goal, comp)) BY <1>2, <2>1
  <2>4. \A off \in Int : isPoseWithinLimits(Lowered(Command(goal, comp), off))
    <3> HIDE DEF goal
    <3> QED BY <2>2, <2>3, LoweredPoses
  <2> QED BY <2>4 DEF Height, Move, places
<1>3. CASE ~ isPoseWithinLimits(Command(mid(steps), comp))
  BY <1>3, SMT DEF Height, places
<1> QED BY <1>2, <1>3

------------------------------------------------------------------------------
\* Only the beginning of a job chooses a slot.
LEMMA HeldKept ==
  ASSUME Next
  PROVE /\ slots' = slots
        /\ \/ UNCHANGED <<slot, test>> /\ (stage = "idle" => stage' = "idle")
           \/ /\ stage = "idle" /\ slot' \in 1 .. 9 /\ validatePlaceSlot(slot', slots[slot'])
              /\ stage' \in {"front", "home"} /\ box' # "ours" /\ UNCHANGED places
<1>1. CASE \E s \in 1 .. 9, t \in BOOLEAN : Begin(s, t) BY <1>1 DEF Begin, Leave
<1>2. CASE HomePose \/ Homing \/ Approaches \/ Leaves \/ Front \/ Turn \/ SetHeight \/ Insert
           \/ InsertAgain
  BY <1>2 DEF HomePose, Homing, Approaches, Leaves, Front, Turn, SetHeight, Insert,
              InsertAgain, At, held, Home
<1>3. CASE TakeOut \/ Prepare \/ Close \/ Release \/ ReleaseAgain
  BY <1>3 DEF TakeOut, Prepare, Close, Release, ReleaseAgain, Grip
<1>4. CASE Withdraw \/ WithdrawAgain \/ returnHomeAfterPlacement
  BY <1>4 DEF Withdraw, WithdrawAgain, returnHomeAfterPlacement, At, held, Opened
<1> QED BY <1>1, <1>2, <1>3, <1>4 DEF Next

\* Wherever a move ends, the joints form a pose.
LEMMA TypesKept == ASSUME ArmTypes, Next PROVE ArmTypes'
<1> DEFINE goal == heightFrom(makeRaisedEntryHeightPose(measuredPose))
           targets == Fixed \cup JobPoses \cup {goal}
           Lands(t) == present' \in {present, t} \/ \E tol \in Tolerances : present' \in Around(t, tol)
<1>1. targets \subseteq Pose BY FixedPoses, PosesOfTheJob, HeightPose
<1>2. \A t \in targets, tol \in Tolerances : Around(t, tol) \subseteq Pose
  BY <1>1, Arrivals, TolerancesTyped
<1>3. \A t \in targets : Lands(t) => present' \in Pose BY <1>1, <1>2 DEF ArmTypes
<1>4. \A t \in Fixed \cup JobPoses : Lands(t) => present' \in Pose BY <1>3
<1> HIDE DEF targets
<1>5. ASSUME Homing \/ HomePose PROVE present' \in Pose
  <2>1. Lands(POSE_HOME) BY <1>5 DEF Homing, HomePose, Home
  <2> QED BY <1>4, <2>1 DEF Fixed
<1>6. ASSUME Approaches PROVE present' \in Pose
  <2>1. \E t \in Fixed : Lands(t)
    BY <1>6 DEF Approaches, MoveTo, Move, Fixed, Tolerances
  <2> QED BY <1>4, <2>1
<1>7. ASSUME Leaves PROVE present' \in Pose
  <2>1. \E t \in Fixed : Lands(t)
    BY <1>7 DEF Leaves, MoveTo, Move, Smooth, places, Fixed, Tolerances
  <2> QED BY <1>4, <2>1
<1>8. ASSUME Front \/ Turn PROVE present' \in Pose
  <2>1. Lands(frontHorizontal(measuredPose)) \/ Lands(slotHorizontal(measuredPose))
    BY <1>8 DEF Front, Turn, Horizontal, Move, LevelTol, Tolerances
  <2> QED BY <1>4, <2>1 DEF JobPoses
<1>9. ASSUME SetHeight PROVE present' \in Pose
  <2>1. Lands(goal) BY <1>9 DEF SetHeight, Height, Move, places, Tolerances
  <2> QED BY <1>3, <2>1 DEF targets
<1>10. ASSUME Insert \/ InsertAgain PROVE present' \in Pose
  <2>1. Lands(insertionPose)
    BY <1>10 DEF Insert, InsertAgain, Smooth, MoveTo, Move, places, Tolerances
  <2> QED BY <1>4, <2>1 DEF JobPoses
<1>11. ASSUME Withdraw \/ WithdrawAgain PROVE present' \in Pose
  <2>1. Lands(withdrawPose)
    BY <1>11 DEF Withdraw, WithdrawAgain, Smooth, MoveTo, Move, places, Tolerances, WithdrawTol
  <2> QED BY <1>4, <2>1 DEF JobPoses
<1>12. ASSUME returnHomeAfterPlacement PROVE present' \in Pose
  <2>1. Lands(POSE_AFTER_HOME) \/ Lands(POSE_HOME)
    BY <1>12 DEF returnHomeAfterPlacement, Smooth, MoveTo, Move, places, Tolerances
  <2> QED BY <1>4, <2>1 DEF Fixed
<1>13. ASSUME \/ \E s \in 1 .. 9, t \in BOOLEAN : Begin(s, t)
              \/ Prepare \/ Close \/ Release \/ ReleaseAgain \/ TakeOut
       PROVE present' \in Pose
  BY <1>13 DEF Begin, Prepare, Close, Release, ReleaseAgain, TakeOut, Grip, places, ArmTypes
<1>14. present' \in Pose
  BY <1>5, <1>6, <1>7, <1>8, <1>9, <1>10, <1>11, <1>12, <1>13 DEF Next
<1>15. slots' = slots /\ slot' \in 1 .. 9
  BY HeldKept DEF ArmTypes
<1> QED BY <1>14, <1>15 DEF ArmTypes

\* A job that has begun in range stays in range.
LEMMA ValidatedKept == ASSUME ArmTypes, Validated, Next PROVE Validated'
<1>1. CASE UNCHANGED <<slot, test>> /\ (stage = "idle" => stage' = "idle")
  BY <1>1, HeldKept DEF Validated, measuredPose
<1>2. CASE validatePlaceSlot(slot', slots[slot'])
  BY <1>2, HeldKept DEF Validated, measuredPose
<1> QED BY <1>1, <1>2, HeldKept

\* Every goal that is sent is in range.
LEMMA LimitsKept == ASSUME ArmTypes, Validated, NothingIsClamped, Next PROVE NothingIsClamped'
<1> DEFINE Fine == sent' = sent \/ \E p \in Fixed : sent' = p
           InJob == \E p \in JobPoses : sent' \in {p, sent, Command(p, Comp(90))}
<1>1. Fine => isPoseWithinLimits(sent') BY FixedPoses DEF NothingIsClamped
<1>2. Comp(90) \in Int /\ Comp(20) \in Int BY DEF Comp
<1>3. ASSUME stage # "idle", InJob PROVE isPoseWithinLimits(sent')
  BY <1>2, <1>3, PosesOfTheJob, CommandedPoses DEF NothingIsClamped
<1>4. ASSUME Homing \/ HomePose \/ Approaches \/ Leaves PROVE Fine
  BY <1>4 DEF Homing, HomePose, Home, Approaches, Leaves, MoveTo, Move, Smooth, places, Fixed
<1>5. ASSUME returnHomeAfterPlacement PROVE Fine
  BY <1>5 DEF returnHomeAfterPlacement, Smooth, MoveTo, Move, places, Fixed
<1>6. ASSUME \/ \E s \in 1 .. 9, t \in BOOLEAN : Begin(s, t)
             \/ Prepare \/ Close \/ Release \/ ReleaseAgain \/ TakeOut
      PROVE Fine
  BY <1>6 DEF Begin, Prepare, Close, Release, ReleaseAgain, TakeOut, Grip, places
<1>7. ASSUME Front \/ Turn PROVE stage # "idle" /\ InJob
  BY <1>7 DEF Front, Turn, At, Horizontal, Move, JobPoses
<1>8. ASSUME Insert \/ InsertAgain PROVE stage # "idle" /\ InJob
  BY <1>8 DEF Insert, InsertAgain, At, Smooth, MoveTo, Move, places, JobPoses
<1>9. ASSUME Withdraw \/ WithdrawAgain PROVE stage # "idle" /\ InJob
  BY <1>9 DEF Withdraw, WithdrawAgain, At, Smooth, MoveTo, Move, places, JobPoses
<1>10. ASSUME SetHeight PROVE isPoseWithinLimits(sent')
  <2>1. CASE slot >= 7
    <3>1. Height(makeRaisedEntryHeightPose(measuredPose), 4, Comp(20), "insert", Back)
      BY <1>10, <2>1 DEF SetHeight
    <3> QED BY <1>2, <3>1, HeightInRange DEF NothingIsClamped
  <2>2. CASE ~(slot >= 7)
    <3>1. Height(makeRaisedEntryHeightPose(measuredPose), 6, Comp(90), "insert", Back)
      BY <1>10, <2>2 DEF SetHeight
    <3> QED BY <1>2, <3>1, HeightInRange DEF NothingIsClamped
  <2> QED BY <2>1, <2>2
<1> QED BY <1>1, <1>3, <1>4, <1>5, <1>6, <1>7, <1>8, <1>9, <1>10 DEF Next, NothingIsClamped

\* At the shelf every pose that is judged is level.
LEMMA LevelKept == ASSUME ArmTypes, LevelAtTheShelf, Next PROVE LevelAtTheShelf'
<1> DEFINE Shelf == {"turn", "height", "insert", "release", "out"}
           Level == \E p \in JobPoses \ {makeRaisedEntryHeightPose(measuredPose)} : aim' = p
           goal == heightFrom(makeRaisedEntryHeightPose(measuredPose))
<1>1. ASSUME stage' \in Shelf, ~ \E s \in 1 .. 9, t \in BOOLEAN : Begin(s, t)
      PROVE pitch(aim') = pitch(measuredPose)
  <2>1. Level => pitch(aim') = pitch(measuredPose) BY PosesOfTheJob
  <2>2. aim' = goal => pitch(aim') = pitch(measuredPose) BY HeightPose
  <2>3. CASE Front \/ Turn
    <3>1. aim' \in {frontHorizontal(measuredPose), slotHorizontal(measuredPose)}
      BY <2>3 DEF Front, Turn, Horizontal, Move
    <3>2. pitch(frontHorizontal(measuredPose)) = pitch(measuredPose)
          /\ pitch(slotHorizontal(measuredPose)) = pitch(measuredPose)
      BY ComputedLevel, PosesOfTheJob DEF ArmTypes
    <3> QED BY <3>1, <3>2
  <2>4. CASE SetHeight
    <3>1. aim' = goal BY <1>1, <2>4 DEF SetHeight, Height, Move, Back
    <3> QED BY <2>2, <3>1
  <2>5. CASE Insert \/ InsertAgain
    <3>1. aim' = insertionPose
      BY <1>1, <2>5 DEF Insert, InsertAgain, Smooth, MoveTo, Move
    <3> QED BY <3>1, ComputedLevel, PosesOfTheJob DEF insertionPose, ArmTypes
  <2>6. CASE Withdraw \/ WithdrawAgain
    <3>1. aim' = withdrawPose
      BY <1>1, <2>6 DEF Withdraw, WithdrawAgain, Smooth, MoveTo, Move
    <3> QED BY <3>1, ComputedLevel, PosesOfTheJob DEF withdrawPose, ArmTypes
  <2>7. CASE HomePose \/ TakeOut \/ Homing \/ Approaches \/ Prepare \/ Close \/ Leaves
    BY <1>1, <2>7 DEF HomePose, TakeOut, Homing, Home, At, Approaches, Leaves, Prepare, Close,
                      Grip, MoveTo, Move, Smooth
  <2>8. CASE Release \/ ReleaseAgain \/ returnHomeAfterPlacement
    BY <1>1, <2>8 DEF Release, ReleaseAgain, returnHomeAfterPlacement, Grip, MoveTo, Move, Smooth
  <2> QED BY <1>1, <2>3, <2>4, <2>5, <2>6, <2>7, <2>8 DEF Next
<1>2. ASSUME \E s \in 1 .. 9, t \in BOOLEAN : Begin(s, t) PROVE stage' \notin Shelf
  BY <1>2 DEF Begin
<1>3. stage' \in Shelf => measuredPose' = measuredPose BY <1>2, HeldKept DEF measuredPose
<1> QED BY <1>1, <1>2, <1>3 DEF LevelAtTheShelf, pitch

\* Where the gripper opens for the box, the arm has arrived in the slot.
LEMMA SlotKept == ASSUME ArmTypes, InTheSlot, Next PROVE InTheSlot'
<1>1. ASSUME stage' \in {"release", "release again"}
      PROVE /\ UNCHANGED <<slots, slot>>
            /\ Within(present', insertionPose, INSERTION_RELEASE_TOLERANCE)
  <2>1. CASE Insert \/ InsertAgain
    <3>1. \E tol \in {PLACE_TOLERANCE, INSERTION_RELEASE_TOLERANCE} :
            present' \in Around(insertionPose, tol)
      BY <1>1, <2>1 DEF Insert, InsertAgain, Smooth, MoveTo, Move
    <3>2. insertionPose \in Pose BY PosesOfTheJob DEF JobPoses
    <3>3. UNCHANGED <<slots, slot>> BY <2>1 DEF Insert, InsertAgain, At, held
    <3> QED BY <3>1, <3>2, <3>3, Arrivals, TolerancesTyped DEF Tolerances
  <2>2. CASE Release
    BY <1>1, <2>2 DEF Release, Grip, places, InTheSlot
  <2>3. CASE \E s \in 1 .. 9, t \in BOOLEAN : Begin(s, t)
    BY <1>1, <2>3 DEF Begin
  <2>4. CASE HomePose \/ TakeOut \/ Homing \/ Approaches \/ Prepare \/ Close \/ Leaves
    BY <1>1, <2>4 DEF HomePose, TakeOut, Homing, Home, At, Approaches, Leaves, Prepare, Close,
                      Grip, MoveTo, Move, Smooth
  <2>5. CASE Front \/ Turn \/ SetHeight
    BY <1>1, <2>5 DEF Front, Turn, SetHeight, Horizontal, Height, Move, Back
  <2>6. CASE ReleaseAgain \/ Withdraw \/ WithdrawAgain \/ returnHomeAfterPlacement
    BY <1>1, <2>6 DEF ReleaseAgain, Withdraw, WithdrawAgain, returnHomeAfterPlacement, Grip,
                      MoveTo, Move, Smooth
  <2> QED BY <2>1, <2>2, <2>3, <2>4, <2>5, <2>6 DEF Next
<1> QED BY <1>1 DEF InTheSlot, insertionPose, measuredPose

\* Only the grip at the pick place takes a box, and a test does not grip.
LEMMA BoxKept == ASSUME NotOurs, FetchesInJobs, Next PROVE NotOurs'
<1>1. CASE \E s \in 1 .. 9, t \in BOOLEAN : Begin(s, t)
  BY <1>1 DEF Begin, Leave, NotOurs
<1>2. CASE HomePose \/ TakeOut \/ Homing \/ Approaches
  BY <1>2 DEF HomePose, TakeOut, Homing, Home, At, held, Approaches, MoveTo, Move, NotOurs, Unladen
<1>3. CASE Prepare \/ Close
  <2>1. stage' \notin Unladen \/ box' # "ours"
    BY <1>3 DEF Prepare, Close, Grip, NotOurs, Unladen
  <2>2. ~test' BY <1>3 DEF Prepare, Close, Grip, FetchesInJobs, Fetching
  <2> QED BY <2>1, <2>2 DEF NotOurs
<1>4. CASE Leaves
  BY <1>4 DEF Leaves, At, held, MoveTo, Move, Smooth, NotOurs, Unladen
<1>5. CASE Front \/ Turn \/ SetHeight
  BY <1>5 DEF Front, Turn, SetHeight, At, held, Horizontal, Height, Move, Back, NotOurs, Unladen
<1>6. CASE Insert \/ InsertAgain
  BY <1>6 DEF Insert, InsertAgain, At, held, Smooth, MoveTo, Move, NotOurs, Unladen
<1>7. CASE Release \/ ReleaseAgain
  BY <1>7 DEF Release, ReleaseAgain, Grip, NotOurs, Unladen
<1>8. CASE Withdraw \/ WithdrawAgain
  BY <1>8 DEF Withdraw, WithdrawAgain, At, held, Opened, Smooth, MoveTo, Move, NotOurs, Unladen
<1>9. CASE returnHomeAfterPlacement
  BY <1>9 DEF returnHomeAfterPlacement, At, held, Opened, Smooth, MoveTo, Move, NotOurs, Unladen
<1> QED BY <1>1, <1>2, <1>3, <1>4, <1>5, <1>6, <1>7, <1>8, <1>9 DEF Next

\* The stages up to the grip belong to jobs.
LEMMA FetchingKept == ASSUME FetchesInJobs, Next PROVE FetchesInJobs'
<1>1. CASE \E s \in 1 .. 9, t \in BOOLEAN : Begin(s, t)
  BY <1>1 DEF Begin, FetchesInJobs, Fetching
<1>2. CASE HomePose \/ TakeOut \/ Homing \/ Approaches
  BY <1>2 DEF HomePose, TakeOut, Homing, Home, At, held, Approaches, MoveTo, Move, FetchesInJobs,
              Fetching
<1>3. CASE Prepare \/ Close
  BY <1>3 DEF Prepare, Close, Grip, FetchesInJobs, Fetching
<1>4. CASE Leaves \/ Front \/ Turn \/ SetHeight
  <2>1. stage' \notin Fetching
    BY <1>4 DEF Leaves, Front, Turn, SetHeight, Horizontal, Height, Back, MoveTo, Move, Smooth,
                Fetching
  <2> QED BY <2>1 DEF FetchesInJobs
<1>5. CASE Insert \/ InsertAgain \/ Release \/ ReleaseAgain \/ Withdraw \/ WithdrawAgain
           \/ returnHomeAfterPlacement
  <2>1. stage' \notin Fetching
    BY <1>5 DEF Insert, InsertAgain, Release, ReleaseAgain, Withdraw, WithdrawAgain,
                returnHomeAfterPlacement, Grip, MoveTo, Move, Smooth, Fetching
  <2> QED BY <2>1 DEF FetchesInJobs
<1> QED BY <1>1, <1>2, <1>3, <1>4, <1>5 DEF Next

\* The invariant holds at first, and every step keeps it.
LEMMA InvInit == Init => ArmInv
<1> SUFFICES ASSUME Init PROVE ArmInv OBVIOUS
<1>1. ArmTypes
  BY CalibrationsAssumption, FixedPoses DEF Init, ArmTypes, Pose, Fixed
<1>2. Validated /\ LevelAtTheShelf /\ InTheSlot /\ NotOurs /\ FetchesInJobs
  BY DEF Init, Validated, LevelAtTheShelf, InTheSlot, NotOurs, Unladen, FetchesInJobs, Fetching
<1>3. NothingIsClamped BY FixedPoses DEF Init, NothingIsClamped, Fixed
<1> QED BY <1>1, <1>2, <1>3 DEF ArmInv

LEMMA InvNext == ArmInv /\ [Next]_vars => ArmInv'
<1>1. ASSUME ArmInv, Next PROVE ArmInv'
  BY <1>1, TypesKept, ValidatedKept, LimitsKept, LevelKept, SlotKept, BoxKept, FetchingKept
  DEF ArmInv
<1>2. ASSUME ArmInv, UNCHANGED vars PROVE ArmInv'
  BY <1>2 DEF ArmInv, vars, places, held, ArmTypes, Validated, LevelAtTheShelf, NothingIsClamped,
              InTheSlot, NotOurs, FetchesInJobs, measuredPose, insertionPose
<1> QED BY <1>1, <1>2

\* The three properties hold together with what they rest on.
THEOREM ArmInvHolds == Spec => []ArmInv
  BY InvInit, InvNext, PTL DEF Spec

\* Whatever poses were measured, the wrist is level at the shelf
\* (moveHeightWithJ3J4Only and the pose builders).
THEOREM Level == Spec => []LevelAtTheShelf
<1>1. ArmInv => LevelAtTheShelf BY DEF ArmInv
<1> QED BY <1>1, ArmInvHolds, PTL

\* Whatever poses were measured, moveArm gets no goal out of range
\* (validatePlaceSlot, clampJoint).
THEOREM Unclamped == Spec => []NothingIsClamped
<1>1. ArmInv => NothingIsClamped BY DEF ArmInv
<1> QED BY <1>1, ArmInvHolds, PTL

\* The picked box leaves the gripper in its slot (moveHeldObjectToSlot and all
\* the retries that open the gripper).
THEOREM LetGo == Spec => LetGoInTheSlot
<1> DEFINE Good == box = "ours" /\ box' = "none" /\ stage # "idle"
                     => Within(present, insertionPose, INSERTION_RELEASE_TOLERANCE)
<1>1. ASSUME ArmInv, Next PROVE Good
  <2>1. CASE Release \/ ReleaseAgain BY <1>1, <2>1 DEF Release, ReleaseAgain, ArmInv, InTheSlot
  <2>2. CASE Prepare \/ Close
    BY <1>1, <2>2 DEF Prepare, Close, ArmInv, NotOurs, Unladen
  <2>3. CASE Withdraw \/ WithdrawAgain \/ returnHomeAfterPlacement
    BY <1>1, <2>3 DEF Withdraw, WithdrawAgain, returnHomeAfterPlacement, At, held, ArmInv,
                      NotOurs, Unladen
  <2>4. CASE TakeOut \/ \E s \in 1 .. 9, t \in BOOLEAN : Begin(s, t)
    BY <2>4 DEF TakeOut, Begin
  <2>5. CASE HomePose \/ Homing \/ Approaches \/ Leaves \/ Front \/ Turn \/ SetHeight \/ Insert
             \/ InsertAgain
    BY <2>5 DEF HomePose, Homing, Approaches, Leaves, Front, Turn, SetHeight, Insert,
                InsertAgain, At, held
  <2> QED BY <1>1, <2>1, <2>2, <2>3, <2>4, <2>5 DEF Next
<1>2. ArmInv /\ [Next]_vars => [Good]_vars BY <1>1
<1> QED BY <1>2, ArmInvHolds, PTL DEF Spec, LetGoInTheSlot
=============================================================================

------------------------------ MODULE Clearance ------------------------------
(* The room to move and to turn that one look of the lidar shows               *)
(* (robot_sense.c, corner_escape.c).  Lengths are in mm and angles in degrees, *)
(* counterclockwise from straight ahead.  A scene is a look: the readings, as   *)
(* pairs of direction and range, that it would show from each place on the      *)
(* car's axis, by steps of 5 mm, and its points along and beside the axis.      *)
EXTENDS Measures

CONSTANTS HalfLength, HalfWidth,   \* of the car
          Outline,     \* its edge from the centre at 1, 2, ... 91: 0 to 90 degrees
          SideMargin, WallMargin, ShiftMax,   \* CORNER_..._MARGIN_M, _SHIFT_MAX_M
          TurnNeed, BackoffNeed, FreeRunNeed, \* room to turn, and to drive off
          TurnMax, TurnMin,                   \* CORNER_TURN_MAX_DEG, _MIN_DEG
          Scenes, Turns                       \* looks, and turns that are wanted

Far == 9900

\* The nearest reading around a direction.
sector_min(readings, center, half) ==
  Least({Far} \cup {r[2] : r \in {q \in readings :
           q[2] > 30 /\ Abs(((q[1] - center + 180) % 360) - 180) <= half}})

\* How far the car can drive straight: only what stands in its way counts, not what
\* it passes.
axis_free_dist(points, dir) ==
  Least({Far} \cup {dir * p[1] - HalfLength : p \in {q \in points :
           Abs(q[2]) <= HalfWidth + SideMargin /\ dir * q[1] > 0}})

\* The edge of the car in a direction, the same in each quarter.
body_reach(phi) == LET a == phi % 180 IN Outline[1 + (IF a > 90 THEN 180 - a ELSE a)]

\* The least room that is left while the car turns, looked at nine times.
rot_gap(readings, turn) ==
  LET need(dir) == Greatest({body_reach(dir - ((turn * k) \div 8)) : k \in 0..8})
  IN Least({Far} \cup {r[2] - need(r[1]) : r \in {q \in readings : q[2] > 30}})
rot_gap_shifted(scene, shift, turn) == rot_gap(scene.after[shift], turn)

rotation_is_safe(readings, turn, margin) == rot_gap(readings, turn) >= margin

\* How much of a turn, in 64ths, leaves the margin: all of it, or by halving.
max_safe_rotation_frac(readings, turn, margin) ==
  LET safe(n) == rotation_is_safe(readings, (turn * n) \div 64, margin)
      lo[i \in 0..6] == IF i = 0 THEN 0
                        ELSE LET mid == lo[i - 1] + <<32, 16, 8, 4, 2, 1>>[i]
                             IN IF safe(mid) THEN mid ELSE lo[i - 1]
  IN IF safe(64) THEN 64 ELSE lo[6]

\* The shortest drive along the axis, backward before forward, after which there is
\* the room that is needed to turn; if there is none, the one with the most room.
best_axis_shift(scene, turn, back, fwd, need) ==
  LET gap(s) == rot_gap_shifted(scene, s, turn)
      Shift(k) == IF k % 2 = 1 THEN -((k + 1) \div 2) ELSE k \div 2
      open(s) == 5 * s <= fwd /\ -5 * s <= back
      best[k \in 0..2 * (ShiftMax \div 5)] ==
        IF k = 0 THEN 0
        ELSE LET b == best[k - 1]
                 s == Shift(k)
             IN IF ~(b # 0 /\ gap(b) >= need) /\ open(s) /\ (gap(s) >= need \/ gap(s) > gap(b))
                THEN s ELSE b
  IN best[2 * (ShiftMax \div 5)]

-----------------------------------------------------------------------------
Limit(free, most) == Least({Greatest({0, free - WallMargin}), most, ShiftMax})

\* What a round of corner_escape finds: whether the turn can be made here, whether
\* the car can drive off, and the move that helps: a shift, a turn to the side with
\* more room, or none of them, with or without room for an arc.
Corner(scene, turn) ==
  LET front == axis_free_dist(scene.points, 1)
      rear == axis_free_dist(scene.points, -1)
      gap(s) == rot_gap_shifted(scene, s, turn)
      shift == best_axis_shift(scene, turn, Limit(rear, ShiftMax), Limit(front, ShiftMax), TurnNeed)
      ccw == rot_gap_shifted(scene, 0, 30)
      cw == rot_gap_shifted(scene, 0, -30)
      sign == IF ccw > cw + 2 THEN 1 ELSE IF cw > ccw + 2 THEN -1
              ELSE IF turn >= 0 THEN 1 ELSE -1
      frac == max_safe_rotation_frac(scene.after[0], sign * TurnMax, TurnNeed)
  IN [room |-> gap(0) >= TurnNeed,
      run |-> front >= FreeRunNeed \/ rear >= FreeRunNeed,
      way |-> IF shift # 0 /\ gap(shift) > gap(0) + 3 THEN "shift"
              ELSE IF TurnMax * frac >= 64 * TurnMin THEN "turn"
              ELSE IF front >= 8 \/ rear >= 8 THEN "arc" ELSE "wedged"]
Corners == {Corner(scene, turn) : scene \in Scenes, turn \in Turns}

\* What a round of corner_backoff finds, when it may still move by left.
Backoff(scene, turn, left) ==
  LET front == axis_free_dist(scene.points, 1)
      rear == axis_free_dist(scene.points, -1)
      gap(s) == rot_gap_shifted(scene, s, turn)
      shift == best_axis_shift(scene, turn, Limit(rear, left), Limit(front, left), BackoffNeed)
  IN IF gap(0) >= BackoffNeed THEN "room"
     ELSE IF left > 0 /\ shift # 0 /\ gap(shift) > gap(0) + 2 THEN "shift" ELSE "none"
Backoffs == {Backoff(scene, turn, left) : scene \in Scenes, turn \in Turns, left \in {0, 30, 120}}
=============================================================================

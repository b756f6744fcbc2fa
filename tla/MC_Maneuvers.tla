---------------------------- MODULE MC_Maneuvers -----------------------------
(* The routines of the shuttle for TLC: the map of the set (maps/set_map.txt, *)
(* made by maps/make_slot_map.py with slots of 210 mm) and what may be seen.  *)
EXTENDS Maneuvers

\* A car of 255 by 130 mm: half the length over the cosine or half the width over
\* the sine, the smaller one, for 0 to 90 degrees.
MCOutline ==
  <<128, 128, 128, 128, 128, 128, 128, 128, 129, 129, 129, 130, 130, 131,
    131, 132, 133, 133, 134, 135, 136, 137, 138, 139, 140, 141, 142, 143,
    138, 134, 130, 126, 123, 119, 116, 113, 111, 108, 106, 103, 101, 99, 97,
    95, 94, 92, 90, 89, 87, 86, 85, 84, 82, 81, 80, 79, 78, 78, 77, 76, 75,
    74, 74, 73, 72, 72, 71, 71, 70, 70, 69, 69, 68, 68, 68, 67, 67, 67, 66,
    66, 66, 66, 66, 65, 65, 65, 65, 65, 65, 65, 65>>

\* Walls straight ahead, behind and to the left of the car.  A step along the axis
\* brings it nearer to one and away from the other.
Scene(ahead, behind, side) ==
  [points |-> {<<ahead, 0>>, <<-behind, 0>>, <<0, side>>},
   after |-> [s \in -12..12 |-> {<<0, ahead - 5 * s>>, <<180, behind + 5 * s>>, <<90, side>>}]]
\* Open; a wall ahead; walls ahead and behind; a wall beside the car with room for a
\* part of the turn, for none of it, and with no room to drive either.
MCScenes == {Scene(600, 600, 300), Scene(140, 600, 300), Scene(135, 150, 300),
             Scene(200, 200, 80), Scene(200, 200, 70), Scene(131, 131, 70)}

\* The drive that is chosen is within its limits, makes the room when any drive can,
\* with the shortest one, and never makes less room than there was.
ASSUME ShiftIsShortest ==
  \A scene \in MCScenes, back \in {0, 12, 60}, fwd \in {0, 60}, need \in {8, 15, 200} :
    LET shift == best_axis_shift(scene, 90, back, fwd, need)
        gap(s) == rot_gap_shifted(scene, s, 90)
        open == {s \in -12..12 : 5 * s <= fwd /\ -5 * s <= back}
        enough == {s \in open : gap(s) >= need}
    IN gap(0) < need =>
         /\ shift \in open
         /\ IF enough # {} THEN shift \in enough /\ \A s \in enough : Abs(shift) <= Abs(s)
            ELSE \A s \in open : gap(s) <= gap(shift)

\* Halving finds the largest part of the turn that is safe.
ASSUME TurnIsLargest ==
  \A scene \in MCScenes, turn \in {60, -60, 90} :
    LET safe(n) == rotation_is_safe(scene.after[0], (turn * n) \div 64, 8)
        frac == max_safe_rotation_frac(scene.after[0], turn, 8)
    IN /\ frac > 0 => safe(frac)
       /\ \A n \in 1..64 : safe(n) => n <= frac

\* Every way a round of an escape can go on is among the scenes.
ASSUME EveryWay ==
  /\ {corner.way : corner \in Corners} = {"shift", "turn", "arc", "wedged"}
  /\ Backoffs = {"room", "shift", "none"}

\* Two slots that widen to a funnel, 105 cells apart, and the aisle above them, in
\* cells of 10 mm.
InSlot(c, r) == /\ r \in 5..44
                /\ LET i == r - 31      \* row of the funnel
                   IN IF i < 0 THEN c \in 12..32
                      ELSE c \in ((1225 - 50 * i) \div 100) .. ((3375 + 50 * i) \div 100 - 1)
MCFreeCells == {p \in (5..144) \X (5..84) :
                  p[2] >= 45 \/ InSlot(p[1], p[2]) \/ InSlot(p[1] - 105, p[2])}

\* The walls of a slot as the car sees them from its lane, to the left and right.
Ranges(left, right, rear) == {<<88, left>>, <<-90, right>>, <<179, rear>>, <<20, 60>>}
Wall(n, yaw) == [points |-> n, spread |-> 90, rms |-> 2, yaw |-> yaw]
Lane(y, fit, all, far) == [y |-> y, fit |-> fit, all |-> all, far |-> far]

\* A car in slot A at a depth of y = 200, and what may be different.
Good == [count |-> 400, readings |-> Ranges(100, 105, 645), left |-> Wall(40, 0),
         right |-> Wall(40, 1), far |-> 200, x |-> 225, y |-> 200, th |-> 0,
         lane |-> <<Lane(200, 900, 950, 930), Lane(200, 700, 850, 690)>>]
MCViews ==
  LET Looks == {Good, [Good EXCEPT !.count = 30], [Good EXCEPT !.far = 10]}
               \cup {[Good EXCEPT !.readings = r] :
                       r \in {Ranges(60, 150, 645), Ranges(100, 300, 645), Ranges(100, 105, 900)}}
               \cup {[Good EXCEPT !.left = w] : w \in {Wall(5, 0), Wall(40, 12)}}
               \cup {[Good EXCEPT !.lane[1].far = f] : f \in {740, 690}}
  IN {[look EXCEPT !.x = x, !.y = y] : look \in Looks, x \in {225, 255, 600, 1275}, y \in {200, 260}}

\* The map shows both slots, from any place on their axis: how wide, how deep and
\* how long they are, and the wall of the aisle behind them.
ASSUME SlotsAreFound ==
  \A i \in {1, 2}, probe \in {128, 648} :
    LET geom == slot_map_geom(Lanes[i], probe)
    IN /\ geom.ok /\ Abs(geom.center - Lanes[i]) <= 5 /\ Abs(geom.half - 100) <= 5
       /\ geom.inner \in 50..60 /\ geom.mouth \in 310..345 /\ geom.back \in 845..860

\* No slot is seen where the aisle is.
ASSUME AisleIsNoSlot == ~slot_map_geom(600, 648).ok

\* A search that starts with the best of a coarse one finds the peak to 2 mm.
ASSUME DepthIsFound ==
  \A y \in 140..180 : Abs(slot_depth_match(Lane(y, 900, 0, 0), 128, 200) - y) <= 1

-----------------------------------------------------------------------------
\* The settings of run_shuttle and of relocalize_after_move, a pose that is trusted,
\* and a scan that fits best in one place.
Driving == [window |-> 150, step |-> 30, arc |-> 24, arcStep |-> 6, jump |-> 70, swing |-> 24]
AfterMove == [window |-> 220, step |-> 20, arc |-> 16, arcStep |-> 4, jump |-> 0, swing |-> 0]
Trusted == [pose |-> [x |-> 0, th |-> 0], quality |-> 900, streak |-> 0, request |-> 0]
Peak(x, th) == {[x |-> x, th |-> th, fit |-> 900]}
Still == [x |-> 0, th |-> 0]
Follow(set, sight, n) ==
  LET track[i \in 0..n] == IF i = 0 THEN Trusted ELSE slam_localize_step(track[i - 1], set, Still, sight)
  IN track[n]

\* A match in the right place, and one too far off.
MCFollows == {[track |-> Trusted, set |-> Driving, move |-> Still, sight |-> Peak(x, 0)] : x \in {20, 250}}

\* A car that is not more than 150 mm and 12 degrees from where it is taken to be is
\* found in two steps, to 5 mm; without the gate in one, within 220 mm and 8 degrees.
ASSUME PoseIsFound ==
  LET Found(set, n, x, th) ==
        LET track == Follow(set, Peak(x, th), n)
        IN Abs(track.pose.x - x) <= 5 /\ track.pose.th = th /\ track.quality >= LostQuality
  IN /\ \A x \in {-150, -60, 0, 110, 150}, th \in {-24, 0, 24} : Found(Driving, 2, x, th)
     /\ \A x \in {-220, 0, 150}, th \in {-16, 0, 16} : Found(AfterMove, 1, x, th)

\* The search after a bad match minds the way only: a car that stands still turns by
\* 20 degrees in one step, where the gate leaves 12.
ASSUME SearchMayTurn == Follow(Driving, Peak(100, 40), 1).pose = [x |-> 100, th |-> 40]

\* Every way a look can end is among the views.
ASSUME EveryVerdict ==
  {slot_reanchor(view, lane).verdict : view \in MCViews, lane \in {1, 2}}
    = {"blind", "agrees", "anchored", "this lane", "other lane", "undecided"}
=============================================================================

------------------------------ MODULE SlotSight ------------------------------
(* What the lidar tells the car inside a slot (robot_slot_geom.c): the shape   *)
(* of a slot as the map has it, the car's place in it, which of the slots it   *)
(* is, and whether the estimated pose is set anew.  Lengths are in mm, angles  *)
(* in degrees, fits in per mille.  The sums behind a fitted line and behind a  *)
(* match of the scan with the map are left out: a view holds their results.    *)
EXTENDS Clearance, PoseTrack, Sequences, FiniteSets
LOCAL INSTANCE SequencesExt

CONSTANTS FreeCells,        \* the map: the cells that are not walls
          Resolution,       \* of the map, an even number of mm
          PointA, PointB,   \* x of the two parking places
          ProbeY,           \* a y on the axis of the slots
          HalfBody,         \* half the length of the car
          Views,            \* what the car may see: see slot_measure
          Follows           \* what a step of the tracker may start from

\* The lanes of the slots, 50 mm apart or more, at most eight.
slot_lanes_set(xs) ==
  FoldLeft(LAMBDA lanes, x : IF Len(lanes) < 8 /\ \A i \in DOMAIN lanes : Abs(lanes[i] - x) >= 50
                             THEN Append(lanes, x) ELSE lanes, <<>>, xs)
Lanes == slot_lanes_set(<<PointA, PointB>>)

-----------------------------------------------------------------------------
\* Outside the map everything is a wall.
grid_occ(x, y) == <<x \div Resolution, y \div Resolution>> \notin FreeCells

\* How far the map is free from (x, y) on, looked at every half cell.
FreeRun(x, y, dx, dy, limit) ==
  LET step == Resolution \div 2
      occ(k) == grid_occ(x + dx * k * step, y + dy * k * step)
      last == (limit - 1) \div step
  IN step * CHOOSE n \in 0..last : (n = last \/ occ(n + 1)) /\ \A k \in 1..n : ~occ(k)

\* The bottom of the slot, its width a little above it, the end of its parallel
\* part and the far wall of the aisle.
slot_map_geom(lane, probe) ==
  LET inner == probe - FreeRun(lane, probe, 0, -1, 1200)
      ref == inner + 3 * Resolution
      right == FreeRun(lane, ref, 1, 0, 800)
      left == FreeRun(lane, ref, -1, 0, 800)
      half == (left + right) \div 2
      open == FreeRun(lane, ref, 0, 1, 2000)
      width(y) == FreeRun(lane, y, 1, 0, 1000) + FreeRun(lane, y, -1, 0, 1000)
      narrow == {d \in 1..open : d % (Resolution \div 2) = 0 /\ width(ref + d) <= 2 * half + 30}
      mouth == ref + Greatest(narrow \cup {0})
  IN [ok |-> /\ ~grid_occ(lane, probe) /\ ~grid_occ(lane, ref)
             /\ half \in 40..250 /\ ref + open > mouth + 50,
      center |-> lane + (right - left) \div 2, half |-> half, inner |-> inner,
      mouth |-> mouth, back |-> ref + open + Resolution]

Geoms == {<<i, slot_map_geom(Lanes[i], ProbeY)>> : i \in DOMAIN Lanes}
Geom(i) == (CHOOSE g \in Geoms : g[1] = i)[2]

-----------------------------------------------------------------------------
\* The angle of a wall, or none: a line needs enough points, spread along the
\* wall, close to it and no more than 25 degrees off.  The fit, which drops the
\* points that do not lie on the wall, is what the view says of the wall.
wall_slope(wall) ==
  IF wall.points >= 10 /\ wall.spread >= 80 /\ wall.rms <= 6 /\ Abs(wall.yaw) <= 25
  THEN {wall.yaw} ELSE {}

\* The depth with x and angle held: first every 10 mm, then every 2 mm around the
\* best, the first of equals.  The match falls off from one peak.
slot_depth_match(peak, lo, hi) ==
  LET score(y) == peak.fit - Abs(y - peak.y)
      First(ys) == CHOOSE y \in ys : \A z \in ys : score(z) < score(y) \/ (score(z) = score(y) /\ y <= z)
      coarse == First({lo + 10 * k : k \in 0..((hi - lo) \div 10)})
      fine == First({coarse + 2 * k : k \in -5..5})
  IN IF score(fine) > score(coarse) THEN fine ELSE coarse

\* The car's place in a slot of that shape, if both walls are there and as far apart
\* as the map says: its offset, its angle when the walls agree on one, its depth when
\* the angle is known, the match is good and the ray to the rear does not contradict.
PlaceIn(geom, view, i) ==
  LET left == sector_min(view.readings, 90, 20)
      right == sector_min(view.readings, -90, 20)
      rear == sector_min(view.readings, 180, 8)
      yaws == {(a + b) \div 2 : <<a, b>> \in
                 {p \in wall_slope(view.left) \X wall_slope(view.right) : Abs(p[1] - p[2]) < 5}}
      lo == geom.inner + HalfBody - 50
      hi == IF geom.mouth + 120 <= lo THEN lo + 50 ELSE geom.mouth + 120
      y == slot_depth_match(view.lane[i], lo, hi)
      fit == view.lane[i].fit - Abs(y - view.lane[i].y)
      rear_y == geom.back - rear
  IN [ok |-> /\ geom.ok /\ view.count >= 40
             /\ {left, right} \subseteq 20..250 /\ Abs(left + right - 2 * geom.half) <= 45,
      lat |-> (right - left) \div 2, yaw |-> yaws, y |-> y,
      depth_ok |-> /\ yaws # {} /\ fit >= 500 /\ y \in lo..hi /\ y <= geom.mouth - 20
                   /\ rear < 9000 /\ rear_y > 0 => Abs(rear_y - y) <= 80]
slot_measure(view, i) == PlaceIn(Geom(i), view, i)

-----------------------------------------------------------------------------
\* Only points beyond the walls of a slot tell the slots apart; if they are too
\* few, all points are taken.
map_fit_far(view, i) == IF view.far < 25 THEN -1 ELSE view.lane[i].far

\* Which slot: the best of those the car may be in, by a margin; the lane that was
\* commanded gets a little more, which decides only between equals.
BestOf(seen, view, prefer) ==
  LET fit == [i \in seen |-> (IF map_fit_far(view, i) < 0 THEN view.lane[i].all
                              ELSE map_fit_far(view, i)) + (IF i = prefer THEN 5 ELSE 0)]
      best == CHOOSE i \in seen : \A j \in seen : fit[j] < fit[i] \/ (fit[j] = fit[i] /\ i <= j)
      second == Greatest({-1} \cup {fit[j] : j \in seen \ {best}})
  IN IF view.count < 40 \/ seen = {} THEN [decisive |-> FALSE]
     ELSE [decisive |-> /\ view.lane[best].all >= 800 /\ fit[best] >= 700
                        /\ Cardinality(seen) = 1 \/ fit[best] - second >= 60,
           lane |-> best, fix |-> slot_measure(view, best)]
slot_identify(view, prefer) ==
  BestOf({i \in DOMAIN Lanes : slot_measure(view, i).ok}, view, prefer)

\* What the pose estimate, at view.x, view.y and view.th off the axis, is worth in
\* the lane the car was sent to: nothing to compare it with; as good as the lidar;
\* set anew; so far off that the slots are compared, and then this lane, the other
\* lane or no decision.
Judged(view, lane, geom, fix, pick) ==
  LET dx == geom.center + fix.lat - view.x
      dy == IF fix.depth_ok THEN fix.y - view.y ELSE 0
      turned == \A yaw \in fix.yaw : Abs(yaw - view.th) < 4
  IN CASE ~fix.ok -> [fix |-> fix, verdict |-> "blind"]
       [] fix.ok /\ (Abs(view.x - geom.center) > 350 \/ Abs(dx) > 350) ->
            IF pick.decisive
            THEN [fix |-> pick.fix,
                  verdict |-> IF pick.lane = lane THEN "this lane" ELSE "other lane"]
            ELSE [fix |-> fix, verdict |-> "undecided"]
       [] OTHER -> [fix |-> fix, verdict |-> IF Abs(dx) < 20 /\ Abs(dy) < 35 /\ turned
                                              THEN "agrees" ELSE "anchored"]
slot_reanchor(view, lane) ==
  Judged(view, lane, Geom(lane), slot_measure(view, lane), slot_identify(view, lane))

\* What is left in slam.relocalize_request: a pose set anew takes it back, no
\* decision adds to it, and otherwise it is what slam_localize_step has left.
relocalize_request(verdict) ==
  CASE verdict \in {"anchored", "this lane", "other lane"} -> {0}
    [] verdict = "undecided" -> {1}
    [] OTHER -> {Least({1, slam_localize_step(f.track, f.set, f.move, f.sight).request}) : f \in Follows}

\* The lane and the middle of it, as a drive tells them apart.
Fix(fix) == IF ~fix.ok THEN "none" ELSE IF Abs(fix.lat) <= 30 THEN "in lane" ELSE "off lane"

\* All that a look inside a slot can come to.
Anchors ==
  LET seen == {slot_reanchor(view, lane) : view \in Views, lane \in DOMAIN Lanes}
  IN UNION {[fix : {Fix(a.fix)}, wrong_lane : {a.verdict = "other lane"},
             request : relocalize_request(a.verdict)] : a \in seen}
=============================================================================

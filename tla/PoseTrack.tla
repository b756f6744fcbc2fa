------------------------------ MODULE PoseTrack ------------------------------
(* How the shuttle follows its pose on a fixed map (slam.c): the wheels predict *)
(* it, the scan is matched with the map around the prediction, a match that is *)
(* too far off is cut short or dropped, and after a bad match, or several that  *)
(* were too far off, the surroundings are searched.  One coordinate stands for  *)
(* two.  Lengths are in mm, angles in half degrees, likelihoods in per mille.   *)
(* A sight holds the poses the scan fits best.                                  *)
EXTENDS Measures

\* The settings of a search: how far and by what steps, and the largest leap in
\* place and angle that is taken in one step; 0 allows every leap.
Settings == [window : Nat, step : Nat \ {0}, arc : Nat, arcStep : Nat \ {0},
             jump : Nat, swing : Nat]
Poses == [x : Int, th : Int]
Tracks == [pose : Poses, quality : Nat, streak : Nat, request : Nat]
Sights == SUBSET [x : Int, th : Int, fit : 0..1000]

\* The likelihood of a point falls with the distance: slowly in the field that
\* guides the search, fast in the one that decides.
Broad == 2
Sharp == 6
Fit(sight, fall, pose) ==
  Greatest({0} \cup {peak.fit - fall * (Abs(pose.x - peak.x) + 4 * Abs(pose.th - peak.th)) : peak \in sight})
match_quality(sight, pose) == Fit(sight, Sharp, pose)

Grid(pose, window, step, arc, arcStep) ==
  {[x |-> pose.x - window + step * i, th |-> pose.th - arc + arcStep * j] :
     i \in 0..((2 * window) \div step), j \in 0..((2 * arc) \div arcStep)}

\* The fit, in millionths, less what a leap costs: 0.1 for 300 mm or 25 degrees.
Score(sight, fall, predicted, pose) ==
  LET dx == pose.x - predicted.x
      dth == pose.th - predicted.th
  IN 1000 * Fit(sight, fall, pose) - ((10 * (dx * dx)) \div 9) - 40 * (dth * dth)
Best(S, value) ==
  LET most == Greatest({value[pose] : pose \in S})
  IN CHOOSE pose \in S : value[pose] = most

\* First by the steps of the settings, then by 5 mm and half degrees; the prediction
\* if the scan fits as well everywhere.
scan_match_correct_pose(sight, set, predicted) ==
  LET Nearest(S, fall) == Best(S, [pose \in S |-> Score(sight, fall, predicted, pose)])
      coarse == Grid(predicted, set.window, set.step, set.arc, set.arcStep)
      fits == {Fit(sight, Broad, pose) : pose \in coarse}
  IN IF \A f \in fits, g \in fits : f = g THEN predicted
     ELSE Nearest(Grid(Nearest(coarse, Broad), 30, 5, 6, 1), Sharp)

\* The best place within 300 mm and 25 degrees, however far off.
scan_match_recover(sight, pose) ==
  LET around == Grid(pose, 300, 20, 50, 4)
  IN Best(around, [found \in around |-> Fit(sight, Broad, found)])

-----------------------------------------------------------------------------
WideBelow == 700          \* wide_when_q_below
GateMargin == 30          \* SLAM_GATE_MARGIN
LostQuality == 450        \* SLAM_LOST_QUALITY
LostStreak == 4

\* After a poor match the search is wider and coarser.
Widened(set) == [set EXCEPT !.window = 2 * @, !.arc = 2 * @,
                            !.step = (3 * @) \div 2, !.arcStep = (3 * @) \div 2]

\* The largest leap grows with the move, and is twice as large in a wide search.
Room(set, move, wide) ==
  [x |-> (IF wide THEN 2 ELSE 1) * (set.jump + Abs(move.x) \div 2),
   th |-> (IF wide THEN 2 ELSE 1) * (set.swing + Abs(move.th) \div 2)]
TooFar(set, room, predicted, match) ==
  \/ set.jump > 0 /\ Abs(match.x - predicted.x) > room.x
  \/ set.swing > 0 /\ Abs(match.th - predicted.th) > room.th

\* A leap as far as there is room, in the same direction.
Share(limit, room, leap) == IF limit > 0 /\ leap > room THEN (1000 * room) \div leap ELSE 1000
CutShort(set, room, predicted, match) ==
  LET dx == match.x - predicted.x
      dth == match.th - predicted.th
      kx == Share(set.jump, room.x, Abs(dx))
      kth == Share(set.swing, room.th, Abs(dth))
      k == IF kx < kth THEN kx ELSE kth
  IN [x |-> predicted.x + ((dx * k) \div 1000), th |-> predicted.th + ((dth * k) \div 1000)]

\* The gate: a match that is too far off has to be better than the prediction.
Gated(sight, set, room, predicted, match) ==
  IF ~TooFar(set, room, predicted, match) THEN match
  ELSE IF match_quality(sight, match) < match_quality(sight, predicted) + GateMargin
  THEN predicted ELSE CutShort(set, room, predicted, match)

\* A pose and what the search around it comes to: taken, too far to be taken in one
\* step, or no better.
Weighed(sight, set, pose, place, fine) ==
  LET better == /\ match_quality(sight, place) > match_quality(sight, pose) + 30
                /\ match_quality(sight, fine) > match_quality(sight, pose)
      near == set.jump = 0 \/ 2 * Abs(fine.x - pose.x) <= 3 * set.jump
  IN [pose |-> IF better /\ near THEN fine ELSE pose, taken |-> better /\ near,
      asked |-> better /\ ~near]
Searched(sight, set, pose) ==
  LET place == scan_match_recover(sight, pose)
  IN Weighed(sight, set, pose, place, scan_match_correct_pose(sight, set, place))

\* The pose after the gate and the search, its quality, the bad matches in a row and
\* the requests for a search of the whole map.
Settled(track, set, sight, pose, far) ==
  LET quality == match_quality(sight, pose)
      streak == IF far THEN track.streak + 1
                ELSE IF quality >= LostQuality THEN 0 ELSE track.streak
      found == Searched(sight, set, pose)
  IN IF quality >= LostQuality /\ streak < LostStreak
     THEN [pose |-> pose, quality |-> quality, streak |-> streak, request |-> track.request]
     ELSE [pose |-> found.pose, quality |-> match_quality(sight, found.pose),
           streak |-> IF found.taken THEN 0 ELSE streak,
           request |-> IF found.asked THEN track.request + 1 ELSE track.request]

\* A step of the tracker: what the wheels predict is matched, and matched with more
\* room when the last match was poor.
slam_localize_step(track, set, move, sight) ==
  LET predicted == [x |-> track.pose.x + move.x, th |-> track.pose.th + move.th]
      wide == track.quality < WideBelow
      room == Room(set, move, wide)
      match == scan_match_correct_pose(sight, IF wide THEN Widened(set) ELSE set, predicted)
  IN Settled(track, set, sight, Gated(sight, set, room, predicted, match),
             TooFar(set, room, predicted, match))
=============================================================================

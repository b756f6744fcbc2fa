------------------------------ MODULE SlotAlign ------------------------------
(* Turning the car to a heading by stop, look and turn (slot_align of         *)
(* robot_slot_align.c), the trims around it, and the two last looks of a      *)
(* parking.  Angles, speeds and the learning of the turn rate are left out:   *)
(* what a step sees of the error, the motion and the room is arbitrary.       *)
EXTENDS SlotDrive

CONSTANTS AlignSteps,     \* ALIGN_MAX_STEPS
          LowQuality,     \* steps of a bad match before the pose is checked
          Stagnant,       \* ALIGN_STAGNANT_MAX
          StillTurns,     \* turns without motion before the car counts as stuck
          AlignEscapes, AlignNoGain, AlignStill, AlignFlips,
          RoomTries,      \* ALIGN_ROOM_TRIES_MAX
          TrimSteps, TrimStall,               \* slot_lane_trim
          LateralTries, SlideSteps, SlideStall   \* slot_lateral_align

slot_align ==
  [at |-> "align", step |-> 0, lowq |-> 0, stagnant |-> 0, far |-> FALSE, swept |-> FALSE,
   known |-> FALSE, still |-> 0, stall |-> 0, escapes |-> 0, noGain |-> 0, fresh |-> TRUE,
   flips |-> 0, signed |-> FALSE, room |-> 0, err |-> "far"]
slot_lane_trim == [at |-> "trim", step |-> 0, stall |-> 0]
slot_lateral_align == [at |-> "lateral", try |-> 0]
slot_confirm_park == [at |-> "confirm"]
slot_seat == [at |-> "seat"]
ensure_rotation_room == corner_backoff

\* The next pass of the loop; after a look or a move that broke the odometry the
\* last heading is unknown.
Again(f) == [f EXCEPT !.at = "align", !.step = @ + 1]
Forgot(f) == Again([f EXCEPT !.known = FALSE, !.swept = FALSE])
Unstuck(f) == Again([f EXCEPT !.known = FALSE, !.stall = 0])
Restarted(f) == [Unstuck(f) EXCEPT !.noGain = 0, !.fresh = TRUE, !.flips = 0, !.signed = FALSE]

\* align__observe and align__quality_gate: stop, look; a bad match for several
\* steps, or one the matcher itself doubts, makes the car find its pose first.
QualityGate(low, asked) ==
  LET lowq == IF low THEN Top.lowq + 1 ELSE 0
      f == [Top EXCEPT !.lowq = lowq % LowQuality]
  IN IF lowq = LowQuality THEN Call(require_good_pose, [f EXCEPT !.at = "align posed"])
     ELSE IF asked THEN Call(relocalize_wide, [f EXCEPT !.at = "align wide"])
     ELSE Become([f EXCEPT !.at = "align turn"])
AlignObserve ==
  /\ At("align") /\ Stand /\ Keep
  /\ IF Top.step = AlignSteps \/ ~take_scan THEN Return("no")
     ELSE \E low, asked \in BOOLEAN : QualityGate(low, asked)
AlignPosed ==
  /\ At("align posed") /\ Keep
  /\ IF result = "yes" THEN Become(Forgot(Top)) /\ UNCHANGED moving ELSE Return("no") /\ Stand
AlignWide ==
  /\ At("align wide") /\ UNCHANGED moving /\ Keep
  /\ Become(IF result = "yes" THEN Forgot(Top) ELSE [Top EXCEPT !.at = "align turn"])

\* A wide turn in one go, which stops by itself.
sweep_rotate(f) == Pulse(f)

\* align__watchdog_and_sweep and align__handle_stall.
Stuck(f, moved) ==
  [f EXCEPT !.still = IF f.known /\ moved = "none" THEN Smaller(StillTurns, @ + 1)
                      ELSE IF moved = "turned" THEN 0 ELSE @,
            !.stall = IF f.known /\ moved # "turned" THEN Smaller(AlignStill, @ + 1) ELSE 0,
            !.known = TRUE, !.at = "align judge"]
\* Four still steps: push the car free, then take the corner moves, three times.
StallEscape(f) ==
  LET g == [f EXCEPT !.escapes = @ + 1, !.stall = 0, !.known = FALSE]
  IN IF g.escapes <= 1 THEN Call(escape_to_open, [g EXCEPT !.at = "align freed"])
                       ELSE Call(corner_escape, [g EXCEPT !.at = "align cornered"])
AlignTurn ==
  /\ At("align turn") /\ Keep
  /\ \E err \in {"aligned", "near", "far", "wide"}, gain \in {~Top.far, TRUE},
        moved \in {"none", "little", "turned"}, clear \in BOOLEAN :
       LET far == err \in {"far", "wide"}
           sweep == err = "wide" /\ ~Top.swept
           f == [Top EXCEPT !.err = err, !.far = @ \/ far, !.swept = @ \/ sweep,
                            !.stagnant = IF ~far THEN @ ELSE IF gain THEN 0 ELSE @ + 1]
           g == Stuck(f, moved)
       IN IF f.stagnant = Stagnant THEN Return("no") /\ Stand
          ELSE IF sweep /\ clear THEN sweep_rotate(Again(f))
          ELSE /\ UNCHANGED moving
               /\ IF g.stall = AlignStill /\ g.escapes < AlignEscapes
                  THEN StallEscape(g) ELSE Become(g)
AlignFreed ==
  /\ At("align freed") /\ UNCHANGED moving /\ Keep
  /\ IF result = "yes" THEN Become(Again(Top))
     ELSE Call(corner_escape, [Top EXCEPT !.at = "align cornered"])
AlignCornered ==
  /\ At("align cornered") /\ UNCHANGED moving /\ Keep
  /\ IF result = "yes" THEN Call(relocalize_after_move, Again(Top)) ELSE Become(Again(Top))

\* align__check_finish: within the tolerance, or as good as the turns allow.
Finish == Return("yes") /\ Stand
AlignJudge ==
  /\ At("align judge") /\ Keep
  /\ \E flip \in BOOLEAN, gain \in {Top.fresh, TRUE}, fine \in BOOLEAN :
       LET flips == IF Top.signed /\ flip THEN Smaller(AlignFlips, Top.flips + 1) ELSE Top.flips
           noGain == IF gain THEN 0 ELSE Top.noGain + 1
           f == [Top EXCEPT !.flips = flips, !.signed = TRUE,
                            !.noGain = noGain % AlignNoGain, !.fresh = FALSE]
       IN IF Top.err = "aligned" THEN Finish
          ELSE IF Top.err = "near" /\ fine /\ (flips = AlignFlips \/ Top.noGain > 0)
          THEN Finish
          ELSE IF noGain < AlignNoGain
          THEN Become([f EXCEPT !.at = "align plan"]) /\ UNCHANGED moving
          ELSE IF Top.err = "near" THEN Finish
          ELSE IF Top.still = StillTurns
          THEN Become(Again([f EXCEPT !.fresh = TRUE])) /\ UNCHANGED moving
          ELSE IF Top.escapes < AlignEscapes
          THEN /\ UNCHANGED moving
               /\ Call(escape_to_open, [f EXCEPT !.at = "align unstuck", !.escapes = @ + 1])
          ELSE Return("no") /\ Stand
AlignUnstuck ==
  /\ At("align unstuck") /\ UNCHANGED moving /\ Keep
  /\ IF result = "yes" THEN Become(Restarted(Top))
     ELSE Call(corner_escape, [Top EXCEPT !.at = "align shaken", !.swept = FALSE])
AlignShaken ==
  /\ At("align shaken") /\ UNCHANGED moving /\ Keep
  /\ Call(relocalize_after_move, Restarted(Top))

\* align__plan_rotation and align__rotate: with no room for the turn the car
\* first backs off, twice, and then takes the corner moves.
Rotate(f) == Become(Again(f)) /\ moving' = TRUE
AlignPlan ==
  /\ At("align plan") /\ Keep
  /\ \/ Rotate(Top)
     \/ /\ Top.room < RoomTries /\ Stand
        /\ Call(corner_backoff, [Top EXCEPT !.at = "align room", !.room = @ + 1])
Roomy(f) == [Unstuck(f) EXCEPT !.swept = FALSE]
AlignRoom ==
  /\ At("align room") \/ At("align more room")
  /\ UNCHANGED moving /\ Keep
  /\ IF result = "yes" THEN Become(Roomy(Top))
     ELSE IF At("align room") THEN Call(corner_backoff, [Top EXCEPT !.at = "align more room"])
     ELSE Call(corner_escape, [Top EXCEPT !.at = "align squeezed"])
AlignSqueezed ==
  At("align squeezed") /\ Call(relocalize_after_move, Roomy(Top)) /\ UNCHANGED moving /\ Keep

\* slot_lane_trim: short moves onto the lane; never a failure.
TrimStep ==
  /\ At("trim") /\ Keep
  /\ \/ Return("yes") /\ (Stand \/ (Top.step = 0 /\ UNCHANGED moving))
     \/ /\ Top.step < TrimSteps /\ take_scan
        /\ \E gain \in {Top.step = 0, TRUE} :
             LET stall == IF gain THEN 0 ELSE Top.stall + 1
             IN IF stall = TrimStall THEN Return("yes") /\ Stand
                ELSE Pulse([Top EXCEPT !.step = @ + 1, !.stall = stall])

\* slot_lateral_align: turn aside, slide to the lane, turn back, at most twice.
LateralTry ==
  /\ At("lateral") /\ UNCHANGED moving /\ Keep
  /\ \/ Return("yes")
     \/ (Top.try = LateralTries \/ stop) /\ Return("no")
     \/ Top.try < LateralTries /\ ~stop /\ Call(slot_align, [Top EXCEPT !.at = "lateral tilted"])
LateralTilted ==
  /\ At("lateral tilted") /\ UNCHANGED moving /\ Keep
  /\ IF result = "no" THEN Return("no")
     ELSE Become([at |-> "slide", try |-> Top.try, step |-> 0, stall |-> 0])
LateralSlide ==
  LET turnBack == Stand /\ Call(slot_align, [at |-> "lateral back", try |-> Top.try])
  IN /\ At("slide") /\ Keep
     /\ IF Top.step = SlideSteps \/ ~take_scan THEN turnBack
        ELSE \/ turnBack
             \/ \E still \in {FALSE, Top.step > 0} :
                  LET stall == IF still THEN Top.stall + 1 ELSE 0
                  IN IF stall = SlideStall THEN turnBack
                     ELSE /\ moving' = TRUE
                          /\ Become([Top EXCEPT !.step = @ + 1, !.stall = stall])
LateralBack ==
  /\ At("lateral back") /\ UNCHANGED moving /\ Keep
  /\ IF result = "no" THEN Return("no") ELSE Become([at |-> "lateral", try |-> Top.try + 1])

\* slot_confirm_park looks once more with the wheels standing; slot_seat presses
\* the car against the wall for a moment.  A confirmation needs a lane, not this
\* lane: the word of the wrong slot is for a drive to read.
ConfirmPark ==
  /\ At("confirm") /\ Stand /\ Keep
  /\ \/ Return("no")
     \/ take_scan /\ (\E look \in Anchors : look.fix # "none") /\ Return("yes")
SeatPress == At("seat") /\ Become([at |-> "pulse"]) /\ moving' = TRUE /\ Keep

SlotAlignNext ==
  \/ AlignObserve \/ AlignPosed \/ AlignWide \/ AlignTurn \/ AlignFreed \/ AlignCornered
  \/ AlignJudge \/ AlignUnstuck \/ AlignShaken \/ AlignPlan \/ AlignRoom \/ AlignSqueezed
  \/ TrimStep \/ LateralTry \/ LateralTilted \/ LateralSlide \/ LateralBack
  \/ ConfirmPark \/ SeatPress
=============================================================================

------------------------------- MODULE Escape --------------------------------
(* The helpers every shuttle routine calls: the pose gate and the searches    *)
(* that find the pose again (robot_pose_gate.c, robot_relocalize.c), and the  *)
(* ways out of a tight place (robot_escape.c, corner_escape.c).               *)
EXTENDS Routines, Clearance

CONSTANTS PoseTries,      \* require_good_pose: looks before it gives up
          EscapeTries,    \* ESCAPE_MAX_TRY
          CornerRounds,   \* CORNER_ROUNDS_MAX
          CornerForced,   \* CORNER_FORCED_MAX
          BackoffRounds,  \* corner_backoff: moves before it gives up
          EscapeStall     \* rounds without a gain of room that end an escape

\* What a call of each helper pushes.
require_good_pose == [at |-> "pose", try |-> 0]
relocalize_global == [at |-> "global"]
relocalize_wide == [at |-> "wide"]
relocalize_after_move == [at |-> "after move"]
escape_to_open == [at |-> "escape", try |-> 0, noGain |-> 0, flipped |-> FALSE]
corner_escape == [at |-> "corner", round |-> 0, noGain |-> 0, forced |-> 0, way |-> "none"]
corner_backoff == [at |-> "backoff", i |-> 0]

\* The two searches take a pose only when it fits the scan clearly better.
RelocalizeGlobal ==
  /\ At("global")
  /\ \E better \in BOOLEAN : Return(YesNo(take_scan /\ better))
  /\ UNCHANGED moving /\ Keep
RelocalizeWide ==
  /\ At("wide")
  /\ \E better \in BOOLEAN : Return(YesNo(take_scan /\ better))
  /\ UNCHANGED moving /\ Keep
RelocalizeAfterMove ==
  At("after move") /\ Return("yes") /\ UNCHANGED moving /\ Keep

\* A pose found good a moment ago is not looked at again, nor is the car stopped.
PoseCached ==
  At("pose") /\ Top.try = 0 /\ Return("yes") /\ UNCHANGED moving /\ Keep

PoseLook ==
  /\ At("pose") /\ Stand /\ Keep
  /\ IF Top.try = PoseTries \/ ~take_scan THEN Return("no")
     ELSE \/ Return("yes")
          \/ Call(relocalize_wide, [Top EXCEPT !.at = "pose wide"])
PoseWide ==
  /\ At("pose wide") /\ UNCHANGED moving /\ Keep
  /\ IF result = "yes" THEN Become([Top EXCEPT !.at = "pose", !.try = @ + 1])
     ELSE Call(relocalize_global, [Top EXCEPT !.at = "pose", !.try = @ + 1])

\* Free already, no gain in some rounds, or a push along the axis that was free
\* first; with no room that way the other way is taken once.
EscapeLook ==
  /\ At("escape") /\ UNCHANGED moving /\ Keep
  /\ IF Top.try = EscapeTries \/ ~take_scan THEN Return("no")
     ELSE \/ Return("yes")
          \/ \E gain \in BOOLEAN :
               LET seen == IF gain \/ Top.try = 0 THEN 0 ELSE Top.noGain + 1
               IN IF seen = EscapeStall THEN Return("no")
                  ELSE Become([Top EXCEPT !.at = "escape room", !.noGain = seen])
EscapeRoom ==
  /\ At("escape room") /\ Keep
  /\ \/ Pulse([Top EXCEPT !.at = "escape pushed"])
     \/ /\ ~Top.flipped /\ UNCHANGED moving
        /\ Become([Top EXCEPT !.flipped = TRUE])
     \/ /\ Top.flipped
        /\ Call(corner_escape, [Top EXCEPT !.at = "escape corner"])
        /\ UNCHANGED moving
     \/ Return("no") /\ UNCHANGED moving      \* a push of no length
\* escape_push: a second, stronger push when the first moved nothing.
EscapePushed ==
  /\ At("escape pushed") \/ At("escape pushed again")
  /\ Keep
  /\ \/ /\ Become([Top EXCEPT !.at = "escape", !.try = @ + 1])
        /\ UNCHANGED moving
     \/ /\ take_scan /\ At("escape pushed")
        /\ Pulse([Top EXCEPT !.at = "escape pushed again"])
     \/ take_scan /\ At("escape pushed again") /\ Return("no") /\ UNCHANGED moving
EscapeCorner ==
  At("escape corner") /\ Return(result) /\ UNCHANGED moving /\ Keep

\* A round stops and looks; there is room, or a move that may help: a shift or a
\* turn, else a turn by force, a few times, and then an arc.
CornerRound ==
  /\ At("corner") /\ Keep
  /\ IF Top.round = CornerRounds \/ ~take_scan
     THEN Return("no") /\ UNCHANGED moving
     ELSE \E corner \in Corners :
          /\ Stand
          /\ IF corner.room \/ (Top.round > 0 /\ corner.run) THEN Return("yes")
             ELSE \E gain \in BOOLEAN :
                  LET seen == IF gain \/ Top.round = 0 THEN 0 ELSE Top.noGain + 1
                  IN IF seen = EscapeStall THEN Return("no")
                     ELSE Become([Top EXCEPT !.at = "corner move", !.noGain = seen,
                                             !.way = corner.way])
CornerMove ==
  LET next == [Top EXCEPT !.at = "corner", !.round = @ + 1, !.way = "none"]
  IN /\ At("corner move") /\ Keep
     /\ IF Top.way \in {"shift", "turn"} THEN Pulse(next)
        ELSE IF Top.forced < CornerForced
        THEN Pulse([next EXCEPT !.forced = @ + 1, !.noGain = 0])
        ELSE IF Top.way = "arc" THEN Pulse(next)
        ELSE Return("no") /\ UNCHANGED moving

BackoffRound ==
  /\ At("backoff") /\ Keep
  /\ IF Top.i = BackoffRounds \/ ~take_scan THEN Return("no") /\ UNCHANGED moving
     ELSE \E way \in Backoffs :
          /\ Stand
          /\ CASE way = "room" -> Return("yes")
               [] way = "none" -> Return("no")     \* moved enough, or no better place
               [] way = "shift" -> Become([Top EXCEPT !.at = "backoff move"])
BackoffMove ==
  At("backoff move") /\ Pulse([Top EXCEPT !.at = "backoff", !.i = @ + 1]) /\ Keep

EscapeNext ==
  \/ PulseEnd \/ RelocalizeGlobal \/ RelocalizeWide \/ RelocalizeAfterMove
  \/ PoseCached \/ PoseLook \/ PoseWide
  \/ EscapeLook \/ EscapeRoom \/ EscapePushed \/ EscapeCorner
  \/ CornerRound \/ CornerMove \/ BackoffRound \/ BackoffMove
=============================================================================

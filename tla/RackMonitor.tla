----------------------------- MODULE RackMonitor -----------------------------
(***************************************************************************)
(* The rack monitor (live_rack_monitor.py): the inference loop judges one  *)
(* camera frame after the other, a second thread measures now and then     *)
(* whether the camera still sees the rack from the reference pose, and the *)
(* HTTP thread hands out the status published last.                        *)
(*                                                                         *)
(* A frame is what the classifier says of each slot.  From the reference   *)
(* pose it says what is so, or UNKNOWN between the two thresholds; from a  *)
(* displaced camera it may say anything.  Time is abstracted: a frame may  *)
(* be submitted for measurement, and a measurement may count as stale,     *)
(* whenever the loop runs; the loop and the thread may stall.              *)
(***************************************************************************)
EXTENDS RackView, Sequences, FiniteSets

CONSTANTS Window,  \* frames the consensus is taken over (5)
          Votes    \* equal frames a slot needs (4)

ASSUME VotesAssumption == Window \in Nat /\ Votes \in 1 .. Window
ASSUME SlackAssumption == Slack = Window - Votes
ASSUME NoViewAssumption == NoView \notin [Slots -> {"EMPTY", "OCCUPIED"}]

KNOWN_STATES == {"EMPTY", "OCCUPIED"}
ALL_STATES == KNOWN_STATES \cup {"UNKNOWN"}

Frames == [Slots -> ALL_STATES]

\* A measurement of the pose: of which pose a frame shows, "none" if there is no
\* frame or no measurement.
Poses == {"none", "aligned", "displaced"}

Statuses == {"STARTING", "CAMERA_FAULT", "WARMING_UP", "UNKNOWN", "STABLE"}

VARIABLES
  displaced,   \* the camera does not see the rack from the reference pose
  poseQueue,   \* PoseGuard.queue: at most one frame to measure
  measuring,   \* the frame the guard's thread measures
  poseResult,  \* PoseGuard.result
  history,     \* the frames judged, at most Window
  status,      \* what FrameStore holds: status and stable_states
  sinceFault,  \* history: frames judged since the last CAMERA_FAULT, up to Window
  late         \* history: measurements that have told "aligned" since the camera was
               \* displaced, up to 3

monitorVars == <<displaced, poseQueue, measuring, poseResult, history, status,
                 sinceFault, late>>
vars == <<rackVars, monitorVars>>

TypeOK ==
  /\ occupied \in SUBSET Slots
  /\ fresh \in [Slots -> 0 .. Slack + 1]
  /\ displaced \in BOOLEAN
  /\ poseQueue \in Poses /\ measuring \in Poses /\ poseResult \in Poses
  /\ history \in Seq(Frames) /\ Len(history) <= Window
  /\ status \in [status : Statuses, stable_states : Frames]
  /\ sinceFault \in 0 .. Window
  /\ late \in 0 .. 3

AllUnknown == [s \in Slots |-> "UNKNOWN"]

\* What select_slot makes of the status: usable only when it is STABLE.
viewOf(st) == IF st.status = "STABLE" THEN st.stable_states ELSE NoView

Init ==
  /\ RackInit
  /\ displaced \in BOOLEAN
  /\ poseQueue = "none" /\ measuring = "none" /\ poseResult = "none"
  /\ history = <<>>
  /\ status = [status |-> "STARTING", stable_states |-> AllUnknown]
  /\ sinceFault = 0
  /\ late = 0
-----------------------------------------------------------------------------
(* The consensus over the window.                                          *)

\* The frames of h that say v of slot s.
votes(h, s, v) == {k \in 1 .. Len(h) : h[k][s] = v}

\* Mutant: only the frames that are sure of the slot are counted.
stableOfKnown(h, s) ==
  LET sure == Cardinality(votes(h, s, "EMPTY")) + Cardinality(votes(h, s, "OCCUPIED"))
      winners == {v \in KNOWN_STATES : 2 * Cardinality(votes(h, s, v)) > sure}
  IN IF winners = {} THEN "UNKNOWN" ELSE CHOOSE v \in winners : TRUE

\* The one known state with enough votes.
stable(h, s) ==
  LET winners == {v \in KNOWN_STATES : Cardinality(votes(h, s, v)) >= Votes}
  IN IF Cardinality(winners) = 1 THEN CHOOSE v \in winners : TRUE ELSE "UNKNOWN"

\* temporal_consensus of a full window and the status the loop makes of it.
consensus(h) ==
  LET states == [s \in Slots |-> stable(h, s)]
  IN [status |-> IF \E s \in Slots : states[s] = "UNKNOWN" THEN "UNKNOWN" ELSE "STABLE",
      stable_states |-> states]

\* A frame more; the deque drops the oldest.
push(h, f) == IF Len(h) = Window THEN Append(Tail(h), f) ELSE Append(h, f)
-----------------------------------------------------------------------------
(* The inference loop.                                                     *)

\* What the classifier may say of a frame.
Seen ==
  {f \in Frames : displaced \/ \A s \in Slots : f[s] # "UNKNOWN" => ~Wrong(f, s)}

poseNow == IF displaced THEN "displaced" ELSE "aligned"

\* The pose the loop goes by: the first frame is measured at once, a later one is
\* judged by the newest measurement, unless that one is stale.
poseFor(stale) ==
  IF poseResult = "none" THEN poseNow
  ELSE IF stale THEN "displaced" ELSE poseResult

\* Mutant: a frame is measured again only while the camera counts as displaced.
submitOnFault ==
  \/ UNCHANGED poseQueue
  \/ poseResult = "displaced" /\ poseQueue' = poseNow

\* From time to time the frame is handed to the guard; a frame that waits there
\* is thrown away for it.
submit ==
  \/ UNCHANGED poseQueue
  \/ poseResult # "none" /\ poseQueue' = poseNow

publish(st) == status' = st

rememberPose == poseResult' = IF poseResult = "none" THEN poseNow ELSE poseResult

\* Mutant: the frames from before the fault stay in the window.
FaultFrameKeepsHistory ==
  /\ \E stale \in BOOLEAN : poseFor(stale) = "displaced"
  /\ rememberPose /\ submit
  /\ publish([status |-> "CAMERA_FAULT", stable_states |-> AllUnknown])
  /\ sinceFault' = 0
  /\ shown' = NoView
  /\ UNCHANGED <<occupied, fresh, history, displaced, measuring, late>>

\* A frame from a camera that is not aligned, or not known to be.
FaultFrame ==
  /\ \E stale \in BOOLEAN : poseFor(stale) = "displaced"
  /\ rememberPose /\ submit
  /\ history' = <<>>
  /\ publish([status |-> "CAMERA_FAULT", stable_states |-> AllUnknown])
  /\ sinceFault' = 0
  /\ shown' = NoView
  /\ UNCHANGED <<occupied, fresh, displaced, measuring, late>>

\* A frame from an aligned camera: classify, remember, take the consensus once
\* the window is full.
JudgedFrame ==
  /\ poseFor(FALSE) = "aligned"
  /\ rememberPose /\ submit
  /\ \E f \in Seen : history' = push(history, f)
  /\ publish(IF Len(history') = Window
             THEN consensus(history')
             ELSE [status |-> "WARMING_UP", stable_states |-> AllUnknown])
  /\ sinceFault' = IF sinceFault < Window THEN sinceFault + 1 ELSE sinceFault
  /\ fresh' = IF displaced THEN fresh
              ELSE [s \in Slots |-> IF fresh[s] > Slack THEN fresh[s] ELSE fresh[s] + 1]
  /\ shown' = viewOf(status')
  /\ UNCHANGED <<occupied, displaced, measuring, late>>
-----------------------------------------------------------------------------
(* PoseGuard's thread, and the world.                                      *)

\* Mutant: the thread looks at the frame that waits and leaves it there.
TakePoseLeavesFrame ==
  /\ measuring = "none" /\ poseQueue # "none"
  /\ measuring' = poseQueue
  /\ UNCHANGED <<rackVars, displaced, poseQueue, poseResult, history, status, sinceFault, late>>

TakePose ==
  /\ measuring = "none" /\ poseQueue # "none"
  /\ measuring' = poseQueue
  /\ poseQueue' = "none"
  /\ UNCHANGED <<rackVars, displaced, poseResult, history, status, sinceFault, late>>

countLate ==
  late' = IF displaced /\ poseResult' = "aligned" /\ late < 3 THEN late + 1 ELSE late

\* The measurement ends; when it raises, the camera counts as not aligned.
FinishPose ==
  /\ measuring # "none"
  /\ poseResult' \in {measuring, "displaced"}
  /\ measuring' = "none" /\ countLate
  /\ UNCHANGED <<rackVars, displaced, poseQueue, history, status, sinceFault>>

\* Someone bumps the camera, or puts it back.
MoveCamera ==
  /\ displaced' = ~displaced /\ late' = 0
  /\ Disturb
  /\ UNCHANGED <<poseQueue, measuring, poseResult, history, status, sinceFault>>

\* The arm fills a slot, someone empties one.
ChangeRack ==
  /\ \E s \in Slots : Fill(s) \/ Unload(s)
  /\ UNCHANGED monitorVars

Next == FaultFrame \/ JudgedFrame \/ TakePose \/ FinishPose \/ MoveCamera \/ ChangeRack

Spec == Init /\ [][Next]_vars

\* The loop reads frames and hands one to the guard every alignment_interval; the
\* guard's thread takes what is there and its measurement ends.
Fairness ==
  /\ WF_vars(FaultFrame \/ JudgedFrame)
  /\ WF_vars((FaultFrame \/ JudgedFrame) /\ poseQueue' = poseNow)
  /\ WF_vars(TakePose)
  /\ WF_vars(FinishPose)

LiveSpec == Spec /\ Fairness
-----------------------------------------------------------------------------
\* What is shown follows the rack: a slot is never shown as it is not once more
\* frames were judged since it changed than the vote leaves room for.  This is
\* the promise the dispatcher is checked against (live_rack_monitor.py:1648-1660).
ImplementsView == RackSpec

\* A STABLE status rests on a whole window of frames taken since the last fault of
\* camera or pose; four agreeing frames from before it are not enough
\* (rack_safety_gate.py:67-71, live_rack_monitor.py:1624-1630).
FreshWindowAfterFault == status.status = "STABLE" => sinceFault = Window

\* Only two measurements that end after the camera was bumped may still tell that it
\* is aligned, the one that ran and that of the frame that waited, whatever the loop
\* puts into the queue of one frame and throws out of it and whichever measurements
\* fail (live_rack_monitor.py:1407-1418, 1443-1455).
BumpIsMeasured == late <= 2

\* A camera that stays displaced is noticed, whatever frames wait in the guard's
\* queue and however often its measurement fails: in the end nothing is shown of
\* the rack any more (live_rack_monitor.py:1407-1418, 1445-1455, 1612-1619).
DisplacedIsNoticed == <>[]displaced => <>[](shown = NoView)
-----------------------------------------------------------------------------
(* The inductive invariants behind ImplementsView and BumpIsMeasured.        *)

\* The newest frames, as many as were judged since s changed, do not lie about s.
NewestFramesTrue ==
  \A s \in Slots : \A k \in 1 .. Len(history) :
    (k > Len(history) - fresh[s] /\ history[k][s] # "UNKNOWN") => ~Wrong(history[k], s)

\* While the camera is displaced no frame counts as fresh.
DisplacedNotFresh == displaced => \A s \in Slots : fresh[s] = 0

\* The window is filled since the fault, and the status is that of the window.
StatusOfWindow ==
  /\ Len(history) = sinceFault
  /\ status.status = "STABLE" => Len(history) = Window /\ status = consensus(history)
  /\ shown = viewOf(status)

\* The frames from before the bump pass through the thread one by one, and none is
\* added to them.
OldFramesPass ==
  /\ late <= 2
  /\ displaced => /\ poseQueue = "aligned" => late <= 1 /\ (measuring # "none" => late = 0)
                  /\ measuring = "aligned" => late <= 1

MonitorInv == NewestFramesTrue /\ DisplacedNotFresh /\ StatusOfWindow
=============================================================================

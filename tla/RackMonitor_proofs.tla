-------------------------- MODULE RackMonitor_proofs --------------------------
(***************************************************************************)
(* The rack monitor implements RackView for every rack, every window and   *)
(* every number of votes above half of it.  The heart is a count: if a     *)
(* state has Votes of Window frames, it has at least one of the newest     *)
(* Slack + 1 = Window - Votes + 1.                                         *)
(***************************************************************************)
EXTENDS RackMonitor, FiniteSetTheorems, TLAPS

LEMMA ParameterFacts ==
  /\ Window \in Nat /\ Window >= 1 /\ Votes \in Nat /\ Votes >= 1 /\ Votes <= Window
  /\ Slack \in Nat /\ Slack + 1 <= Window /\ Slack = Window - Votes
BY VotesAssumption, SlackAssumption

\* A state that Votes frames of a full window agree on is the state of one of the
\* newest Slack + 1 frames.
LEMMA VotesReachNewest ==
  ASSUME NEW h \in Seq(Frames), Len(h) = Window, NEW s \in Slots, NEW v,
         NEW n \in 0 .. Slack + 1,
         \A k \in 1 .. Len(h) : k > Len(h) - n => h[k][s] # v,
         Cardinality(votes(h, s, v)) >= Votes
  PROVE  n <= Slack
<1>1. votes(h, s, v) \subseteq 1 .. (Window - n)
  BY ParameterFacts DEF votes
<1>2. /\ IsFiniteSet(1 .. (Window - n))
      /\ Cardinality(1 .. (Window - n)) = Window - n
  <2>1. Window - n \in Nat
    BY ParameterFacts
  <2> QED
    BY <2>1, ParameterFacts, FS_Interval
<1>3. /\ Cardinality(votes(h, s, v)) \in Nat
      /\ Cardinality(votes(h, s, v)) <= Window - n
  BY <1>1, <1>2, FS_Subset, FS_CardinalityType
<1> QED
  BY <1>3, ParameterFacts

\* A known stable state has the votes.
LEMMA StableHasVotes ==
  ASSUME NEW h, NEW s
  PROVE  /\ stable(h, s) \in ALL_STATES
         /\ stable(h, s) # "UNKNOWN" => Cardinality(votes(h, s, stable(h, s))) >= Votes
<1> DEFINE winners == {v \in KNOWN_STATES : Cardinality(votes(h, s, v)) >= Votes}
<1>1. CASE Cardinality(winners) = 1
  <2>1. winners # {}
    BY <1>1, FS_EmptySet
  <2>2. stable(h, s) \in winners
    BY <1>1, <2>1 DEF stable
  <2> QED
    BY <2>2 DEF ALL_STATES, KNOWN_STATES
<1>2. CASE Cardinality(winners) # 1
  BY <1>2 DEF stable, ALL_STATES
<1> QED
  BY <1>1, <1>2

LEMMA ConsensusType ==
  ASSUME NEW h
  PROVE  consensus(h) \in [status : Statuses, stable_states : Frames]
BY StableHasVotes DEF consensus, Statuses, Frames

\* A frame more, in a window that keeps its bound.
LEMMA PushFacts ==
  ASSUME NEW h \in Seq(Frames), Len(h) <= Window, NEW f \in Frames
  PROVE  /\ push(h, f) \in Seq(Frames)
         /\ Len(push(h, f)) = IF Len(h) = Window THEN Window ELSE Len(h) + 1
         /\ push(h, f)[Len(push(h, f))] = f
         /\ \A k \in 1 .. Len(push(h, f)) - 1 :
              push(h, f)[k] = IF Len(h) = Window THEN h[k + 1] ELSE h[k]
<1>1. CASE Len(h) = Window
  <2>1. h # <<>> /\ Tail(h) \in Seq(Frames) /\ Len(Tail(h)) = Window - 1
    BY <1>1, ParameterFacts
  <2>2. \A k \in 1 .. Len(Tail(h)) : Tail(h)[k] = h[k + 1]
    BY <2>1
  <2>3. push(h, f) = Append(Tail(h), f)
    BY <1>1 DEF push
  <2> QED
    BY <1>1, <2>1, <2>2, <2>3, ParameterFacts
<1>2. CASE Len(h) # Window
  BY <1>2, ParameterFacts DEF push
<1> QED
  BY <1>1, <1>2

LEMMA UnknownFrame == AllUnknown \in Frames
BY DEF AllUnknown, Frames, ALL_STATES

-----------------------------------------------------------------------------
(* Types.                                                                  *)

LEMMA InitTypes == Init => TypeOK
<1> SUFFICES ASSUME Init PROVE TypeOK
  OBVIOUS
<1>1. fresh \in [Slots -> 0 .. Slack + 1]
  BY ParameterFacts DEF Init, RackInit
<1>2. sinceFault \in 0 .. Window /\ history \in Seq(Frames) /\ Len(history) <= Window
  BY ParameterFacts DEF Init
<1>3. status \in [status : Statuses, stable_states : Frames]
  BY UnknownFrame DEF Init, Statuses
<1> QED
  BY <1>1, <1>2, <1>3 DEF Init, RackInit, TypeOK, Poses


LEMMA NextTypes == TypeOK /\ [Next]_vars => TypeOK'
<1> SUFFICES ASSUME TypeOK, [Next]_vars PROVE TypeOK'
  OBVIOUS
<1> USE ParameterFacts DEF Poses
<1>1. CASE FaultFrame
  <2>1. history' \in Seq(Frames) /\ Len(history') <= Window /\ sinceFault' \in 0 .. Window
    BY <1>1 DEF FaultFrame
  <2>2. status' \in [status : Statuses, stable_states : Frames]
    BY <1>1, UnknownFrame DEF FaultFrame, publish, Statuses
  <2>3. poseQueue' \in Poses /\ poseResult' \in Poses
    BY <1>1 DEF FaultFrame, submit, rememberPose, poseNow, TypeOK
  <2> QED
    BY <1>1, <2>1, <2>2, <2>3 DEF FaultFrame, TypeOK
<1>2. CASE JudgedFrame
  <2>1. PICK f \in Seen : history' = push(history, f)
    BY <1>2 DEF JudgedFrame
  <2>2. f \in Frames
    BY DEF Seen
  <2>3. history' \in Seq(Frames) /\ Len(history') <= Window
    BY <2>1, <2>2, PushFacts DEF TypeOK
  <2>4. status' \in [status : Statuses, stable_states : Frames]
    BY <1>2, UnknownFrame, ConsensusType DEF JudgedFrame, publish, Statuses
  <2>5. poseQueue' \in Poses /\ poseResult' \in Poses
    BY <1>2 DEF JudgedFrame, submit, rememberPose, poseNow, TypeOK
  <2>6. sinceFault' \in 0 .. Window
    BY <1>2 DEF JudgedFrame, TypeOK
  <2>7. fresh' \in [Slots -> 0 .. Slack + 1]
    BY <1>2 DEF JudgedFrame, TypeOK
  <2> QED
    BY <1>2, <2>3, <2>4, <2>5, <2>6, <2>7 DEF JudgedFrame, TypeOK
<1>3. CASE TakePose
  BY <1>3 DEF TakePose, TypeOK, rackVars
<1>4. CASE FinishPose
  BY <1>4 DEF FinishPose, countLate, TypeOK, rackVars
<1>5. CASE MoveCamera
  BY <1>5 DEF MoveCamera, Disturb, TypeOK
<1>6. CASE ChangeRack
  BY <1>6 DEF ChangeRack, Fill, Unload, TypeOK, monitorVars
<1>7. CASE UNCHANGED vars
  BY <1>7 DEF vars, rackVars, monitorVars, TypeOK
<1> QED
  BY <1>1, <1>2, <1>3, <1>4, <1>5, <1>6, <1>7 DEF Next

\* Every variable of the monitor keeps its type, the window its bound
\* (live_rack_monitor.py:1595).
THEOREM TypesAreKept == Spec => []TypeOK
<1>1. TypeOK /\ [Next]_vars => TypeOK'
  BY NextTypes
<1> QED
  BY InitTypes, <1>1, PTL DEF Spec
-----------------------------------------------------------------------------
(* The inductive invariant, and the promise of RackView.                   *)

LEMMA InitMonitor == Init => MonitorInv
BY ParameterFacts DEF Init, RackInit, MonitorInv, NewestFramesTrue, DisplacedNotFresh,
   StatusOfWindow, viewOf

\* The frame judged last and those before it tell the truth about every slot, as far
\* back as the frames judged since that slot changed reach.
LEMMA JudgedNewestTrue ==
  ASSUME TypeOK, MonitorInv, JudgedFrame
  PROVE  NewestFramesTrue'
<1> SUFFICES ASSUME NEW s \in Slots, NEW k \in 1 .. Len(history'),
                    k > Len(history') - fresh'[s], history'[k][s] # "UNKNOWN"
             PROVE  ~Wrong(history'[k], s)
  BY DEF NewestFramesTrue, Wrong, JudgedFrame
<1>1. PICK f \in Seen : history' = push(history, f)
  BY DEF JudgedFrame
<1>2. f \in Frames /\ history \in Seq(Frames) /\ Len(history) <= Window
  BY DEF Seen, TypeOK
<1>3. fresh[s] \in 0 .. Slack + 1
  BY DEF TypeOK
<1>4. ~displaced
  <2>1. SUFFICES ASSUME displaced PROVE FALSE
    OBVIOUS
  <2>2. fresh'[s] = 0
    BY <2>1 DEF JudgedFrame, MonitorInv, DisplacedNotFresh
  <2>3. Len(history') \in Nat
    BY <1>1, <1>2, PushFacts, ParameterFacts
  <2> QED
    BY <2>2, <2>3
<1>5. fresh'[s] <= fresh[s] + 1 /\ fresh'[s] \in Nat
  BY <1>3, <1>4, ParameterFacts DEF JudgedFrame, TypeOK
<1>6. CASE k = Len(history')
  <2>1. history'[k] = f
    BY <1>1, <1>2, <1>6, PushFacts
  <2> QED
    BY <1>4, <2>1 DEF Seen
<1>7. CASE k # Len(history')
  <2>1. Len(history) \in Nat /\ Len(history') \in Nat
    BY <1>1, <1>2, PushFacts, ParameterFacts
  <2>2. k \in 1 .. Len(history') - 1
    BY <1>7, <2>1
  <2>3. PICK j \in 1 .. Len(history) : history'[k] = history[j] /\ j > Len(history) - fresh[s]
    <3>1. CASE Len(history) = Window
      <4>1. history'[k] = history[k + 1] /\ Len(history') = Window
        BY <1>1, <1>2, <2>2, <3>1, PushFacts
      <4>2. k + 1 \in 1 .. Len(history) /\ k + 1 > Len(history) - fresh[s]
        BY <1>3, <1>5, <2>2, <3>1, <4>1, ParameterFacts
      <4> QED
        BY <4>1, <4>2
    <3>2. CASE Len(history) # Window
      <4>1. history'[k] = history[k] /\ Len(history') = Len(history) + 1
        BY <1>1, <1>2, <2>2, <3>2, PushFacts
      <4>2. k \in 1 .. Len(history) /\ k > Len(history) - fresh[s]
        BY <1>3, <1>5, <2>1, <2>2, <4>1, ParameterFacts
      <4> QED
        BY <4>1, <4>2
    <3> QED
      BY <3>1, <3>2
  <2> QED
    BY <2>3 DEF MonitorInv, NewestFramesTrue
<1> QED
  BY <1>6, <1>7

\* What the three parts of the invariant depend on.
LEMMA StatusKept ==
  ASSUME StatusOfWindow, UNCHANGED <<history, status, sinceFault, shown>>
  PROVE  StatusOfWindow'
<1>1. consensus(history)' = consensus(history')
  BY DEF consensus, stable, votes
<1>2. viewOf(status)' = viewOf(status')
  BY DEF viewOf
<1> QED
  BY <1>1, <1>2 DEF StatusOfWindow

LEMMA TruthKept ==
  ASSUME NewestFramesTrue, DisplacedNotFresh, UNCHANGED <<occupied, fresh, history, displaced>>
  PROVE  NewestFramesTrue' /\ DisplacedNotFresh'
BY DEF NewestFramesTrue, DisplacedNotFresh, Wrong

LEMMA NextMonitor == TypeOK /\ MonitorInv /\ [Next]_vars => MonitorInv'
<1> SUFFICES ASSUME TypeOK, MonitorInv, [Next]_vars PROVE MonitorInv'
  OBVIOUS
<1> USE DEF MonitorInv
<1>1. CASE FaultFrame
  BY <1>1, ParameterFacts DEF FaultFrame, publish, viewOf, NewestFramesTrue,
     DisplacedNotFresh, StatusOfWindow
<1>2. CASE JudgedFrame
  <2>1. NewestFramesTrue'
    BY <1>2, JudgedNewestTrue
  <2>2. DisplacedNotFresh'
    BY <1>2 DEF JudgedFrame, DisplacedNotFresh
  <2>3. StatusOfWindow'
    <3>1. PICK f \in Seen : history' = push(history, f)
      BY <1>2 DEF JudgedFrame
    <3>2. Len(history') = IF Len(history) = Window THEN Window ELSE Len(history) + 1
      BY <3>1, PushFacts DEF Seen, TypeOK
    <3>3. Len(history') = sinceFault'
      BY <1>2, <3>2, ParameterFacts DEF JudgedFrame, StatusOfWindow, TypeOK
    <3>4. /\ status'.status = "STABLE" => Len(history') = Window /\ status' = consensus(history')
          /\ shown' = viewOf(status')
      BY <1>2 DEF JudgedFrame, publish
    <3>5. viewOf(status)' = viewOf(status')
      BY DEF viewOf
    <3>6. consensus(history)' = consensus(history')
      BY DEF consensus, stable, votes
    <3> QED
      BY <3>3, <3>4, <3>5, <3>6 DEF StatusOfWindow
  <2> QED
    BY <2>1, <2>2, <2>3
<1>3. CASE TakePose
  BY <1>3, StatusKept, TruthKept DEF TakePose, rackVars
<1>4. CASE FinishPose
  BY <1>4, StatusKept, TruthKept DEF FinishPose, rackVars
<1>5. CASE MoveCamera
  <2>1. history' = history /\ \A s \in Slots : fresh'[s] = 0
    BY <1>5 DEF MoveCamera, Disturb
  <2>2. NewestFramesTrue' /\ DisplacedNotFresh'
    BY <2>1 DEF NewestFramesTrue, DisplacedNotFresh, TypeOK
  <2>3. StatusOfWindow'
    BY <1>5, StatusKept DEF MoveCamera, Disturb
  <2> QED
    BY <2>2, <2>3
<1>6. CASE ChangeRack
  <2>1. PICK s \in Slots : Fill(s) \/ Unload(s)
    BY <1>6 DEF ChangeRack
  <2>2. /\ fresh' = [fresh EXCEPT ![s] = 0] /\ shown' = shown
        /\ \A t \in Slots : t # s => (t \in occupied' <=> t \in occupied)
        /\ UNCHANGED monitorVars
    BY <1>6, <2>1 DEF ChangeRack, Fill, Unload
  <2>3. NewestFramesTrue'
    <3> SUFFICES ASSUME NEW t \in Slots, NEW k \in 1 .. Len(history),
                        k > Len(history) - fresh'[t], history[k][t] # "UNKNOWN"
                 PROVE  ~Wrong(history[k], t)'
      BY <2>2 DEF NewestFramesTrue, Wrong, monitorVars
    <3>1. t # s /\ fresh'[t] = fresh[t]
      BY <2>2 DEF TypeOK
    <3> QED
      BY <2>2, <3>1 DEF NewestFramesTrue, Wrong, monitorVars
  <2>4. DisplacedNotFresh' /\ StatusOfWindow'
    BY <2>2, StatusKept DEF DisplacedNotFresh, monitorVars, TypeOK
  <2> QED
    BY <2>3, <2>4
<1>7. CASE UNCHANGED vars
  BY <1>7, StatusKept, TruthKept DEF vars, rackVars, monitorVars
<1> QED
  BY <1>1, <1>2, <1>3, <1>4, <1>5, <1>6, <1>7 DEF Next

\* At the bump the queue and the thread hold one frame from before it at the most, and
\* what is submitted later is from after it.
LEMMA InitPasses == Init => OldFramesPass
BY DEF Init, OldFramesPass

LEMMA NextPasses == TypeOK /\ OldFramesPass /\ [Next]_vars => OldFramesPass'
<1> SUFFICES ASSUME TypeOK, OldFramesPass, [Next]_vars PROVE OldFramesPass'
  OBVIOUS
<1> USE DEF OldFramesPass, TypeOK, Poses
<1>1. CASE FaultFrame \/ JudgedFrame
  <2>1. UNCHANGED <<displaced, measuring, late>>
    BY <1>1 DEF FaultFrame, JudgedFrame
  <2>2. displaced => poseQueue' # "aligned" \/ poseQueue' = poseQueue
    BY <1>1 DEF FaultFrame, JudgedFrame, submit, poseNow
  <2> QED
    BY <2>1, <2>2
<1>2. CASE TakePose
  BY <1>2 DEF TakePose
<1>3. CASE FinishPose
  <2>1. /\ UNCHANGED <<displaced, poseQueue>> /\ measuring # "none" /\ measuring' = "none"
        /\ poseResult' \in {measuring, "displaced"}
        /\ late' = IF displaced /\ poseResult' = "aligned" /\ late < 3 THEN late + 1 ELSE late
    BY <1>3 DEF FinishPose, countLate
  <2>2. CASE displaced /\ poseResult' = "aligned"
    <3>1. measuring = "aligned" /\ late <= 1
      BY <2>1, <2>2
    <3> QED
      BY <2>1, <2>2, <3>1
  <2>3. CASE ~(displaced /\ poseResult' = "aligned")
    BY <2>1, <2>3
  <2> QED
    BY <2>2, <2>3
<1>4. CASE MoveCamera
  BY <1>4 DEF MoveCamera
<1>5. CASE ChangeRack \/ UNCHANGED vars
  BY <1>5 DEF ChangeRack, vars, monitorVars
<1> QED
  BY <1>1, <1>2, <1>3, <1>4, <1>5 DEF Next

Inv == TypeOK /\ MonitorInv /\ OldFramesPass

LEMMA InvHolds == Spec => []Inv
<1>1. Init => Inv
  BY InitTypes, InitMonitor, InitPasses DEF Inv
<1>2. Inv /\ [Next]_vars => Inv'
  BY NextTypes, NextMonitor, NextPasses DEF Inv
<1> QED
  BY <1>1, <1>2, PTL DEF Spec

\* At the most two measurements after a bump tell that the camera is aligned
\* (PoseGuard.submit and PoseGuard._worker), for every schedule of the loop and the
\* thread.
THEOREM BumpMeasured == Spec => []BumpIsMeasured
<1>1. Inv => BumpIsMeasured
  BY DEF Inv, OldFramesPass, BumpIsMeasured
<1> QED
  BY <1>1, InvHolds, PTL

\* No STABLE before a whole window of frames after a fault of camera or pose
\* (rack_safety_gate.py:67-71).
THEOREM FreshWindowHolds == Spec => []FreshWindowAfterFault
<1>1. Inv => FreshWindowAfterFault
  BY DEF Inv, MonitorInv, StatusOfWindow, FreshWindowAfterFault
<1> QED
  BY <1>1, InvHolds, PTL

\* A judged frame is a step of the view: what is shown is wrong only of slots that
\* changed within the last Slack frames.
LEMMA JudgedFrameJudges ==
  ASSUME Inv, Inv', JudgedFrame
  PROVE  Judge
<1>1. fresh' \in {fresh, [s \in Slots |-> IF fresh[s] > Slack THEN fresh[s] ELSE fresh[s] + 1]}
  BY DEF JudgedFrame
<1>2. occupied' = occupied
  BY DEF JudgedFrame
<1>3. CASE status'.status = "STABLE"
  <2>1. /\ Len(history') = Window /\ status' = consensus(history')
        /\ shown' = status'.stable_states
    BY <1>3 DEF Inv, MonitorInv, StatusOfWindow, viewOf, consensus, stable, votes
  <2>2. shown' = [s \in Slots |-> stable(history', s)]
    BY <2>1 DEF consensus
  <2>3. \A s \in Slots : shown'[s] # "UNKNOWN"
    BY <1>3, <2>1, <2>2 DEF consensus
  <2>4. shown' \in [Slots -> {"EMPTY", "OCCUPIED"}]
    BY <2>2, <2>3, StableHasVotes DEF ALL_STATES, KNOWN_STATES
  <2>5. ASSUME NEW s \in Slots, Wrong(shown', s) PROVE fresh'[s] <= Slack
    <3>1. history' \in Seq(Frames) /\ fresh'[s] \in 0 .. Slack + 1
      BY DEF Inv, TypeOK
    <3>2. Cardinality(votes(history', s, shown'[s])) >= Votes
      BY <2>2, <2>3, StableHasVotes
    <3>3. \A k \in 1 .. Len(history') : k > Len(history') - fresh'[s] => history'[k][s] # shown'[s]
      <4> SUFFICES ASSUME NEW k \in 1 .. Len(history'), k > Len(history') - fresh'[s],
                          history'[k][s] = shown'[s]
                   PROVE  FALSE
        OBVIOUS
      <4>1. ~Wrong(history'[k], s)
        BY <1>2, <2>3 DEF Inv, MonitorInv, NewestFramesTrue, Wrong
      <4> QED
        BY <2>5, <4>1 DEF Wrong
    <3> QED
      BY <2>1, <3>1, <3>2, <3>3, VotesReachNewest
  <2> QED
    BY <1>1, <1>2, <2>4, <2>5 DEF Judge
<1>4. CASE status'.status # "STABLE"
  BY <1>1, <1>2, <1>4 DEF JudgedFrame, viewOf, Judge
<1> QED
  BY <1>3, <1>4

\* The monitor keeps the promise the dispatcher is modelled with: it shows no slot as
\* it is not once more frames than the vote can lose were judged since it changed
\* (live_rack_monitor.py:1595-1697, rack_safety_gate.py:39-80).
THEOREM ViewImplemented == Spec => ImplementsView
<1>1. Init => RackInit
  BY DEF Init
<1>2. Inv /\ Inv' /\ [Next]_vars => [RackNext]_rackVars
  <2> SUFFICES ASSUME Inv, Inv', [Next]_vars PROVE [RackNext]_rackVars
    OBVIOUS
  <2>1. CASE FaultFrame
    <3>1. Judge
      BY <2>1 DEF FaultFrame, Judge
    <3> QED
      BY <3>1 DEF RackNext
  <2>2. CASE JudgedFrame
    BY <2>2, JudgedFrameJudges DEF RackNext
  <2>3. CASE TakePose \/ FinishPose
    BY <2>3 DEF TakePose, FinishPose
  <2>4. CASE MoveCamera
    BY <2>4 DEF MoveCamera, RackNext
  <2>5. CASE ChangeRack
    BY <2>5 DEF ChangeRack, RackNext
  <2>6. CASE UNCHANGED vars
    BY <2>6 DEF vars
  <2> QED
    BY <2>1, <2>2, <2>3, <2>4, <2>5, <2>6 DEF Next
<1> QED
  BY <1>1, <1>2, InvHolds, PTL DEF Spec, ImplementsView, RackSpec
=============================================================================

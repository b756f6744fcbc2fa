------------------------- MODULE RackDispatch_proofs -------------------------
(***************************************************************************)
(* Why two objects end in one slot only for one of two reasons.  While     *)
(* neither has occurred, every command but the newest has its verdict and  *)
(* its motion is over, so the only motion that can still come or run is    *)
(* the one of the call that is open, and nothing but that motion fills the *)
(* slot that was seen empty.                                               *)
(* Why the arm moves the right object: of all events and commands only one *)
(* waits, and it is for the object that still lies where it was seen.      *)
(***************************************************************************)
EXTENDS RackDispatch, TLAPS

\* A motion belongs to a command that was sent; one that is over was begun and is
\* not running.
MotionsInOrder ==
  /\ begun \subseteq 1 .. opened
  /\ done \cup broken \subseteq begun
  /\ moving # 0 => moving \in begun /\ moving \notin done \cup broken

\* One call is open at a time, and only the worker's.
OneCallOpen ==
  /\ \A n \in 1 .. opened : n < opened => n \in closed
  /\ closed \subseteq 1 .. opened
  /\ worker = "calling" <=> opened # 0 /\ opened \notin closed
  /\ succeeded \cup faulted \subseteq closed

\* The view is right of every slot that has not changed for long enough.
ViewFollows == shown # NoView => \A s \in Slots : Wrong(shown, s) => fresh[s] <= Slack

\* Without an excuse, commands with a verdict are over, and the slot that is selected
\* or being filled is empty.
SlotStaysFree ==
  ~excused =>
    /\ closed \subseteq done \cup broken
    /\ worker = "selected" => slot \in Slots \ occupied
    /\ (worker = "calling" /\ opened \notin done \cup broken) => jobs[opened].slot \notin occupied

PlacementInv == MotionsInOrder /\ OneCallOpen /\ ViewFollows /\ SlotStaysFree /\ CollisionIsExplained

Inv == TypeOK /\ PlacementInv
-----------------------------------------------------------------------------
(* Types.                                                                  *)

LEMMA Parameters ==
  /\ MaxObjects \in Nat /\ MaxJobs \in Nat /\ Slack \in Nat
  /\ required_count \in Nat /\ required_count >= 1
  /\ NONE \notin Shapes /\ columnOf \in [Slots -> Shapes] /\ Slots \subseteq Nat \ {0}
BY ShapeAssumption, SlotsAssumption, CountAssumption, ObjectBound

LEMMA NoneIsNoEvent == None \notin Events /\ \A e \in Events : e.shape \in Shapes /\ e.obj \in Objects
BY Parameters DEF None, Events

LEMMA ObserveType ==
  ASSUME NEW g \in GateType, NEW shape \in Shapes \cup {NONE}
  PROVE  observe(g, shape) \in GateType
<1>1. nones(g) \in 0 .. required_count
  BY Parameters DEF nones, GateType
<1>2. candidates(g, shape) \in Nat
  BY Parameters DEF candidates, GateType
<1>3. CASE shape = NONE
  BY <1>1, <1>3, Parameters DEF observe, afterNone, GateType
<1>4. CASE shape # NONE /\ g.armed
  BY <1>2, <1>4, Parameters DEF observe, afterShape, GateType
<1>5. CASE shape # NONE /\ ~g.armed
  BY <1>5, Parameters DEF observe, GateType
<1> QED
  BY <1>3, <1>4, <1>5

\* Only a shape makes an event, never NONE.
LEMMA NoneMakesNoEvent ==
  ASSUME NEW g \in GateType, g.armed
  PROVE  observe(g, NONE).armed
BY DEF observe, afterNone, GateType

LEMMA InitTypes == Init => TypeOK
<1> SUFFICES ASSUME Init PROVE TypeOK
  OBVIOUS
<1>1. RackTypeOK
  BY Parameters DEF Init, RackInit, RackTypeOK
<1>2. gate \in GateType
  BY Parameters DEF Init, GateType
<1>3. WorldTypeOK
  BY Parameters DEF Init, WorldTypeOK
<1>4. MainTypeOK
  BY <1>2, Parameters DEF Init, MainTypeOK, GateType
<1>5. WorkerTypeOK
  BY DEF Init, Arm!Init, WorkerTypeOK
<1>6. ServiceTypeOK
  BY Parameters DEF Init, Arm!Init, ServiceTypeOK
<1>7. VerdictTypeOK
  BY DEF Init, VerdictTypeOK
<1> QED
  BY <1>1, <1>3, <1>4, <1>5, <1>6, <1>7 DEF TypeOK

\* The lowest of a set of slots is one of them.
LEMMA LowestIsMember ==
  ASSUME NEW S \in SUBSET Slots, S # {}
  PROVE  lowest(S) \in S
<1>1. \E s \in S : \A t \in S : s <= t
  BY LowestAssumption
<1> QED
  BY <1>1 DEF lowest

\* A command that is given out or fails leaves the types as they are.
LEMMA SelectTypes ==
  ASSUME TypeOK, NEW e \in Events, NEW S \in SUBSET Slots, Get(e), select(e, S)
  PROVE  /\ event' \in Events /\ slot' \in S /\ slot' \in Slots
         /\ queue' \in Seq(Events \cup {None})
BY LowestIsMember DEF TypeOK, MainTypeOK, Get, select

LEMMA PacketTypes ==
  ASSUME TypeOK, NEW shape \in Shapes \cup {NONE}, ValidPacket(shape)
  PROVE  MainTypeOK'
<1>1. gate \in GateType
  BY DEF TypeOK, MainTypeOK
<1>2. gate' \in GateType
  BY <1>1, ObserveType DEF ValidPacket
<1>3. shape # NONE => table \in Objects
  BY Parameters DEF ValidPacket, TypeOK, WorldTypeOK, Objects
<1>4. apart' \in BOOLEAN /\ noticed' \subseteq Objects /\ main' = main
  BY <1>3 DEF ValidPacket, TypeOK, MainTypeOK, worked
<1>5. CASE gate.armed /\ ~gate'.armed
  <2>1. shape # NONE /\ shape \in Shapes
    BY <1>1, <1>5, NoneMakesNoEvent DEF ValidPacket
  <2>2. [shape |-> shape, obj |-> table] \in Events
    BY <1>3, <2>1 DEF Events
  <2>3. queue' \in Seq(Events \cup {None})
    BY <1>5, <2>2 DEF ValidPacket, TypeOK, MainTypeOK
  <2>4. events' \in [Objects -> Nat]
    BY <1>3, <1>5, <2>1 DEF ValidPacket, TypeOK, MainTypeOK
  <2> QED
    BY <1>2, <1>4, <2>3, <2>4 DEF TypeOK, MainTypeOK
<1>6. CASE ~(gate.armed /\ ~gate'.armed)
  BY <1>2, <1>4, <1>6 DEF ValidPacket, TypeOK, MainTypeOK
<1> QED
  BY <1>5, <1>6

\* What each part of the types depends on.
LEMMA TypesKept ==
  ASSUME TypeOK
  PROVE  /\ UNCHANGED rackVars => RackTypeOK'
         /\ UNCHANGED world => WorldTypeOK'
         /\ UNCHANGED <<seen, queue, main>> => MainTypeOK'
         /\ UNCHANGED <<worked, service>> => WorkerTypeOK'
         /\ UNCHANGED service => ServiceTypeOK'
         /\ UNCHANGED verdicts => VerdictTypeOK'
<1>1. UNCHANGED rackVars => RackTypeOK'
  BY DEF TypeOK, rackVars, RackTypeOK
<1>2. UNCHANGED world => WorldTypeOK'
  BY DEF TypeOK, world, WorldTypeOK
<1>3. UNCHANGED <<seen, queue, main>> => MainTypeOK'
  BY DEF TypeOK, seen, MainTypeOK
<1>4. UNCHANGED <<worked, service>> => WorkerTypeOK'
  BY DEF TypeOK, worked, service, WorkerTypeOK
<1>5. UNCHANGED service => ServiceTypeOK'
  BY DEF TypeOK, service, ServiceTypeOK
<1>6. UNCHANGED verdicts => VerdictTypeOK'
  BY DEF TypeOK, verdicts, VerdictTypeOK
<1> QED
  BY <1>1, <1>2, <1>3, <1>4, <1>5, <1>6

\* Every command that was sent names a slot.
LEMMA SlotOfJob ==
  ASSUME NEW q \in Seq([slot : Slots, obj : Objects]), NEW i \in 1 .. Len(q)
  PROVE  q[i].slot \in Slots
<1>1. \A S : \A r \in Seq(S) : \A n \in 1 .. Len(r) : r[n] \in S
  OBVIOUS
<1>2. q[i] \in [slot : Slots, obj : Objects]
  BY <1>1
<1> QED
  BY <1>2

LEMMA NextTypes == TypeOK /\ [Next]_vars => TypeOK'
<1> SUFFICES ASSUME TypeOK, [Next]_vars PROVE TypeOK'
  OBVIOUS
<1>0. (RackTypeOK /\ WorldTypeOK /\ MainTypeOK /\ WorkerTypeOK /\ ServiceTypeOK /\ VerdictTypeOK)'
        => TypeOK'
  BY DEF TypeOK
<1>1. ASSUME NEW shape \in Shapes \cup {NONE}, ValidPacket(shape) PROVE TypeOK'
  <2>1. MainTypeOK'
    BY <1>1, PacketTypes
  <2> QED
    BY <1>0, <1>1, <2>1, TypesKept DEF ValidPacket
<1>2. CASE InvalidPacket
  <2>1. gate' \in GateType
    BY <1>2, Parameters DEF InvalidPacket, break_sequence, TypeOK, MainTypeOK, GateType
  <2>2. MainTypeOK'
    BY <1>2, <2>1 DEF InvalidPacket, TypeOK, MainTypeOK
  <2> QED
    BY <1>0, <1>2, <2>2, TypesKept DEF InvalidPacket
<1>3. CASE Stop \/ ClosePort
  <2>1. queue' \in Seq(Events \cup {None})
    BY <1>3 DEF Stop, ClosePort, TypeOK, MainTypeOK
  <2>2. main' \in {"running", "joining", "closed"} /\ UNCHANGED seen
    BY <1>3 DEF Stop, ClosePort
  <2>3. MainTypeOK'
    BY <2>1, <2>2 DEF seen, TypeOK, MainTypeOK
  <2> QED
    BY <1>0, <1>3, <2>3, TypesKept DEF Stop, ClosePort
<1>4. CASE GetNone \/ GetBlocked
  <2>1. queue' \in Seq(Events \cup {None})
    BY <1>4 DEF GetNone, GetBlocked, Get, TypeOK, MainTypeOK
  <2>2. MainTypeOK'
    BY <1>4, <2>1 DEF GetNone, GetBlocked, seen, TypeOK, MainTypeOK
  <2>3. WorkerTypeOK'
    <3>1. CASE GetNone
      BY <3>1 DEF GetNone, service, TypeOK, WorkerTypeOK
    <3>2. CASE GetBlocked
      BY <3>2, TypesKept DEF GetBlocked
    <3> QED
      BY <1>4, <3>1, <3>2
  <2> QED
    BY <1>0, <1>4, <2>2, <2>3, TypesKept DEF GetNone, GetBlocked
<1>5. CASE GetSelects
  <2>1. PICK e \in Events : Get(e) /\ select(e, free(shown, e.shape))
    BY <1>5 DEF GetSelects
  <2>2. event' \in Events /\ slot' \in Slots /\ queue' \in Seq(Events \cup {None})
    <3>1. free(shown, e.shape) \in SUBSET Slots
      BY DEF free
    <3> QED
      BY <2>1, <3>1, SelectTypes
  <2>3. MainTypeOK'
    BY <1>5, <2>2 DEF GetSelects, seen, TypeOK, MainTypeOK
  <2>4. WorkerTypeOK'
    BY <1>5, <2>1, <2>2 DEF GetSelects, select, service, TypeOK, WorkerTypeOK
  <2>5. VerdictTypeOK'
    BY <1>5 DEF GetSelects, TypeOK, VerdictTypeOK
  <2> QED
    BY <1>0, <1>5, <2>3, <2>4, <2>5, TypesKept DEF GetSelects
<1>6. CASE Send
  <2>1. WorkerTypeOK'
    <3>1. [slot |-> slot, obj |-> event.obj] \in [slot : Slots, obj : Objects]
      BY <1>6 DEF Send, TypeOK, WorkerTypeOK, Events
    <3>2. jobs' \in Seq([slot : Slots, obj : Objects]) /\ Len(jobs') = opened'
      BY <1>6, <3>1 DEF Send, Arm!Open, TypeOK, WorkerTypeOK
    <3> QED
      BY <1>6, <3>2 DEF Send, WorkerTypeOK
  <2>2. ServiceTypeOK'
    BY <1>6, Parameters DEF Send, Arm!Open, TypeOK, ServiceTypeOK, Arm!Jobs
  <2> QED
    BY <1>0, <1>6, <2>1, <2>2, TypesKept DEF Send
<1>7. CASE SendFails
  <2>1. WorkerTypeOK'
    BY <1>7 DEF SendFails, service, TypeOK, WorkerTypeOK
  <2> QED
    BY <1>0, <1>7, <2>1, TypesKept DEF SendFails
<1>8. CASE CallEnds
  <2>1. ServiceTypeOK'
    <3>1. opened \in Arm!Jobs /\ opened' = opened /\ moving' = moving
      BY <1>8, Parameters DEF CallEnds, Arm!Close, TypeOK, ServiceTypeOK, Arm!Jobs
    <3>2. (closed' \cup succeeded' \cup faulted') \subseteq Arm!Jobs
      BY <1>8, <3>1 DEF CallEnds, Arm!Close, TypeOK, ServiceTypeOK
    <3>3. UNCHANGED <<begun, done, broken>>
      BY <1>8 DEF CallEnds, Arm!Close
    <3> QED
      BY <3>1, <3>2, <3>3 DEF TypeOK, ServiceTypeOK, Arm!Jobs
  <2>2. WorkerTypeOK'
    BY <1>8 DEF CallEnds, Arm!Close, TypeOK, WorkerTypeOK
  <2>3. VerdictTypeOK'
    BY <1>8 DEF CallEnds, TypeOK, VerdictTypeOK
  <2> QED
    BY <1>0, <1>8, <2>1, <2>2, <2>3, TypesKept DEF CallEnds
<1>9. CASE ArmBegins
  <2>1. ServiceTypeOK'
    BY <1>9, Parameters DEF ArmBegins, Arm!Begin, TypeOK, ServiceTypeOK, Arm!Jobs
  <2>2. WorkerTypeOK'
    BY <1>9 DEF ArmBegins, Arm!Begin, outside, worked, TypeOK, WorkerTypeOK
  <2> QED
    BY <1>0, <1>9, <2>1, <2>2, TypesKept DEF ArmBegins, outside
<1>10. CASE ArmPicks
  <2>1. WorldTypeOK' /\ VerdictTypeOK'
    BY <1>10, Parameters DEF ArmPicks, TypeOK, WorldTypeOK, VerdictTypeOK
  <2> QED
    BY <1>0, <1>10, <2>1, TypesKept DEF ArmPicks, outside
<1>11. CASE ArmPlaces
  <2>1. ServiceTypeOK'
    BY <1>11, Parameters DEF ArmPlaces, Arm!End, TypeOK, ServiceTypeOK, Arm!Jobs
  <2>2. RackTypeOK'
    <3>1. moving \in 1 .. Len(jobs)
      BY <1>11, Parameters DEF ArmPlaces, Arm!End, TypeOK, ServiceTypeOK, WorkerTypeOK
    <3>2. jobs \in Seq([slot : Slots, obj : Objects])
      BY DEF TypeOK, WorkerTypeOK
    <3>3. jobs[moving].slot \in Slots
      BY <3>1, <3>2, SlotOfJob
    <3>4. occupied' \in SUBSET Slots
      BY <1>11, <3>3 DEF ArmPlaces, Fill, TypeOK, RackTypeOK
    <3>5. fresh' \in [Slots -> 0 .. Slack + 1]
      BY <1>11, <3>3, Parameters DEF ArmPlaces, Fill, TypeOK, RackTypeOK
    <3> QED
      BY <1>11, <3>4, <3>5 DEF ArmPlaces, Fill, TypeOK, RackTypeOK
  <2>3. WorldTypeOK' /\ VerdictTypeOK'
    BY <1>11, Parameters DEF ArmPlaces, TypeOK, WorldTypeOK, VerdictTypeOK
  <2>4. WorkerTypeOK'
    BY <1>11 DEF ArmPlaces, Arm!End, outside, worked, TypeOK, WorkerTypeOK
  <2> QED
    BY <1>0, <1>11, <2>1, <2>2, <2>3, <2>4, TypesKept DEF ArmPlaces, outside
<1>12. CASE ArmFails
  <2>1. ServiceTypeOK'
    BY <1>12, Parameters DEF ArmFails, Arm!End, TypeOK, ServiceTypeOK, Arm!Jobs
  <2>2. WorldTypeOK'
    BY <1>12, Parameters DEF ArmFails, TypeOK, WorldTypeOK
  <2>3. WorkerTypeOK'
    BY <1>12 DEF ArmFails, Arm!End, outside, worked, TypeOK, WorkerTypeOK
  <2> QED
    BY <1>0, <1>12, <2>1, <2>2, <2>3, TypesKept DEF ArmFails, outside
<1>13. CASE LayDown \/ TakeAway
  <2>1. WorldTypeOK'
    BY <1>13, Parameters DEF LayDown, TakeAway, TypeOK, WorldTypeOK
  <2>2. VerdictTypeOK'
    BY <1>13 DEF LayDown, TakeAway, verdicts, TypeOK, VerdictTypeOK
  <2> QED
    BY <1>0, <1>13, <2>1, <2>2, TypesKept DEF LayDown, TakeAway, outside
<1>14. CASE ViewChanges
  <2>1. RackTypeOK'
    <3>1. CASE Judge
      <4>1. fresh' \in [Slots -> 0 .. Slack + 1]
        BY <3>1, Parameters DEF Judge, TypeOK, RackTypeOK
      <4> QED
        BY <3>1, <4>1 DEF Judge, TypeOK, RackTypeOK
    <3>2. CASE Disturb
      BY <3>2, Parameters DEF Disturb, TypeOK, RackTypeOK
    <3>3. CASE \E s \in Slots : Unload(s)
      BY <3>3, Parameters DEF Unload, TypeOK, RackTypeOK
    <3> QED
      BY <1>14, <3>1, <3>2, <3>3 DEF ViewChanges
  <2> QED
    BY <1>0, <1>14, <2>1, TypesKept DEF ViewChanges, outside
<1>15. CASE UNCHANGED vars
  BY <1>0, <1>15, TypesKept DEF vars
<1> QED
  BY <1>1, <1>2, <1>3, <1>4, <1>5, <1>6, <1>7, <1>8, <1>9, <1>10, <1>11, <1>12, <1>13,
     <1>14, <1>15 DEF Next, Worker
-----------------------------------------------------------------------------
(* The parts of PlacementInv.                                              *)

LEMMA InitPlacement == Init => PlacementInv
<1> SUFFICES ASSUME Init PROVE PlacementInv
  OBVIOUS
<1>1. MotionsInOrder
  BY DEF Init, Arm!Init, MotionsInOrder
<1>2. OneCallOpen
  BY DEF Init, Arm!Init, OneCallOpen
<1>3. ViewFollows
  BY DEF Init, RackInit, ViewFollows
<1>4. SlotStaysFree
  BY DEF Init, Arm!Init, SlotStaysFree
<1> QED
  BY <1>1, <1>2, <1>3, <1>4 DEF PlacementInv, Init, CollisionIsExplained

\* Who changes the arm service, and how.
LEMMA ServiceSteps ==
  ASSUME [Next]_vars
  PROVE  \/ UNCHANGED service
         \/ Send \/ CallEnds \/ ArmBegins
         \/ (ArmPlaces /\ Arm!End(TRUE)) \/ (ArmFails /\ Arm!End(FALSE))
BY DEF Next, Worker, vars, ValidPacket, InvalidPacket, Stop, ClosePort, GetNone, GetBlocked,
       GetSelects, SendFails, ArmPicks, ArmPlaces, ArmFails, LayDown, TakeAway, ViewChanges

LEMMA MotionsKept ==
  ASSUME Inv, [Next]_vars
  PROVE  MotionsInOrder'
<1>0. opened \in Nat /\ MotionsInOrder
  BY DEF Inv, PlacementInv, TypeOK, ServiceTypeOK
<1>1. CASE UNCHANGED service
  BY <1>0, <1>1 DEF service, MotionsInOrder
<1>2. CASE Send
  BY <1>0, <1>2 DEF Send, Arm!Open, MotionsInOrder
<1>3. CASE CallEnds
  BY <1>0, <1>3 DEF CallEnds, Arm!Close, MotionsInOrder
<1>4. CASE ArmBegins
  <2>1. PICK n \in Arm!Jobs : Arm!Begin(n)
    BY <1>4 DEF ArmBegins
  <2>2. n \notin begun
    BY <1>0, <2>1 DEF Arm!Begin, MotionsInOrder
  <2> QED
    BY <1>0, <2>1, <2>2 DEF Arm!Begin, MotionsInOrder
<1>5. CASE Arm!End(TRUE)
  BY <1>0, <1>5 DEF Arm!End, MotionsInOrder
<1>6. CASE Arm!End(FALSE)
  BY <1>0, <1>6 DEF Arm!End, MotionsInOrder
<1> QED
  BY <1>1, <1>2, <1>3, <1>4, <1>5, <1>6, ServiceSteps

\* Who touches the call: the service as above, and the worker outside of a call.
LEMMA WorkerSteps ==
  ASSUME opened \in Nat, [Next]_vars, UNCHANGED service
  PROVE  worker' = worker \/ (worker \in {"get", "selected"} /\ worker' # "calling")
<1>1. CASE Send \/ CallEnds
  BY <1>1 DEF Send, CallEnds, Arm!Open, Arm!Close, service
<1> QED
  BY <1>1 DEF Next, Worker, vars, worked, outside, ValidPacket, InvalidPacket, Stop, ClosePort,
       GetNone, GetBlocked, GetSelects, Get, select, SendFails, ArmBegins, ArmPicks, ArmPlaces,
       ArmFails, LayDown, TakeAway, ViewChanges

LEMMA CallKept ==
  ASSUME Inv, [Next]_vars
  PROVE  OneCallOpen'
<1>0. opened \in Nat /\ OneCallOpen
  BY DEF Inv, PlacementInv, TypeOK, ServiceTypeOK
<1>1. CASE UNCHANGED service
  <2>1. worker = "calling" <=> worker' = "calling"
    BY <1>0, <1>1, WorkerSteps
  <2> QED
    BY <1>0, <1>1, <2>1 DEF service, OneCallOpen
<1>2. CASE Send
  BY <1>0, <1>2 DEF Send, Arm!Open, OneCallOpen
<1>3. CASE CallEnds
  <2>1. /\ opened' = opened /\ opened # 0 /\ worker' = "get"
        /\ closed' = closed \cup {opened}
    BY <1>3 DEF CallEnds, Arm!Close
  <2>2. succeeded' \cup faulted' \subseteq succeeded \cup faulted \cup {opened}
    BY <1>3 DEF CallEnds, Arm!Close
  <2>3. \A n \in 1 .. opened' : n < opened' => n \in closed'
    BY <1>0, <2>1 DEF OneCallOpen
  <2>4. closed' \subseteq 1 .. opened' /\ opened' \in closed'
    BY <1>0, <2>1 DEF OneCallOpen
  <2>5. succeeded' \cup faulted' \subseteq closed'
    BY <1>0, <2>1, <2>2 DEF OneCallOpen
  <2> QED
    BY <2>1, <2>3, <2>4, <2>5 DEF OneCallOpen
<1>4. CASE ArmBegins
  BY <1>0, <1>4 DEF ArmBegins, Arm!Begin, outside, worked, OneCallOpen
<1>5. CASE ArmPlaces
  BY <1>0, <1>5 DEF ArmPlaces, Arm!End, outside, worked, OneCallOpen
<1>6. CASE ArmFails
  BY <1>0, <1>6 DEF ArmFails, Arm!End, outside, worked, OneCallOpen
<1> QED
  BY <1>1, <1>2, <1>3, <1>4, <1>5, <1>6, ServiceSteps

\* Who changes what the monitor knows.
LEMMA ViewKept ==
  ASSUME Inv, [Next]_vars
  PROVE  ViewFollows'
<1>0. ViewFollows /\ RackTypeOK /\ Slack \in Nat
  BY Parameters DEF Inv, PlacementInv, TypeOK
<1>1. CASE UNCHANGED rackVars
  BY <1>0, <1>1 DEF rackVars, ViewFollows, Wrong
<1>2. ASSUME NEW s, Fill(s)
      PROVE  ViewFollows'
  <2>1. \A t \in Slots : Wrong(shown, t)' => t = s \/ Wrong(shown, t)
    BY <1>2 DEF Fill, Wrong
  <2>2. \A t \in Slots : fresh'[t] = IF t = s THEN 0 ELSE fresh[t]
    BY <1>0, <1>2 DEF Fill, RackTypeOK
  <2> QED
    BY <1>0, <1>2, <2>1, <2>2 DEF Fill, ViewFollows
<1>3. ASSUME NEW s, Unload(s)
      PROVE  ViewFollows'
  <2>1. \A t \in Slots : Wrong(shown, t)' => t = s \/ Wrong(shown, t)
    BY <1>3 DEF Unload, Wrong
  <2>2. \A t \in Slots : fresh'[t] = IF t = s THEN 0 ELSE fresh[t]
    BY <1>0, <1>3 DEF Unload, RackTypeOK
  <2> QED
    BY <1>0, <1>3, <2>1, <2>2 DEF Unload, ViewFollows
<1>4. CASE Disturb
  BY <1>0, <1>4 DEF Disturb, ViewFollows
<1>5. CASE Judge
  BY <1>5 DEF Judge, ViewFollows, Wrong
<1>6. UNCHANGED rackVars \/ (\E s : Fill(s) \/ Unload(s)) \/ Disturb \/ Judge
  BY DEF Next, Worker, vars, ValidPacket, InvalidPacket, Stop, ClosePort, GetNone, GetBlocked,
       GetSelects, Send, SendFails, CallEnds, ArmBegins, ArmPicks, ArmPlaces, ArmFails, LayDown,
       TakeAway, ViewChanges
<1> QED
  BY <1>1, <1>2, <1>3, <1>4, <1>5, <1>6

\* While there is no excuse, the motion that ends is the one of the open call.
LEMMA MotionOfOpenCall ==
  ASSUME Inv, ~excused, moving # 0
  PROVE  moving = opened /\ worker = "calling" /\ opened \notin done \cup broken
<1>1. moving \in 1 .. opened /\ moving \notin done \cup broken
  BY DEF Inv, PlacementInv, MotionsInOrder
<1>2. moving \notin closed
  BY <1>1 DEF Inv, PlacementInv, SlotStaysFree
<1>3. opened \in Nat
  BY DEF Inv, TypeOK, ServiceTypeOK
<1>4. moving = opened
  BY <1>1, <1>2, <1>3 DEF Inv, PlacementInv, OneCallOpen
<1> QED
  BY <1>1, <1>2, <1>4 DEF Inv, PlacementInv, OneCallOpen

\* What the selection is made from is what the slot is.
LEMMA SelectedIsEmpty ==
  ASSUME Inv, GetSelects, ~excused'
  PROVE  slot' \in Slots \ occupied
<1>1. PICK e \in Events : Get(e) /\ select(e, free(shown, e.shape))
  BY DEF GetSelects
<1>2. free(shown, e.shape) \in SUBSET Slots
  BY DEF free
<1>3. slot' \in free(shown, e.shape) /\ slot' \in Slots
  BY <1>1, <1>2, SelectTypes DEF Inv
<1>4. shown[slot'] = "EMPTY"
  BY <1>3 DEF free
<1>5. ~(fresh[slot'] <= Slack) /\ shown # NoView
  BY DEF GetSelects
<1>6. ~Wrong(shown, slot')
  BY <1>3, <1>5 DEF Inv, PlacementInv, ViewFollows
<1> QED
  BY <1>3, <1>4, <1>6 DEF Wrong

\* Steps that leave alone all that SlotStaysFree and CollisionIsExplained speak of,
\* except that a slot may be emptied.
Apart == /\ UNCHANGED <<closed, done, broken, opened, jobs, worker, slot, excused, collided>>
         /\ occupied' \subseteq occupied

LEMMA FreeSteps ==
  ASSUME Inv, [Next]_vars
  PROVE  \/ Apart
         \/ GetNone \/ SendFails \/ GetSelects \/ Send \/ CallEnds \/ ArmPlaces \/ ArmFails
BY DEF Apart, Next, Worker, vars, rackVars, worked, service, verdicts, outside, ValidPacket,
       InvalidPacket, Stop, ClosePort, GetBlocked, ArmBegins, Arm!Begin, ArmPicks, LayDown,
       TakeAway, ViewChanges, Judge, Disturb, Unload

LEMMA FreeKept ==
  ASSUME Inv, [Next]_vars
  PROVE  SlotStaysFree'
<1> SUFFICES ASSUME ~excused'
             PROVE  /\ closed' \subseteq done' \cup broken'
                    /\ worker' = "selected" => slot' \in Slots \ occupied'
                    /\ (worker' = "calling" /\ opened' \notin done' \cup broken')
                         => (jobs[opened].slot)' \notin occupied'
  BY DEF SlotStaysFree
<1>0. opened \in Nat /\ SlotStaysFree /\ OneCallOpen /\ excused \in BOOLEAN
  BY DEF Inv, PlacementInv, TypeOK, ServiceTypeOK, VerdictTypeOK
<1>1. CASE Apart
  BY <1>0, <1>1 DEF Apart, SlotStaysFree
<1>2. CASE GetNone \/ SendFails
  BY <1>0, <1>2 DEF GetNone, SendFails, rackVars, service, verdicts, SlotStaysFree
<1>3. CASE GetSelects
  <2>1. ~excused /\ worker' = "selected" /\ UNCHANGED <<closed, done, broken, occupied>>
    BY <1>3 DEF GetSelects, select, rackVars, service
  <2>2. slot' \in Slots \ occupied
    BY <1>3, SelectedIsEmpty
  <2> QED
    BY <1>0, <2>1, <2>2 DEF SlotStaysFree
<1>4. CASE Send
  <2>1. /\ ~excused /\ worker = "selected" /\ worker' = "calling"
        /\ UNCHANGED <<closed, done, broken, occupied>> /\ opened' = opened + 1
    BY <1>4 DEF Send, Arm!Open, rackVars, verdicts
  <2>2. Len(jobs) = opened /\ jobs \in Seq([slot : Slots, obj : Objects])
    BY DEF Inv, TypeOK, WorkerTypeOK
  <2>3. jobs'[opened'] = [slot |-> slot, obj |-> event.obj]
    BY <1>0, <1>4, <2>1, <2>2 DEF Send
  <2> QED
    BY <1>0, <2>1, <2>3 DEF SlotStaysFree
<1>5. CASE CallEnds
  <2>1. /\ ~excused /\ opened \in succeeded' \cup faulted' /\ opened \notin closed
        /\ worker' = "get" /\ closed' = closed \cup {opened} /\ UNCHANGED <<done, broken>>
    BY <1>5 DEF CallEnds, Arm!Close
  <2>2. opened \notin succeeded \cup faulted
    BY <1>0, <2>1 DEF OneCallOpen
  <2>3. opened \in done \cup broken
    BY <1>5, <2>1, <2>2 DEF CallEnds, Arm!Close
  <2> QED
    BY <1>0, <2>1, <2>3 DEF SlotStaysFree
<1>6. CASE ArmPlaces
  <2>1. /\ ~excused /\ moving # 0 /\ UNCHANGED <<closed, opened, broken, worker>>
        /\ done' = done \cup {moving}
    BY <1>6 DEF ArmPlaces, Arm!End, outside, worked
  <2>2. moving = opened /\ worker = "calling"
    BY <2>1, MotionOfOpenCall
  <2> QED
    BY <1>0, <2>1, <2>2 DEF SlotStaysFree
<1>7. CASE ArmFails
  <2>1. /\ ~excused /\ UNCHANGED <<closed, opened, done, worker, slot, jobs, occupied>>
        /\ broken \subseteq broken'
    BY <1>7 DEF ArmFails, Arm!End, outside, worked, rackVars, verdicts
  <2> QED
    BY <1>0, <2>1 DEF SlotStaysFree
<1> QED
  BY <1>1, <1>2, <1>3, <1>4, <1>5, <1>6, <1>7, FreeSteps

LEMMA CollisionKept ==
  ASSUME Inv, [Next]_vars
  PROVE  CollisionIsExplained'
<1>0. SlotStaysFree /\ CollisionIsExplained /\ excused \in BOOLEAN /\ collided \in BOOLEAN
  BY DEF Inv, PlacementInv, TypeOK, VerdictTypeOK
<1>1. CASE ArmPlaces
  <2>1. /\ moving # 0 /\ excused' = excused
        /\ collided' = (collided \/ jobs[moving].slot \in occupied)
    BY <1>1 DEF ArmPlaces, Arm!End
  <2>2. ~excused => jobs[moving].slot \notin occupied
    BY <1>0, <2>1, MotionOfOpenCall DEF SlotStaysFree
  <2> QED
    BY <1>0, <2>1, <2>2 DEF CollisionIsExplained
<1>2. CASE ~ArmPlaces
  <2>1. collided' = collided /\ (excused => excused')
    <3>1. CASE GetSelects \/ CallEnds
      BY <3>1 DEF GetSelects, CallEnds
    <3>2. CASE Apart \/ GetNone \/ SendFails \/ Send \/ ArmFails
      <4>1. UNCHANGED verdicts \/ UNCHANGED <<excused, collided>>
        BY <3>2 DEF Apart, GetNone, SendFails, Send, ArmFails
      <4>2. UNCHANGED <<excused, collided>>
        BY <4>1 DEF verdicts
      <4> QED
        BY <4>2
    <3> QED
      BY <1>2, <3>1, <3>2, FreeSteps
  <2> QED
    BY <1>0, <2>1 DEF CollisionIsExplained
<1> QED
  BY <1>1, <1>2
-----------------------------------------------------------------------------
(* One event for one object.                                               *)

\* An object that caused its event keeps the gate from arming as long as it lies there,
\* and one that was not laid down yet has caused none.
EventsCounted ==
  /\ table <= laid
  /\ \A o \in Objects : events[o] <= 1 /\ (o > laid => events[o] = 0)
  /\ (table # 0 /\ events[table] = 1) => ~gate.armed

\* After NONE the gate is armed, so what is seen then makes its event.
NoticedCounted ==
  /\ apart => gate.armed
  /\ \A o \in noticed : events[o] = 1

LEMMA InitEvents == Init => EventsCounted /\ NoticedCounted
BY Parameters DEF Init, EventsCounted, NoticedCounted, Objects

\* NONE disarms nobody, a shape arms nobody.
LEMMA ShapeArmsNobody ==
  ASSUME NEW g \in GateType, NEW shape \in Shapes, observe(g, shape).armed
  PROVE  g.armed
BY Parameters DEF observe, GateType

\* What a packet does to the count, by whether it makes an event.
LEMMA PacketCounts ==
  ASSUME TypeOK, NEW shape \in Shapes \cup {NONE}, ValidPacket(shape)
  PROVE  /\ gate \in GateType /\ gate' = observe(gate, shape) /\ UNCHANGED <<laid, table>>
         /\ shape = NONE <=> table = 0
         /\ gate.armed /\ ~gate'.armed =>
              shape \in Shapes /\ table \in Objects /\ events' = [events EXCEPT ![table] = @ + 1]
         /\ ~(gate.armed /\ ~gate'.armed) => UNCHANGED events
<1>1. gate \in GateType /\ gate' = observe(gate, shape)
  BY DEF TypeOK, MainTypeOK, ValidPacket
<1>2. (shape = NONE <=> table = 0) /\ UNCHANGED <<laid, table>>
  BY DEF ValidPacket, world
<1>3. ASSUME gate.armed, ~gate'.armed
      PROVE  shape \in Shapes /\ table \in Objects /\ events' = [events EXCEPT ![table] = @ + 1]
  <2>1. shape # NONE
    BY <1>1, <1>3, NoneMakesNoEvent
  <2> QED
    BY <1>2, <1>3, <2>1, Parameters DEF TypeOK, WorldTypeOK, Objects, ValidPacket
<1>4. ASSUME ~(gate.armed /\ ~gate'.armed) PROVE UNCHANGED events
  BY <1>4 DEF ValidPacket
<1> QED
  BY <1>1, <1>2, <1>3, <1>4

\* Every other step leaves the events and whether the gate is armed as they are.
LEMMA CountSteps ==
  ASSUME TypeOK, [Next]_vars
  PROVE  \/ \E shape \in Shapes \cup {NONE} : ValidPacket(shape)
         \/ /\ UNCHANGED <<events, apart, noticed>> /\ gate'.armed = gate.armed
            /\ \/ laid' = laid /\ table' \in {table, 0}
               \/ LayDown
<1>1. CASE InvalidPacket
  BY <1>1 DEF InvalidPacket, break_sequence, world
<1>2. CASE Stop \/ ClosePort \/ GetNone \/ GetBlocked \/ GetSelects \/ Send \/ SendFails \/ CallEnds
  BY <1>2 DEF Stop, ClosePort, GetNone, GetBlocked, GetSelects, Send, SendFails, CallEnds, world, seen
<1>3. CASE ArmBegins \/ ArmPicks \/ ArmPlaces \/ ArmFails \/ LayDown \/ TakeAway \/ ViewChanges
  BY <1>3 DEF ArmBegins, ArmPicks, ArmPlaces, ArmFails, LayDown, TakeAway, ViewChanges, outside,
              world, seen
<1>4. CASE UNCHANGED vars
  BY <1>4 DEF vars, world, seen
<1> QED
  BY <1>1, <1>2, <1>3, <1>4 DEF Next, Worker

LEMMA EventsKept ==
  ASSUME TypeOK, EventsCounted, [Next]_vars
  PROVE  EventsCounted'
<1>0. /\ laid \in Nat /\ table \in Nat /\ events \in [Objects -> Nat] /\ gate.armed \in BOOLEAN
      /\ \A o \in Objects : o \in Nat
  BY Parameters DEF TypeOK, WorldTypeOK, MainTypeOK, GateType, Objects
<1>1. ASSUME NEW shape \in Shapes \cup {NONE}, ValidPacket(shape) PROVE EventsCounted'
  <2>1. CASE gate.armed /\ ~gate'.armed
    <3>1. /\ table \in Objects /\ events' = [events EXCEPT ![table] = @ + 1]
          /\ UNCHANGED <<laid, table>>
      BY <1>1, <2>1, PacketCounts
    <3>2. table # 0 /\ events[table] = 0
      BY <1>0, <2>1, <3>1, Parameters DEF EventsCounted, Objects
    <3>3. \A o \in Objects : events'[o] = IF o = table THEN 1 ELSE events[o]
      BY <1>0, <3>1, <3>2
    <3>4. table <= laid
      BY DEF EventsCounted
    <3> QED
      BY <1>0, <2>1, <3>1, <3>3, <3>4 DEF EventsCounted
  <2>2. CASE ~(gate.armed /\ ~gate'.armed)
    <3>1. UNCHANGED <<events, laid, table>>
      BY <1>1, <2>2, PacketCounts
    <3>2. table # 0 /\ ~gate.armed => ~gate'.armed
      BY <1>1, PacketCounts, ShapeArmsNobody
    <3> QED
      BY <3>1, <3>2 DEF EventsCounted
  <2> QED
    BY <2>1, <2>2
<1>2. CASE /\ UNCHANGED events /\ gate'.armed = gate.armed
           /\ laid' = laid /\ table' \in {table, 0}
  BY <1>0, <1>2 DEF EventsCounted
<1>3. CASE UNCHANGED events /\ LayDown
  <2>1. laid' = laid + 1 /\ table' = laid + 1 /\ table' \in Objects
    BY <1>0, <1>3, Parameters DEF LayDown, Objects
  <2>2. events'[table'] = 0
    BY <1>0, <1>3, <2>1 DEF EventsCounted
  <2> QED
    BY <1>0, <1>3, <2>1, <2>2 DEF EventsCounted
<1> QED
  BY <1>1, <1>2, <1>3, CountSteps

\* With a count of one, the first shape after NONE makes the event.
LEMMA NoticedKept ==
  ASSUME required_count = 1, TypeOK, EventsCounted, NoticedCounted, [Next]_vars
  PROVE  NoticedCounted'
<1>0. /\ events \in [Objects -> Nat] /\ noticed \subseteq Objects /\ gate.armed \in BOOLEAN
      /\ apart \in BOOLEAN
  BY Parameters DEF TypeOK, MainTypeOK, GateType
<1>1. ASSUME NEW shape \in Shapes \cup {NONE}, ValidPacket(shape) PROVE NoticedCounted'
  <2>0. /\ apart' = (shape = NONE)
        /\ noticed' = IF shape # NONE /\ apart THEN noticed \cup {table} ELSE noticed
    BY <1>1 DEF ValidPacket
  <2>1. CASE shape = NONE
    <3>1. gate \in GateType /\ gate' = observe(gate, shape) /\ table = 0
      BY <1>1, <2>1, PacketCounts
    <3>2. gate'.armed
      <4>1. nones(gate) = 1
        BY <3>1 DEF nones, GateType
      <4>2. gate' = afterNone(gate, 1)
        BY <2>1, <3>1, <4>1 DEF observe
      <4> QED
        BY <4>2 DEF afterNone
    <3>3. UNCHANGED events
      BY <1>1, <3>2, PacketCounts
    <3> QED
      BY <2>0, <2>1, <3>2, <3>3 DEF NoticedCounted
  <2>2. CASE shape # NONE /\ apart
    <3>1. gate \in GateType /\ gate' = observe(gate, shape) /\ gate.armed
      BY <1>1, <2>2, PacketCounts DEF NoticedCounted
    <3>2. ~gate'.armed
      BY <2>2, <3>1 DEF observe, afterShape, candidates, GateType
    <3>3. table \in Objects /\ events' = [events EXCEPT ![table] = @ + 1]
      BY <1>1, <3>1, <3>2, PacketCounts
    <3>4. events[table] = 0
      BY <1>0, <3>1, <3>3, Parameters DEF EventsCounted, Objects
    <3>5. table \notin noticed /\ events'[table] = 1
      BY <1>0, <3>3, <3>4 DEF NoticedCounted
    <3>6. \A o \in noticed : events'[o] = 1
      BY <1>0, <3>3, <3>5 DEF NoticedCounted
    <3> QED
      BY <2>0, <2>2, <3>5, <3>6 DEF NoticedCounted
  <2>3. CASE shape # NONE /\ ~apart
    <3>1. CASE gate.armed /\ ~gate'.armed
      <4>1. table \in Objects /\ events' = [events EXCEPT ![table] = @ + 1]
        BY <1>1, <3>1, PacketCounts
      <4>2. events[table] = 0
        BY <1>0, <3>1, <4>1, Parameters DEF EventsCounted, Objects
      <4> QED
        BY <1>0, <2>0, <2>3, <4>1, <4>2 DEF NoticedCounted
    <3>2. CASE ~(gate.armed /\ ~gate'.armed)
      <4>1. UNCHANGED events
        BY <1>1, <3>2, PacketCounts
      <4> QED
        BY <2>0, <2>3, <4>1 DEF NoticedCounted
    <3> QED
      BY <3>1, <3>2
  <2> QED
    BY <2>1, <2>2, <2>3
<1>2. CASE UNCHANGED <<events, apart, noticed>> /\ gate'.armed = gate.armed
  BY <1>2 DEF NoticedCounted
<1> QED
  BY <1>1, <1>2, CountSteps
-----------------------------------------------------------------------------
(* The object a command is for.                                            *)

\* An event in the queue, a command whose motion has not gripped anything yet.
WaitsInQueue(i) == i \in 1 .. Len(queue) /\ queue[i] # None
WaitsForArm(n) == n \in 1 .. opened /\ (n \notin begun \/ (n = moving /\ held = 0))

\* Object o still lies where it caused its event.
Due(o) == o \in Objects /\ o = table /\ events[o] = 1

\* Whatever waits is for the object that lies there, and only one thing waits.
Errands ==
  /\ \A i : WaitsInQueue(i) => Due(queue[i].obj)
  /\ event # None => Due(event.obj)
  /\ \A n : WaitsForArm(n) => Due(jobs[n].obj)
  /\ \A i, j : WaitsInQueue(i) /\ WaitsInQueue(j) => i = j
  /\ \A m, n : WaitsForArm(m) /\ WaitsForArm(n) => m = n
  /\ \A i, n : ~(WaitsInQueue(i) /\ WaitsForArm(n))
  /\ \A i : WaitsInQueue(i) => event = None
  /\ \A n : WaitsForArm(n) => event = None

NothingWaits == (\A i : ~WaitsInQueue(i)) /\ event = None /\ \A n : ~WaitsForArm(n)

ErrandInv ==
  /\ event # None => worker = "selected"
  /\ held # 0 => moving # 0
  /\ ~robbed => Errands
  /\ OwnObject

LEMMA InitErrands == Init => ErrandInv
<1> SUFFICES ASSUME Init PROVE ErrandInv
  OBVIOUS
<1>1. NothingWaits /\ held = 0 /\ ~mixedUp
  BY DEF Init, Arm!Init, NothingWaits, WaitsInQueue, WaitsForArm
<1> QED
  BY <1>1 DEF NothingWaits, ErrandInv, Errands, OwnObject

\* Nothing waits when nothing lies there, or when what lies there made no event yet.
LEMMA NothingDue ==
  ASSUME Errands, table = 0 \/ events[table] # 1
  PROVE  NothingWaits
<1>1. \A o : ~Due(o)
  BY Parameters DEF Due, Objects
<1> QED
  BY <1>1 DEF Errands, NothingWaits

\* A step after which nothing waits that did not wait before.
LEMMA ErrandsShrink ==
  ASSUME Errands, UNCHANGED <<table, events>>, event' \in {event, None}, NEW k \in {0, 1},
         \A i : WaitsInQueue(i)' => WaitsInQueue(i + k) /\ queue'[i] = queue[i + k],
         \A n : WaitsForArm(n)' => WaitsForArm(n) /\ jobs'[n] = jobs[n]
  PROVE  Errands'
<1>1. \A i : WaitsInQueue(i)' => i \in Nat
  BY DEF WaitsInQueue
<1>2. \A i : WaitsInQueue(i)' => Due(queue[i].obj)'
  BY DEF Errands, Due
<1>3. event' # None => Due(event.obj)'
  BY DEF Errands, Due
<1>4. \A n : WaitsForArm(n)' => Due(jobs[n].obj)'
  BY DEF Errands, Due
<1>5. \A i, j : WaitsInQueue(i)' /\ WaitsInQueue(j)' => i = j
  <2> SUFFICES ASSUME NEW i, NEW j, WaitsInQueue(i)', WaitsInQueue(j)' PROVE i = j
    OBVIOUS
  <2>1. i + k = j + k
    BY DEF Errands
  <2> QED
    BY <1>1, <2>1
<1>6. \A m, n : WaitsForArm(m)' /\ WaitsForArm(n)' => m = n
  BY DEF Errands
<1>7. \A i, n : ~(WaitsInQueue(i)' /\ WaitsForArm(n)')
  BY DEF Errands
<1>8. (\A i : WaitsInQueue(i)' => event' = None) /\ \A n : WaitsForArm(n)' => event' = None
  BY DEF Errands
<1> QED
  BY <1>2, <1>3, <1>4, <1>5, <1>6, <1>7, <1>8 DEF Errands

\* What the steps of everybody but the main thread and the worker may change.
LEMMA WaitingIsLocal ==
  /\ UNCHANGED queue => \A i : WaitsInQueue(i)' <=> WaitsInQueue(i)
  /\ UNCHANGED <<opened, begun, moving, held>> => \A n : WaitsForArm(n)' <=> WaitsForArm(n)
BY DEF WaitsInQueue, WaitsForArm

LEMMA ErrandsStay ==
  ASSUME Errands, UNCHANGED <<table, events, event, queue, jobs, opened, begun, moving, held>>
  PROVE  Errands'
<1>1. \A i : WaitsInQueue(i)' => WaitsInQueue(i + 0) /\ queue'[i] = queue[i + 0]
  BY WaitingIsLocal DEF WaitsInQueue
<1>2. \A n : WaitsForArm(n)' => WaitsForArm(n) /\ jobs'[n] = jobs[n]
  BY WaitingIsLocal
<1> QED
  BY <1>1, <1>2, ErrandsShrink

\* The oldest event leaves the queue.
LEMMA QueueTail ==
  ASSUME queue \in Seq(Events \cup {None}), NEW e, Get(e)
  PROVE  /\ worker = "get" /\ e = queue[1] /\ (e # None => WaitsInQueue(1))
         /\ \A i : WaitsInQueue(i)' => WaitsInQueue(i + 1) /\ queue'[i] = queue[i + 1]
<1>1. /\ queue # <<>> /\ e = queue[1] /\ queue' = Tail(queue) /\ worker = "get"
      /\ Len(queue) \in Nat /\ Len(queue) >= 1
  BY DEF Get
<1>2. Len(queue') = Len(queue) - 1 /\ \A i \in 1 .. Len(queue) - 1 : queue'[i] = queue[i + 1]
  BY <1>1
<1> QED
  BY <1>1, <1>2 DEF WaitsInQueue

\* The packet that makes an event: nothing waited, and now the event does.
LEMMA PacketErrand ==
  ASSUME TypeOK, EventsCounted, Errands, NEW shape \in Shapes \cup {NONE}, ValidPacket(shape)
  PROVE  Errands'
<1>0. /\ queue \in Seq(Events \cup {None}) /\ events \in [Objects -> Nat]
      /\ UNCHANGED <<table, held, event, jobs, opened, begun, moving>>
  BY DEF TypeOK, MainTypeOK, ValidPacket, world, worked, service
<1>1. CASE gate.armed /\ ~gate'.armed
  <2>1. /\ shape \in Shapes /\ table \in Objects /\ events' = [events EXCEPT ![table] = @ + 1]
        /\ queue' = Append(queue, [shape |-> shape, obj |-> table])
    BY <1>1, PacketCounts DEF ValidPacket
  <2>2. events[table] = 0 /\ events'[table] = 1
    BY <1>0, <1>1, <2>1, Parameters DEF EventsCounted, Objects
  <2>3. NothingWaits
    BY <2>2, NothingDue
  <2>4. Due(table)'
    BY <1>0, <2>1, <2>2 DEF Due
  <2>5. \A i : WaitsInQueue(i)' => i = Len(queue') /\ queue'[i].obj = table
    BY <1>0, <2>1, <2>3 DEF NothingWaits, WaitsInQueue
  <2>6. event' = None /\ \A n : ~WaitsForArm(n)'
    BY <1>0, <2>3 DEF NothingWaits, WaitsForArm
  <2>7. \A i : WaitsInQueue(i)' => Due(queue[i].obj)'
    BY <1>0, <2>4, <2>5 DEF Due
  <2> QED
    BY <2>5, <2>6, <2>7 DEF Errands
<1>2. CASE ~(gate.armed /\ ~gate'.armed)
  <2>1. UNCHANGED <<queue, events>>
    BY <1>2 DEF ValidPacket
  <2> QED
    BY <1>0, <2>1, ErrandsStay
<1> QED
  BY <1>1, <1>2

\* The main thread and the worker, up to the selection of a slot.
LEMMA QueueErrand ==
  ASSUME TypeOK, Errands, Stop \/ GetNone \/ GetBlocked
  PROVE  Errands'
<1>0. queue \in Seq(Events \cup {None})
  BY DEF TypeOK, MainTypeOK
<1>1. CASE Stop
  <2>1. /\ queue' = Append(queue, None)
        /\ UNCHANGED <<table, events, event, jobs, opened, begun, moving, held>>
    BY <1>1 DEF Stop, world, seen, worked, service
  <2>2. \A i : WaitsInQueue(i)' => WaitsInQueue(i + 0) /\ queue'[i] = queue[i + 0]
    BY <1>0, <2>1 DEF WaitsInQueue
  <2>3. \A n : WaitsForArm(n)' => WaitsForArm(n) /\ jobs'[n] = jobs[n]
    BY <2>1, WaitingIsLocal
  <2> QED
    BY <2>1, <2>2, <2>3, ErrandsShrink
<1>2. CASE GetNone \/ GetBlocked
  <2>1. /\ \E e : Get(e)
        /\ UNCHANGED <<table, events, event, jobs, opened, begun, moving, held>>
    BY <1>2 DEF GetNone, GetBlocked, world, seen, worked, service
  <2>2. \A i : WaitsInQueue(i)' => WaitsInQueue(i + 1) /\ queue'[i] = queue[i + 1]
    BY <1>0, <2>1, QueueTail
  <2>3. \A n : WaitsForArm(n)' => WaitsForArm(n) /\ jobs'[n] = jobs[n]
    BY <2>1, WaitingIsLocal
  <2> QED
    BY <2>1, <2>2, <2>3, ErrandsShrink
<1> QED
  BY <1>1, <1>2

\* The event of the queue becomes the worker's.
LEMMA SelectErrand ==
  ASSUME TypeOK, Errands, GetSelects
  PROVE  Errands'
<1>1. PICK e \in Events : Get(e) /\ select(e, free(shown, e.shape))
  BY DEF GetSelects
<1>2. queue \in Seq(Events \cup {None}) /\ e # None
  BY NoneIsNoEvent DEF TypeOK, MainTypeOK
<1>3. /\ e = queue[1] /\ WaitsInQueue(1) /\ event' = e
      /\ \A i : WaitsInQueue(i)' => WaitsInQueue(i + 1)
  BY <1>1, <1>2, QueueTail DEF select
<1>4. UNCHANGED <<table, events, jobs, opened, begun, moving, held>>
  BY DEF GetSelects, world, seen, service
<1>5. \A i : ~WaitsInQueue(i)'
  <2>1. \A i : WaitsInQueue(i)' => i \in Nat /\ i >= 1
    BY DEF WaitsInQueue
  <2>2. \A i : WaitsInQueue(i)' => i + 1 = 1
    BY <1>3 DEF Errands
  <2> QED
    BY <2>1, <2>2
<1>6. \A n : ~WaitsForArm(n)'
  BY <1>3, <1>4, WaitingIsLocal DEF Errands
<1>7. Due(event.obj)'
  BY <1>3, <1>4 DEF Errands, Due
<1> QED
  BY <1>5, <1>6, <1>7 DEF Errands

\* The worker's event becomes a command.
LEMMA SendErrand ==
  ASSUME TypeOK, MotionsInOrder, event # None => worker = "selected", Errands, Send
  PROVE  Errands'
<1>0. /\ opened \in Nat /\ Len(jobs) = opened /\ jobs \in Seq([slot : Slots, obj : Objects])
      /\ moving \in Nat /\ moving <= opened /\ begun \subseteq 1 .. opened
  BY DEF TypeOK, WorkerTypeOK, ServiceTypeOK, MotionsInOrder
<1>1. /\ worker = "selected" /\ opened' = opened + 1 /\ event' = None
      /\ jobs' = Append(jobs, [slot |-> slot, obj |-> event.obj])
      /\ UNCHANGED <<table, events, queue, begun, moving, held>>
  BY DEF Send, Arm!Open, world, seen
<1>2. event # None
  BY <1>1, NoneIsNoEvent DEF TypeOK, WorkerTypeOK
<1>3. (\A i : ~WaitsInQueue(i)) /\ (\A n : ~WaitsForArm(n)) /\ Due(event.obj)
  BY <1>2 DEF Errands
<1>4. \A i : ~WaitsInQueue(i)'
  BY <1>1, <1>3, WaitingIsLocal
<1>5. \A n : WaitsForArm(n)' => n = opened + 1
  BY <1>0, <1>1, <1>3 DEF WaitsForArm
<1>6. jobs'[opened + 1].obj = event.obj
  BY <1>0, <1>1
<1>7. \A n : WaitsForArm(n)' => Due(jobs[n].obj)'
  BY <1>1, <1>3, <1>5, <1>6 DEF Due
<1> QED
  BY <1>1, <1>4, <1>5, <1>7 DEF Errands

\* The arm's own steps: a motion begins once, grips once, and what it gripped it lets go.
LEMMA ArmErrand ==
  ASSUME TypeOK, MotionsInOrder, held # 0 => moving # 0, Errands,
         ArmBegins \/ ArmPicks \/ ArmPlaces \/ ArmFails
  PROVE  Errands' /\ (ArmPicks => jobs[moving].obj = table)
<1>0. /\ opened \in Nat /\ moving \in Nat /\ begun \subseteq 1 .. opened
      /\ moving # 0 => moving \in begun
  BY DEF TypeOK, ServiceTypeOK, MotionsInOrder
<1>1. UNCHANGED <<events, event, queue, jobs>>
  BY DEF ArmBegins, ArmPicks, ArmPlaces, ArmFails, outside, seen, worked
<1>2. \A i : WaitsInQueue(i)' => WaitsInQueue(i + 0) /\ queue'[i] = queue[i + 0]
  BY <1>1, WaitingIsLocal DEF WaitsInQueue
<1>3. ASSUME UNCHANGED table, \A n : WaitsForArm(n)' => WaitsForArm(n)
      PROVE  Errands'
  BY <1>1, <1>2, <1>3, ErrandsShrink
<1>4. CASE ArmBegins
  <2>1. PICK n \in Arm!Jobs : Arm!Begin(n)
    BY <1>4 DEF ArmBegins
  <2>2. /\ moving = 0 /\ held = 0 /\ held' = held /\ opened' = opened /\ table' = table
        /\ begun' = begun \cup {n} /\ moving' = n /\ n \in 1 .. opened
        /\ \A m \in begun : m < n
    BY <1>4, <2>1 DEF Arm!Begin, ArmBegins, world
  <2>3. n \notin begun
    BY <1>0, <2>2
  <2>4. \A m : WaitsForArm(m)' => WaitsForArm(m)
    BY <2>2, <2>3 DEF WaitsForArm
  <2> QED
    BY <1>3, <2>2, <2>4 DEF ArmPicks
<1>5. CASE ArmPicks
  <2>1. /\ moving # 0 /\ held = 0 /\ held' = table /\ table # 0 /\ table' = 0
        /\ UNCHANGED <<opened, begun, moving>>
    BY <1>5 DEF ArmPicks, service
  <2>2. WaitsForArm(moving)
    BY <1>0, <2>1 DEF WaitsForArm
  <2>3. jobs[moving].obj = table /\ event = None /\ \A i : ~WaitsInQueue(i)
    BY <2>2 DEF Errands, Due
  <2>4. \A n : ~WaitsForArm(n)'
    <3>1. \A n : WaitsForArm(n)' => WaitsForArm(n) /\ n \notin begun
      BY <2>1 DEF WaitsForArm
    <3>2. \A n : WaitsForArm(n) => n = moving
      BY <2>2 DEF Errands
    <3> QED
      BY <1>0, <2>1, <3>1, <3>2
  <2>5. event' = None /\ \A i : ~WaitsInQueue(i)'
    BY <1>1, <1>2, <2>3 DEF WaitsInQueue
  <2> QED
    BY <2>3, <2>4, <2>5 DEF Errands
<1>6. CASE ArmPlaces \/ ArmFails
  <2>1. moving' = 0 /\ UNCHANGED <<table, opened, begun>>
    BY <1>6 DEF ArmPlaces, ArmFails, Arm!End
  <2>2. \A n : WaitsForArm(n)' => WaitsForArm(n)
    BY <2>1 DEF WaitsForArm
  <2>3. ~ArmPicks
    BY <1>6 DEF ArmPicks, ArmPlaces, ArmFails, Arm!End, service
  <2> QED
    BY <1>3, <2>1, <2>2, <2>3
<1> QED
  BY <1>4, <1>5, <1>6

\* People: the next object finds nothing waiting.
LEMMA LayDownErrand ==
  ASSUME Errands, LayDown
  PROVE  Errands'
<1>1. NothingWaits
  BY NothingDue DEF LayDown
<1>2. UNCHANGED <<event, queue, opened, begun, moving, held>>
  BY DEF LayDown, outside, worked, service
<1>3. event' = None /\ (\A i : ~WaitsInQueue(i)') /\ \A n : ~WaitsForArm(n)'
  BY <1>1, <1>2, WaitingIsLocal DEF NothingWaits
<1> QED
  BY <1>3 DEF Errands

\* Who holds an object and who an event.
LEMMA HoldersKept ==
  ASSUME TypeOK, ErrandInv, [Next]_vars
  PROVE  (event' # None => worker' = "selected") /\ (held' # 0 => moving' # 0)
<1>0. (event # None => worker = "selected") /\ (held # 0 => moving # 0)
  BY DEF ErrandInv
<1>1. CASE \/ InvalidPacket \/ Stop \/ ClosePort \/ GetBlocked \/ LayDown \/ TakeAway \/ ViewChanges
           \/ UNCHANGED vars \/ \E shape \in Shapes \cup {NONE} : ValidPacket(shape)
  <2>1. UNCHANGED <<event, worker, held, moving>>
    BY <1>1 DEF InvalidPacket, Stop, ClosePort, GetBlocked, LayDown, TakeAway, ViewChanges, vars,
                ValidPacket, world, worked, outside, service
  <2> QED
    BY <1>0, <2>1
<1>2. CASE GetNone
  <2>1. event' = event /\ worker = "get" /\ UNCHANGED <<held, moving>>
    BY <1>2 DEF GetNone, Get, world, service
  <2>2. event' = None
    BY <1>0, <2>1
  <2> QED
    BY <1>0, <2>1, <2>2
<1>3. CASE GetSelects
  <2>1. worker' = "selected" /\ UNCHANGED <<held, moving>>
    BY <1>3 DEF GetSelects, select, world, service
  <2> QED
    BY <1>0, <2>1
<1>4. CASE Send \/ SendFails
  <2>1. event' = None /\ UNCHANGED <<held, moving>>
    BY <1>4 DEF Send, SendFails, Arm!Open, world, service
  <2> QED
    BY <1>0, <2>1
<1>5. CASE CallEnds
  <2>1. event' = event /\ worker = "calling" /\ UNCHANGED <<held, moving>>
    BY <1>5 DEF CallEnds, Arm!Close, world
  <2>2. event' = None
    BY <1>0, <2>1
  <2> QED
    BY <1>0, <2>1, <2>2
<1>6. CASE ArmBegins
  <2>1. PICK n \in Arm!Jobs : Arm!Begin(n)
    BY <1>6 DEF ArmBegins
  <2>2. moving' = n /\ n # 0 /\ UNCHANGED <<event, worker>>
    BY <1>6, <2>1 DEF ArmBegins, Arm!Begin, outside, worked
  <2> QED
    BY <1>0, <2>2
<1>7. CASE ArmPicks
  <2>1. moving' # 0 /\ UNCHANGED <<event, worker>>
    BY <1>7 DEF ArmPicks, outside, worked, service
  <2> QED
    BY <1>0, <2>1
<1>8. CASE ArmPlaces \/ ArmFails
  <2>1. held' = 0 /\ UNCHANGED <<event, worker>>
    BY <1>8 DEF ArmPlaces, ArmFails, outside, worked
  <2> QED
    BY <1>0, <2>1
<1> QED
  BY <1>1, <1>2, <1>3, <1>4, <1>5, <1>6, <1>7, <1>8 DEF Next, Worker

LEMMA ErrandsKept ==
  ASSUME TypeOK, MotionsInOrder, EventsCounted, ErrandInv, [Next]_vars
  PROVE  ErrandInv'
<1>0. /\ event # None => worker = "selected"
      /\ held # 0 => moving # 0
      /\ robbed \in BOOLEAN /\ mixedUp \in BOOLEAN /\ (~robbed => Errands) /\ OwnObject
  BY DEF ErrandInv, TypeOK, VerdictTypeOK
<1>1. robbed => robbed'
  BY DEF Next, Worker, vars, verdicts, ValidPacket, InvalidPacket, Stop, ClosePort, GetNone,
         GetBlocked, GetSelects, Send, SendFails, CallEnds, ArmBegins, ArmPicks, ArmPlaces,
         ArmFails, LayDown, TakeAway, ViewChanges
<1>2. ASSUME ~robbed' PROVE Errands' /\ (ArmPicks => jobs[moving].obj = table)
  <2>0. Errands
    BY <1>0, <1>1, <1>2
  <2>1. CASE \E shape \in Shapes \cup {NONE} : ValidPacket(shape)
    BY <2>0, <2>1, PacketErrand DEF ValidPacket, ArmPicks, world
  <2>2. CASE Stop \/ GetNone \/ GetBlocked
    BY <2>0, <2>2, QueueErrand DEF Stop, GetNone, GetBlocked, ArmPicks, world
  <2>3. CASE GetSelects
    BY <2>0, <2>3, SelectErrand DEF GetSelects, ArmPicks, world
  <2>4. CASE Send
    BY <1>0, <2>0, <2>4, SendErrand DEF Send, ArmPicks, world
  <2>5. CASE ArmBegins \/ ArmPicks \/ ArmPlaces \/ ArmFails
    BY <1>0, <2>0, <2>5, ArmErrand
  <2>6. CASE LayDown
    BY <2>0, <2>6, LayDownErrand DEF LayDown, ArmPicks
  <2>7. CASE InvalidPacket \/ ClosePort \/ CallEnds \/ ViewChanges \/ UNCHANGED vars
    <3>1. UNCHANGED <<table, events, event, queue, jobs, opened, begun, moving, held>>
      BY <2>7 DEF InvalidPacket, ClosePort, CallEnds, Arm!Close, ViewChanges, vars, world, seen,
                  worked, service, outside
    <3> QED
      BY <2>0, <3>1, ErrandsStay DEF ArmPicks
  <2>8. CASE SendFails
    <3>1. /\ event' = None
          /\ UNCHANGED <<table, events, queue, jobs, opened, begun, moving, held>>
      BY <2>8 DEF SendFails, world, seen, service
    <3>2. \A i : WaitsInQueue(i)' => WaitsInQueue(i + 0) /\ queue'[i] = queue[i + 0]
      BY <3>1, WaitingIsLocal DEF WaitsInQueue
    <3>3. \A n : WaitsForArm(n)' => WaitsForArm(n) /\ jobs'[n] = jobs[n]
      BY <3>1, WaitingIsLocal
    <3> QED
      BY <2>0, <3>1, <3>2, <3>3, ErrandsShrink DEF ArmPicks
  <2>9. CASE TakeAway
    BY <1>2, <2>9 DEF TakeAway
  <2> QED
    BY <2>1, <2>2, <2>3, <2>4, <2>5, <2>6, <2>7, <2>8, <2>9 DEF Next, Worker
<1>3. OwnObject'
  <2>1. CASE ArmPicks
    <3>1. robbed' = robbed /\ mixedUp' = (mixedUp \/ jobs[moving].obj # table)
      BY <2>1 DEF ArmPicks
    <3> QED
      BY <1>0, <1>2, <2>1, <3>1 DEF OwnObject
  <2>2. CASE ~ArmPicks
    <3>1. mixedUp' = mixedUp
      BY <2>2 DEF Next, Worker, vars, verdicts, ValidPacket, InvalidPacket, Stop, ClosePort, GetNone,
         GetBlocked, GetSelects, Send, SendFails, CallEnds, ArmBegins, ArmPlaces,
         ArmFails, LayDown, TakeAway, ViewChanges
    <3> QED
      BY <1>0, <1>1, <3>1 DEF OwnObject
  <2> QED
    BY <2>1, <2>2
<1> QED
  BY <1>2, <1>3, HoldersKept DEF ErrandInv
-----------------------------------------------------------------------------
(* The theorems.                                                           *)

\* The types of RackDispatch are kept in every behaviour.
THEOREM TypesAreKept == Spec => []TypeOK
<1>1. Init => TypeOK
  BY InitTypes
<1>2. TypeOK /\ [Next]_vars => TypeOK'
  BY NextTypes
<1> QED
  BY <1>1, <1>2, PTL DEF Spec

\* However the packets, the monitor, the arm and the people interleave, two objects
\* end in one slot only after the dispatcher went by a view that had not followed the
\* rack yet or gave a command up without a verdict
\* (robot_dispatch_controller.py:633, slot_selector.py:66-97).
THEOREM CollisionExplained == Spec => []CollisionIsExplained
<1>1. Init => Inv
  BY InitTypes, InitPlacement DEF Inv
<1>2. Inv /\ [Next]_vars => Inv'
  <2> SUFFICES ASSUME Inv, [Next]_vars PROVE Inv'
    OBVIOUS
  <2>1. TypeOK'
    BY NextTypes DEF Inv
  <2> QED
    BY <2>1, MotionsKept, CallKept, ViewKept, FreeKept, CollisionKept DEF Inv, PlacementInv
<1>3. Inv => CollisionIsExplained
  BY DEF Inv, PlacementInv
<1> QED
  BY <1>1, <1>2, <1>3, PTL DEF Spec

\* However often the shape of an object flickers, whenever packets fail or come twice,
\* the gate makes at most one event of it, and with a count of one exactly one of every
\* object that is seen after the empty work place was (zybo_slot_receiver.py:65-73).
THEOREM EventPerObjectHolds == ASSUME required_count = 1 PROVE Spec => []EventPerObject
<1> DEFINE Counted == TypeOK /\ EventsCounted /\ NoticedCounted
<1>1. Init => Counted
  BY InitTypes, InitEvents
<1>2. Counted /\ [Next]_vars => Counted'
  <2> SUFFICES ASSUME Counted, [Next]_vars PROVE Counted'
    OBVIOUS
  <2>1. TypeOK' /\ EventsCounted' /\ NoticedCounted'
    BY NextTypes, EventsKept, NoticedKept
  <2> QED
    BY <2>1
<1>3. Counted => EventPerObject
  BY DEF EventsCounted, NoticedCounted, EventPerObject
<1> QED
  BY <1>1, <1>2, <1>3, PTL DEF Spec

\* Although events wait in a queue while the arm works, calls end without a verdict and
\* motions come late, the arm moves the object that caused the command, unless someone
\* took an object away (robot_dispatch_controller.py:633-674).
THEOREM OwnObjectHolds == Spec => []OwnObject
<1> DEFINE All == Inv /\ EventsCounted /\ ErrandInv
<1>1. Init => All
  BY InitTypes, InitPlacement, InitEvents, InitErrands DEF Inv
<1>2. All /\ [Next]_vars => All'
  <2> SUFFICES ASSUME All, [Next]_vars PROVE All'
    OBVIOUS
  <2>1. TypeOK /\ MotionsInOrder
    BY DEF Inv, PlacementInv
  <2>2. Inv'
    BY <2>1, NextTypes, MotionsKept, CallKept, ViewKept, FreeKept, CollisionKept
       DEF Inv, PlacementInv
  <2> QED
    BY <2>1, <2>2, EventsKept, ErrandsKept
<1>3. All => OwnObject
  BY DEF ErrandInv
<1> QED
  BY <1>1, <1>2, <1>3, PTL DEF Spec
=============================================================================

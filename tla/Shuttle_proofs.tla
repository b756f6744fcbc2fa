--------------------------- MODULE Shuttle_proofs ----------------------------
(* The mission, for any sensors, any debounce time and any number of tries: a *)
(* car that waits is in the slot of its stop, as far as the wall or the lidar   *)
(* tells, and leaves on a sign that was given while it stood there.  And what it goes by, for any    *)
(* scan and any settings: the pose that is followed never leaps.                *)
EXTENDS Shuttle, PoseTrack, WellFoundedInduction, TLAPS

\* The types that the other parts need.
SensorTypes ==
  /\ type \in {"sensors", "keyboard"} /\ leg \in BOOLEAN
  /\ load \in BOOLEAN /\ glitches \in 0 .. Glitches
  /\ poll \in [want : BOOLEAN, baseline : 0 .. Lines, value : BOOLEAN, held : 0 .. Debounce,
               seen : BOOLEAN, true : BOOLEAN]
\* Only the place "entered" waits for a drive into the slot, which has seen that the
\* car is in it or told that it met no wall when it returns yes.
WallIsKnown ==
  /\ running = "drive in" => at = "entered"
  /\ at = "entered" => running \in {"drive in", "none"}
  /\ at = "entered" /\ running = "none" /\ result = "yes" => ground # "nothing" \/ noWall
\* From the parking on, or from a start in the slot, the car has not left it.
SlotIsKnown ==
  /\ at \in Parking \cup {"look"} => leg \in berth
  /\ at = "loop" /\ parked => leg \in berth
  /\ parked => at \in {"loop", "ended"}
\* A state that was never true has been read wrong at every poll since it began,
\* and so many wrong readings in a row there are not.
WrongReadings == at = "waiting" /\ type = "sensors" /\ ~poll.true => glitches > poll.held
\* Without sensors nothing is ever seen on them.
NothingSeen == type = "keyboard" => ~poll.seen
NoOldKey == at = "waiting" => typed # "old"

ShuttleInv ==
  SensorTypes /\ WallIsKnown /\ SlotIsKnown /\ WrongReadings /\ NothingSeen /\ NoOldKey

------------------------------------------------------------------------------
\* The mission moves on when no maneuver runs, and what it begins as a drive into
\* the slot ends at "entered"; what that has told stays.
LEMMA MissionSteps ==
  ASSUME Mission
  PROVE /\ running = "none" /\ UNCHANGED <<noWall, ground>>
        /\ running' = "none" => result' = result
        /\ at' = "entered" => running' = "drive in"
        /\ running' = "drive in" => at' = "entered"
<1>1. CASE Start \/ Loop \/ Depart
  BY <1>1 DEF Start, Loop, Depart, Here, Finish, maneuverVars
<1>2. CASE ExitSlot \/ Exited \/ ExitedAgain \/ Travel \/ Travelled
  BY <1>2 DEF ExitSlot, Exited, ExitedAgain, Travel, Travelled, Here, Drive, GoTo, Begin, Finish,
              maneuverVars, dynnav_set_goal
<1>3. CASE Park \/ Recover \/ Recovered \/ Freed \/ Back
  BY <1>3 DEF Park, Recover, Recovered, Freed, Back, OrStop, Unparked, Here, Drive, GoTo, Begin,
              Finish, maneuverVars, dynnav_set_goal
<1>4. CASE Trimmed \/ Roomy \/ Aligned \/ Posed \/ Shifted
  BY <1>4 DEF Trimmed, Roomy, Aligned, Posed, Shifted, OrStop, Unparked, Retry, Here, Drive, GoTo,
              Begin, Finish, maneuverVars
<1>5. CASE Gate \/ Entering \/ Entered \/ Seated \/ Confirmed \/ Again
  BY <1>5 DEF Gate, Entering, Entered, Seated, Confirmed, Again, Retry, Here, Drive, GoTo, Yes,
              Begin, maneuverVars
<1>6. CASE Look \/ Arrive \/ Wait
  BY <1>6 DEF Look, Arrive, Wait, Here, GoTo, Send, Finish, maneuverVars, missionVars
<1> QED BY <1>1, <1>2, <1>3, <1>4, <1>5, <1>6 DEF Mission, ParkOnce

\* The car is taken to be in its slot only from a drive in on that has seen it there,
\* or from the start, and then the mission calls nothing that drives it away.
LEMMA MissionKeepsSlot ==
  ASSUME WallIsKnown, SlotIsKnown, Mission
  PROVE SlotIsKnown'
<1> USE DEF SlotIsKnown, Parking, Here
<1>1. CASE Start
  <2>1. CASE Finish(FALSE) BY <1>1, <2>1 DEF Start, Finish
  <2>2. CASE at' = "loop" /\ berth' = IF parked' THEN {leg'} ELSE {}
    BY <2>2
  <2> QED BY <1>1, <2>1, <2>2 DEF Start
<1>2. CASE Loop \/ Depart
  <2>1. CASE Loop BY <2>1 DEF Loop, Finish
  <2>2. CASE Depart BY <2>2 DEF Depart
  <2> QED BY <1>2, <2>1, <2>2
<1>3. CASE ExitSlot \/ Exited \/ ExitedAgain \/ Travel \/ Travelled
  <2>1. /\ at' \in {"entry", "exited", "exited again", "park", "travelled", "ended"}
        /\ at \notin {"loop", "ended"} /\ parked' = parked
    BY <1>3 DEF ExitSlot, Exited, ExitedAgain, Travel, Travelled, Drive, GoTo, Finish
  <2> QED BY <2>1
<1>4. CASE Park \/ Recover \/ Recovered \/ Freed \/ Back
  BY <1>4 DEF Park, Recover, Recovered, Freed, Back, OrStop, Unparked, Drive, GoTo, Finish
<1>5. CASE Trimmed \/ Roomy \/ Aligned \/ Posed \/ Shifted
  BY <1>5 DEF Trimmed, Roomy, Aligned, Posed, Shifted, OrStop, Unparked, Retry, Drive, GoTo, Finish
<1>6. CASE Gate \/ Entering \/ Again
  <2>1. /\ at \in {"gate", "entering", "again"} /\ parked' = parked
        /\ at' \in {"entering", "again", "entered", "park"}
    BY <1>6 DEF Gate, Entering, Again, Retry, Drive
  <2> QED BY <2>1
<1>7. CASE Entered
  <2>1. CASE Yes /\ ~noWall
    <3>1. ground # "nothing" BY <1>7, <2>1 DEF Entered, WallIsKnown, Yes
    <3>2. at' = "seated" /\ leg' = leg /\ parked' = parked /\ berth' = {leg}
      BY <1>7, <2>1, <3>1 DEF Entered, Drive, Berth
    <3> QED BY <1>7, <3>2 DEF Entered
  <2>2. CASE ~(Yes /\ ~noWall)
    BY <1>7, <2>2 DEF Entered, Drive, Retry
  <2> QED BY <2>1, <2>2
<1>8. CASE Seated \/ Confirmed
  BY <1>8 DEF Seated, Confirmed, Drive, GoTo, Retry, Berth
<1>9. CASE Look \/ Arrive \/ Wait
  BY <1>9 DEF Look, Arrive, Wait, GoTo, Send, Finish, missionVars
<1> QED BY <1>1, <1>2, <1>3, <1>4, <1>5, <1>6, <1>7, <1>8, <1>9 DEF Mission, ParkOnce

LEMMA WallKept == ASSUME WallIsKnown, SlotIsKnown, Next PROVE WallIsKnown' /\ SlotIsKnown'
<1>1. CASE Mission
  BY <1>1, MissionSteps, MissionKeepsSlot DEF WallIsKnown
<1>2. CASE Car
  <2>1. UNCHANGED <<at, leg, berth, parked>> /\ running # "none"
    BY <1>2 DEF Car, Work, End, missionVars
  <2>2. running' \in {"none", running} BY <1>2 DEF Car, Work, End
  <2>3. running = "drive in" /\ running' = "none" /\ result' = "yes" => ground' # "nothing" \/ noWall'
    BY <1>2, <2>1 DEF Car, Work, End
  <2>4. WallIsKnown' BY <2>1, <2>2, <2>3 DEF WallIsKnown
  <2>5. SlotIsKnown' BY <2>1 DEF SlotIsKnown
  <2> QED BY <2>4, <2>5
<1>3. CASE CtrlC \/ People \/ TypeKey
  <2>1. UNCHANGED <<running, result, noWall, ground, at, leg, berth, parked>>
    BY <1>3 DEF CtrlC, Interrupt, People, TypeKey, maneuverVars, missionVars
  <2>2. WallIsKnown' BY <2>1 DEF WallIsKnown
  <2>3. SlotIsKnown' BY <2>1 DEF SlotIsKnown
  <2> QED BY <2>2, <2>3
<1>4. CASE Enter \/ InputFails
  <2>1. at = "waiting" /\ at' \in {"sent", "ended"} /\ UNCHANGED <<running, parked>>
    BY <1>4 DEF Enter, Send, InputFails, Finish, Here, maneuverVars
  <2>2. WallIsKnown' BY <2>1 DEF WallIsKnown
  <2>3. SlotIsKnown' BY <2>1 DEF SlotIsKnown, Parking
  <2> QED BY <2>2, <2>3
<1> QED BY <1>1, <1>2, <1>3, <1>4 DEF Next

------------------------------------------------------------------------------
\* Only the beginning of a wait and its polls touch what is known of the sensors.
SensorStep ==
  \/ type = "sensors" /\ at' = "waiting" /\ Open(leg)
  \/ type = "sensors" /\ at = "waiting" /\ Poll
  \/ /\ UNCHANGED poll /\ load' \in BOOLEAN /\ glitches' \in 0 .. Glitches
     /\ at' = "waiting" => type = "keyboard" \/ (at = "waiting" /\ glitches' = glitches)

LEMMA SensorSteps == ASSUME SensorTypes, Next PROVE type' = type /\ SensorStep
<1>1. CASE Start \/ Loop \/ Depart
  BY <1>1 DEF Start, Loop, Depart, Finish, triggerVars, sensorVars, SensorStep, SensorTypes
<1>2. CASE ExitSlot \/ Exited \/ ExitedAgain \/ Travel \/ Travelled
  BY <1>2 DEF ExitSlot, Exited, ExitedAgain, Travel, Travelled, Drive, GoTo, Finish,
              triggerVars, sensorVars, dynnav_set_goal, SensorStep, SensorTypes
<1>3. CASE Park \/ Recover \/ Recovered \/ Freed \/ Back
  BY <1>3 DEF Park, Recover, Recovered, Freed, Back, OrStop, Unparked, Drive, GoTo, Finish,
              triggerVars, sensorVars, dynnav_set_goal, SensorStep, SensorTypes
<1>4. CASE ParkOnce
  BY <1>4 DEF ParkOnce, Trimmed, Roomy, Aligned, Posed, Shifted, Gate, Entering, Entered, Seated,
              Confirmed, Again, OrStop, Unparked, Retry, Drive, GoTo, Finish,
              triggerVars, sensorVars, SensorStep, SensorTypes
<1>5. CASE Look
  <2>1. \A on : Reads(on) => glitches' \in 0 .. Glitches
    BY TriggerAssumption DEF Reads, SensorTypes
  <2>2. UNCHANGED <<type, load, poll>> /\ at' # "waiting" /\ glitches' \in 0 .. Glitches
    BY <1>5, <2>1 DEF Look, Send, GoTo, triggerVars, sensorVars, SensorTypes
  <2> QED BY <2>2 DEF SensorStep, SensorTypes
<1>6. CASE Arrive
  BY <1>6 DEF Arrive, OpenKeyboard, Finish, triggerVars, sensorVars, SensorStep, SensorTypes
<1>7. CASE Wait
  <2>1. CASE UNCHANGED triggerVars /\ at' # "waiting"
    BY <2>1 DEF triggerVars, sensorVars, SensorStep, SensorTypes
  <2>2. CASE at = "waiting" /\ type = "sensors" /\ type' = type /\ Poll
    BY <2>2 DEF SensorStep
  <2>3. CASE Fired BY <1>7, <2>1, <2>3 DEF Wait, Send
  <2>4. CASE ~Fired /\ stop BY <1>7, <2>1, <2>4 DEF Wait, Finish
  <2>5. CASE ~Fired /\ ~stop BY <1>7, <2>2, <2>5 DEF Wait, Here
  <2> QED BY <2>3, <2>4, <2>5
<1>8. CASE Car \/ CtrlC \/ Enter \/ InputFails
  BY <1>8 DEF Car, CtrlC, Enter, Send, InputFails, Finish, missionVars, triggerVars, sensorVars,
              SensorStep, SensorTypes
<1>9. CASE People \/ TypeKey
  BY <1>9 DEF People, MoveBox, TypeKey, Press, missionVars, sensorVars, SensorStep, SensorTypes
<1> QED BY <1>1, <1>2, <1>3, <1>4, <1>5, <1>6, <1>7, <1>8, <1>9 DEF Next, Mission

\* The lines as they are tell the load, and every other reading counts as a glitch.
LEMMA LitIsRight ==
  ASSUME NEW b \in 0 .. Lines, NEW want \in BOOLEAN, load \in BOOLEAN
  PROVE present(Lit, b, want) <=> load
<1>1. CASE load
  <2>1. Lit = Lines BY <1>1 DEF Lit
  <2>2. Lines >= 1 /\ Lines > b \div 2 BY TriggerAssumption, SMT
  <2> QED BY <1>1, <2>1, <2>2 DEF present
<1>2. CASE ~load
  <2>1. Lit = 0 BY <1>2 DEF Lit
  <2>2. ~(0 >= 1) /\ ~(0 > b \div 2) BY TriggerAssumption, SMT
  <2> QED BY <1>2, <2>1, <2>2 DEF present
<1> QED BY <1>1, <1>2

LEMMA PresentIsBoolean == \A on, b, want : present(on, b, want) \in BOOLEAN
<1> SUFFICES ASSUME NEW on, NEW b, NEW want PROVE present(on, b, want) \in BOOLEAN OBVIOUS
<1>1. (on >= 1) \in BOOLEAN /\ (on > b \div 2) \in BOOLEAN OBVIOUS
<1>2. CASE want
  <2>1. present(on, b, want) = (on >= 1) BY <1>2 DEF present
  <2> QED BY <1>1, <2>1
<1>3. CASE ~want
  <2>1. present(on, b, want) = (on > b \div 2) BY <1>3 DEF present
  <2> QED BY <1>1, <2>1
<1> QED BY <1>2, <1>3

LEMMA WrongIsGlitch ==
  ASSUME SensorTypes, NEW on \in 0 .. Lines, NEW b \in 0 .. Lines, NEW want \in BOOLEAN, Reads(on)
  PROVE /\ glitches' \in 0 .. Glitches
        /\ ~(present(on, b, want) <=> load) => glitches' = glitches + 1
<1>1. on = Lit => (present(on, b, want) <=> load) BY LitIsRight DEF SensorTypes
<1>2. (on = Lit /\ glitches' = 0) \/ (on # Lit /\ glitches < Glitches /\ glitches' = glitches + 1)
  BY DEF Reads
<1>3. glitches' \in 0 .. Glitches BY <1>2, TriggerAssumption DEF SensorTypes
<1>4. ~(present(on, b, want) <=> load) => glitches' = glitches + 1 BY <1>1, <1>2
<1> QED BY <1>3, <1>4

PollType == [want : BOOLEAN, baseline : 0 .. Lines, value : BOOLEAN, held : 0 .. Debounce,
             seen : BOOLEAN, true : BOOLEAN]

\* What the first reading, and every other, leaves behind.
LEMMA OpenKeeps ==
  ASSUME SensorTypes, Open(leg)
  PROVE /\ poll' \in PollType /\ load' \in BOOLEAN /\ glitches' \in 0 .. Glitches
        /\ ~poll'.true => glitches' > poll'.held
<1>1. PICK on \in 0 .. Lines :
        /\ Reads(on)
        /\ poll' = [want |-> leg, baseline |-> on, value |-> present(on, on, leg), held |-> 0,
                    seen |-> present(on, on, leg) # leg, true |-> present(on, on, leg) = load]
        /\ load' = load
  BY DEF Open
<1> DEFINE v == present(on, on, leg)
<1>2. v \in BOOLEAN /\ leg \in BOOLEAN /\ load \in BOOLEAN
  BY PresentIsBoolean DEF SensorTypes
<1>3. glitches' \in 0 .. Glitches /\ (~(v <=> load) => glitches' = glitches + 1)
  BY <1>1, <1>2, WrongIsGlitch
<1>4. poll' = [want |-> leg, baseline |-> on, value |-> v, held |-> 0, seen |-> v # leg,
               true |-> v = load]
  BY <1>1
<1> HIDE DEF v
<1>5. (v # leg) \in BOOLEAN /\ (v = load) \in BOOLEAN OBVIOUS
<1>6. poll' \in PollType BY <1>2, <1>4, <1>5, TriggerAssumption DEF PollType
<1>7. poll'.held = 0 /\ (poll'.true <=> (v = load)) BY <1>4
<1>8. ~poll'.true => glitches' > poll'.held
  <2>1. ~poll'.true => glitches' = glitches + 1 BY <1>2, <1>3, <1>7
  <2> QED BY <1>7, <2>1, TriggerAssumption DEF SensorTypes
<1> QED BY <1>1, <1>2, <1>3, <1>6, <1>8

LEMMA PollKeeps ==
  ASSUME SensorTypes, ~poll.true => glitches > poll.held, Poll
  PROVE /\ poll' \in PollType /\ load' \in BOOLEAN /\ glitches' \in 0 .. Glitches
        /\ ~poll'.true => glitches' > poll'.held
<1>1. PICK on \in 0 .. Lines :
        LET v == present(on, poll.baseline, poll.want)
        IN /\ Reads(on) /\ load' = load
           /\ poll' = [poll EXCEPT
                !.value = v, !.held = Held(v),
                !.seen = @ \/ (Held(v) = Debounce /\ v # poll.want),
                !.true = (v = poll.value /\ @) \/ v = load]
  BY DEF Poll
<1> DEFINE v == present(on, poll.baseline, poll.want)
           seen == poll.seen \/ (Held(v) = Debounce /\ v # poll.want)
           true == (v = poll.value /\ poll.true) \/ v = load
<1>2. v \in BOOLEAN /\ load \in BOOLEAN /\ poll \in PollType
  BY PresentIsBoolean DEF SensorTypes, PollType
<1>3. glitches' \in 0 .. Glitches /\ (~(v <=> load) => glitches' = glitches + 1)
  BY <1>1, <1>2, WrongIsGlitch DEF PollType
<1>4. poll' = [poll EXCEPT !.value = v, !.held = Held(v), !.seen = seen, !.true = true]
  BY <1>1
<1>5. seen \in BOOLEAN /\ true \in BOOLEAN OBVIOUS
<1>6. (~true => ~(v <=> load)) /\ (~true /\ v = poll.value => ~poll.true) BY <1>2
<1> HIDE DEF v, seen, true
<1>7. Held(v) \in 0 .. Debounce /\ (v # poll.value => Held(v) = 0)
      /\ Held(v) <= poll.held + 1
  BY <1>2, TriggerAssumption, SMT DEF Held, PollType
<1>8. poll' \in PollType BY <1>2, <1>4, <1>5, <1>7 DEF PollType
<1>9. poll'.held = Held(v) /\ poll'.true = true BY <1>2, <1>4 DEF PollType
<1>10. ~true => glitches' > Held(v)
  <2> SUFFICES ASSUME ~true PROVE glitches' > Held(v) OBVIOUS
  <2>1. glitches' = glitches + 1 /\ glitches \in Nat /\ poll.held \in Nat
    BY <1>2, <1>3, <1>6, TriggerAssumption DEF SensorTypes, PollType
  <2>2. CASE v # poll.value BY <1>7, <2>1, <2>2
  <2>3. CASE v = poll.value
    <3>1. glitches > poll.held BY <1>6, <2>3
    <3> QED BY <1>7, <2>1, <3>1
  <2> QED BY <2>2, <2>3
<1> QED BY <1>1, <1>2, <1>3, <1>5, <1>8, <1>9, <1>10

\* The leg is chosen at the start and changes at every departure.
LEMMA LegKept == ASSUME leg \in BOOLEAN, Next PROVE leg' \in BOOLEAN
<1>1. CASE Start BY <1>1 DEF Start, Finish
<1>2. CASE Depart BY <1>2 DEF Depart
<1>3. CASE Loop \/ Look \/ Arrive \/ Wait
  BY <1>3 DEF Loop, Look, Arrive, Wait, Finish, GoTo, Send, missionVars
<1>4. CASE ExitSlot \/ Exited \/ ExitedAgain \/ Travel \/ Travelled
  BY <1>4 DEF ExitSlot, Exited, ExitedAgain, Travel, Travelled, Drive, GoTo, Finish, dynnav_set_goal
<1>5. CASE Park \/ Recover \/ Recovered \/ Freed \/ Back
  BY <1>5 DEF Park, Recover, Recovered, Freed, Back, OrStop, Unparked, Drive, GoTo, Finish,
              dynnav_set_goal
<1>6. CASE ParkOnce
  BY <1>6 DEF ParkOnce, Trimmed, Roomy, Aligned, Posed, Shifted, Gate, Entering, Entered, Seated,
              Confirmed, Again, OrStop, Unparked, Retry, Drive, GoTo, Finish
<1>7. CASE Car \/ CtrlC \/ People \/ TypeKey \/ Enter \/ InputFails
  BY <1>7 DEF Car, CtrlC, People, TypeKey, Enter, Send, InputFails, Finish, missionVars
<1> QED BY <1>1, <1>2, <1>3, <1>4, <1>5, <1>6, <1>7 DEF Next, Mission

LEMMA SensorsKept ==
  ASSUME SensorTypes, WrongReadings, NothingSeen, Next
  PROVE SensorTypes' /\ WrongReadings' /\ NothingSeen'
<1>1. type' = type /\ leg' \in BOOLEAN BY SensorSteps, LegKept DEF SensorTypes
<1>2. CASE type = "sensors" /\ at' = "waiting" /\ Open(leg)
  BY <1>1, <1>2, OpenKeeps DEF SensorTypes, WrongReadings, NothingSeen, PollType
<1>3. CASE type = "sensors" /\ at = "waiting" /\ Poll
  BY <1>1, <1>3, PollKeeps DEF SensorTypes, WrongReadings, NothingSeen, PollType
<1>4. CASE /\ UNCHANGED poll /\ load' \in BOOLEAN /\ glitches' \in 0 .. Glitches
           /\ at' = "waiting" => type = "keyboard" \/ (at = "waiting" /\ glitches' = glitches)
  BY <1>1, <1>4 DEF SensorTypes, WrongReadings, NothingSeen
<1> QED BY <1>2, <1>3, <1>4, SensorSteps DEF SensorStep

\* A wait begins with an empty input, and no key is old after that.
LEMMA KeyKept == ASSUME NoOldKey, Next PROVE NoOldKey'
<1>1. CASE Arrive BY <1>1 DEF Arrive, drain_stale_input, Finish, NoOldKey
<1>2. CASE Wait
  <2>1. at' # "waiting" \/ (at = "waiting" /\ typed' = typed)
    <3>1. CASE Fired BY <1>2, <3>1 DEF Wait, Send
    <3>2. CASE ~Fired /\ stop BY <1>2, <3>2 DEF Wait, Finish
    <3>3. CASE ~Fired /\ ~stop BY <1>2, <3>3 DEF Wait, Here
    <3> QED BY <3>1, <3>2, <3>3
  <2> QED BY <2>1 DEF NoOldKey
<1>3. CASE Start \/ Loop \/ Depart \/ Look
  BY <1>3 DEF Start, Loop, Depart, Look, Finish, GoTo, Send, NoOldKey
<1>4. CASE ExitSlot \/ Exited \/ ExitedAgain \/ Travel \/ Travelled
  BY <1>4 DEF ExitSlot, Exited, ExitedAgain, Travel, Travelled, Drive, GoTo, Finish,
              dynnav_set_goal, NoOldKey
<1>5. CASE Park \/ Recover \/ Recovered \/ Freed \/ Back
  BY <1>5 DEF Park, Recover, Recovered, Freed, Back, OrStop, Unparked, Drive, GoTo, Finish,
              dynnav_set_goal, NoOldKey
<1>6. CASE ParkOnce
  BY <1>6 DEF ParkOnce, Trimmed, Roomy, Aligned, Posed, Shifted, Gate, Entering, Entered, Seated,
              Confirmed, Again, OrStop, Unparked, Retry, Drive, GoTo, Finish, NoOldKey
<1>7. CASE Car \/ CtrlC \/ People
  BY <1>7 DEF Car, CtrlC, People, MoveBox, missionVars, triggerVars, NoOldKey
<1>8. CASE TypeKey \/ Enter \/ InputFails
  BY <1>8 DEF TypeKey, Press, Here, Enter, Send, InputFails, Finish, missionVars, NoOldKey
<1> QED BY <1>1, <1>2, <1>3, <1>4, <1>5, <1>6, <1>7, <1>8 DEF Next, Mission

------------------------------------------------------------------------------
\* The invariant holds at first, and every step keeps it.
LEMMA InvInit == Init => ShuttleInv
<1> SUFFICES ASSUME Init PROVE ShuttleInv OBVIOUS
<1>1. SensorTypes BY TriggerAssumption DEF Init, TriggerInit, SensorTypes
<1>2. WallIsKnown /\ SlotIsKnown
  BY DEF Init, ManeuverInit, WallIsKnown, SlotIsKnown, Parking
<1>3. WrongReadings /\ NothingSeen /\ NoOldKey
  BY DEF Init, TriggerInit, WrongReadings, NothingSeen, NoOldKey
<1> QED BY <1>1, <1>2, <1>3 DEF ShuttleInv

LEMMA InvNext == ShuttleInv /\ [Next]_vars => ShuttleInv'
<1>1. ASSUME ShuttleInv, Next PROVE ShuttleInv'
  BY <1>1, WallKept, SensorsKept, KeyKept DEF ShuttleInv
<1>2. ASSUME ShuttleInv, UNCHANGED vars PROVE ShuttleInv'
  <2>1. UNCHANGED <<running, result, noWall, ground, at, type, load, glitches, poll, typed, leg,
                    berth, parked>>
    BY <1>2 DEF vars, maneuverVars, triggerVars, sensorVars, missionVars
  <2>2. SensorTypes' /\ WallIsKnown' BY <1>2, <2>1 DEF ShuttleInv, SensorTypes, WallIsKnown
  <2>3. SlotIsKnown' BY <1>2, <2>1 DEF ShuttleInv, SlotIsKnown
  <2>4. WrongReadings' /\ NothingSeen' /\ NoOldKey'
    BY <1>2, <2>1 DEF ShuttleInv, WrongReadings, NothingSeen, NoOldKey
  <2> QED BY <2>2, <2>3, <2>4 DEF ShuttleInv
<1> QED BY <1>1, <1>2

\* What is known of the wall and of the sensors is kept together.
THEOREM ShuttleInvHolds == Spec => []ShuttleInv
  BY InvInit, InvNext, PTL DEF Spec

\* A car that waits is in the slot of its stop, after any number of tries: stopped by
\* its wall, or between two walls that the lidar takes for those of a slot, or since
\* the start (shuttle__park_once, slot_no_wall).
THEOREM WaitsInSlot == Spec => []InItsSlot
<1>1. ShuttleInv => InItsSlot BY DEF ShuttleInv, SlotIsKnown, InItsSlot
<1> QED BY <1>1, ShuttleInvHolds, PTL

\* The wait ends on a sign that was given (trigger_wait), while sensors read wrong
\* less often in a row than the debounce takes.
THEOREM Departs == Spec => []DepartsOnRealSign
<1>1. ShuttleInv => DepartsOnRealSign
  <2> SUFFICES ASSUME ShuttleInv, at = "waiting" PROVE (Fired => poll.true) /\ typed # "old"
    BY DEF DepartsOnRealSign
  <2>1. ASSUME Fired, ~poll.true PROVE FALSE
    <3>1. type = "sensors" BY <2>1 DEF ShuttleInv, SensorTypes, NothingSeen, Fired
    <3>2. glitches > poll.held BY <2>1, <3>1 DEF ShuttleInv, WrongReadings
    <3>3. poll.held = Debounce BY <2>1 DEF Fired
    <3> QED BY <3>2, <3>3, TriggerAssumption DEF ShuttleInv, SensorTypes
  <2> QED BY <2>1 DEF ShuttleInv, NoOldKey
<1> QED BY <1>1, ShuttleInvHolds, PTL

-----------------------------------------------------------------------------
\* A bounded set of integers has a greatest member.
LEMMA GreatestIsThere ==
  ASSUME NEW T, T \subseteq Int, T # {}, NEW M \in Int, \A t \in T : t <= M
  PROVE  Greatest(T) \in T /\ \A t \in T : t <= Greatest(T)
<1> DEFINE U == {M - t : t \in T}
           R == OpToRel(<, Nat)
<1>1. U \subseteq Nat /\ U # {}
  <2>1. PICK t \in T : TRUE  OBVIOUS
  <2>2. M - t \in U  BY <2>1
  <2>3. \A m \in T : M - m \in Nat  OBVIOUS
  <2> QED  BY <2>2, <2>3
<1>2. IsWellFoundedOn(R, Nat)  BY NatLessThanWellFounded
<1>3. PICK u \in U : \A w \in U : ~(<<w, u>> \in R)
  <2> HIDE DEF U, R
  <2> QED  BY <1>1, <1>2, WFMin
<1>4. \A w \in U : ~(w < u)  BY <1>1, <1>3 DEF OpToRel
<1>5. PICK t \in T : u = M - t  OBVIOUS
<1>6. \A m \in T : m <= t
  <2> TAKE m \in T
  <2>1. M - m \in U  OBVIOUS
  <2>2. ~(M - m < M - t)  BY <1>4, <1>5, <2>1
  <2>3. m \in Int /\ t \in Int  OBVIOUS
  <2> QED  BY <2>2, <2>3
<1> QED  BY <1>6 DEF Greatest

\* How often a number goes into another.
LEMMA Multiple ==
  ASSUME NEW a \in Nat, NEW d \in Nat, d > 0, NEW i \in 0..(a \div d)
  PROVE  d * i \in 0..a
<1> DEFINE n == a \div d
<1>1. n \in Int /\ d * n <= a  OBVIOUS
<1>2. n - i \in Nat /\ i \in Nat  BY <1>1
<1>3. d * (n - i) >= 0  BY <1>2
<1>4. d * i >= 0  BY <1>2
<1>5. d * (n - i) = d * n - d * i  BY <1>1, <1>2
<1>6. d * n \in Int /\ d * i \in Int  BY <1>1, <1>2
<1> QED  BY <1>1, <1>3, <1>4, <1>5, <1>6

LEMMA SquareIsNat == \A n \in Int : n * n \in Nat
  OBVIOUS

\* A likelihood is one.
LEMMA FitIsLikelihood ==
  ASSUME NEW sight \in Sights, NEW fall \in Nat, NEW pose \in Poses
  PROVE  Fit(sight, fall, pose) \in Int /\ 0 <= Fit(sight, fall, pose) /\ Fit(sight, fall, pose) <= 1000
<1> DEFINE far(peak) == Abs(pose.x - peak.x) + 4 * Abs(pose.th - peak.th)
           T == {0} \cup {peak.fit - fall * far(peak) : peak \in sight}
<1>1. ASSUME NEW peak \in sight  PROVE peak.fit - fall * far(peak) \in Int /\ peak.fit - fall * far(peak) <= 1000
  <2>1. peak.fit \in 0..1000 /\ peak.x \in Int /\ peak.th \in Int /\ pose.x \in Int /\ pose.th \in Int
    BY DEF Sights, Poses
  <2>2. far(peak) \in Nat  BY <2>1 DEF Abs
  <2> HIDE DEF far
  <2>3. fall * far(peak) \in Nat  BY <2>2
  <2> QED  BY <2>1, <2>3
<1>2. T \subseteq Int /\ 0 \in T /\ \A t \in T : t <= 1000  BY <1>1
<1> HIDE DEF T
<1>3. Greatest(T) \in T /\ \A t \in T : t <= Greatest(T)
  <2>1. PICK M \in Int : M = 1000  OBVIOUS
  <2>2. T \subseteq Int /\ T # {} /\ \A t \in T : t <= M  BY <1>2, <2>1
  <2> QED  BY <2>2, GreatestIsThere
<1>4. PICK g \in T : g = Greatest(T)  BY <1>3
<1>5. g \in Int /\ g <= 1000  BY <1>2
<1>6. 0 <= g  BY <1>2, <1>3, <1>4
<1> QED  BY <1>4, <1>5, <1>6 DEF Fit, T

LEMMA ScoreIsBounded ==
  ASSUME NEW sight \in Sights, NEW fall \in Nat, NEW predicted \in Poses, NEW pose \in Poses
  PROVE  Score(sight, fall, predicted, pose) \in Int /\ Score(sight, fall, predicted, pose) <= 1000000
<1>6. Fit(sight, fall, pose) \in Int /\ Fit(sight, fall, pose) <= 1000  BY FitIsLikelihood
<1> DEFINE dx == pose.x - predicted.x
           dth == pose.th - predicted.th
<1>1. dx \in Int /\ dth \in Int  BY DEF Poses
<1> HIDE DEF dx, dth
<1>2. dx * dx \in Nat /\ dth * dth \in Nat  BY <1>1, SquareIsNat
<1>3. PICK p \in Nat : p = dx * dx  BY <1>2
<1>4. PICK q \in Nat : q = dth * dth  BY <1>2
<1>5. Score(sight, fall, predicted, pose) = 1000 * Fit(sight, fall, pose) - ((10 * p) \div 9) - 40 * q
  BY <1>3, <1>4 DEF Score, dx, dth
<1>7. (10 * p) \div 9 \in Nat  OBVIOUS
<1> QED  BY <1>5, <1>6, <1>7

\* The best of a set is one of them.
LEMMA BestIsThere ==
  ASSUME NEW S, S # {}, NEW value, \A pose \in S : value[pose] \in Int, NEW M \in Int,
         \A pose \in S : value[pose] <= M
  PROVE  Best(S, value) \in S
<1> DEFINE T == {value[pose] : pose \in S}
<1>1. T \subseteq Int /\ T # {} /\ \A t \in T : t <= M  OBVIOUS
<1> HIDE DEF T
<1>2. Greatest(T) \in T  BY <1>1, GreatestIsThere
<1>3. \E pose \in S : value[pose] = Greatest(T)  BY <1>2 DEF T
<1> QED  BY <1>3 DEF Best, T

\* What a search looks at lies in its window.
LEMMA GridIsNear ==
  ASSUME NEW pose \in Poses, NEW window \in Nat, NEW step \in Nat, step > 0, NEW arc \in Nat,
         NEW arcStep \in Nat, arcStep > 0
  PROVE  /\ Grid(pose, window, step, arc, arcStep) # {}
         /\ \A p \in Grid(pose, window, step, arc, arcStep) :
              /\ p \in Poses
              /\ Abs(p.x - pose.x) <= window /\ Abs(p.th - pose.th) <= arc
<1> DEFINE N == (2 * window) \div step
           K == (2 * arc) \div arcStep
<1>1. N \in Nat /\ K \in Nat  OBVIOUS
<1>2. pose.x \in Int /\ pose.th \in Int  BY DEF Poses
<1>3. ASSUME NEW i \in 0..N, NEW j \in 0..K
      PROVE  LET p == [x |-> pose.x - window + step * i, th |-> pose.th - arc + arcStep * j]
             IN p \in Poses /\ Abs(p.x - pose.x) <= window /\ Abs(p.th - pose.th) <= arc
  <2>1. step * i \in 0..2 * window  BY Multiple
  <2>2. arcStep * j \in 0..2 * arc  BY Multiple
  <2> HIDE DEF N, K
  <2>3. PICK a \in 0..2 * window : a = step * i  BY <2>1
  <2>4. PICK b \in 0..2 * arc : b = arcStep * j  BY <2>2
  <2> QED  BY <1>2, <2>3, <2>4 DEF Poses, Abs
<1>4. 0 \in 0..N /\ 0 \in 0..K  BY <1>1
<1> DEFINE point(i, j) == [x |-> pose.x - window + step * i, th |-> pose.th - arc + arcStep * j]
<1>5. Grid(pose, window, step, arc, arcStep) = {point(i, j) : i \in 0..N, j \in 0..K}  BY DEF Grid
<1>6. \A i \in 0..N, j \in 0..K :
        point(i, j) \in Poses /\ Abs(point(i, j).x - pose.x) <= window /\ Abs(point(i, j).th - pose.th) <= arc
  BY <1>3
<1> HIDE DEF point, N, K
<1> QED  BY <1>4, <1>5, <1>6

\* A match lies in the window of the coarse search, and a fine step around it.
LEMMA MatchIsNear ==
  ASSUME NEW sight \in Sights, NEW set \in Settings, NEW predicted \in Poses
  PROVE  LET match == scan_match_correct_pose(sight, set, predicted)
         IN /\ match \in Poses
            /\ Abs(match.x - predicted.x) <= set.window + 30
            /\ Abs(match.th - predicted.th) <= set.arc + 6
<1> DEFINE scores(S, fall) == [pose \in S |-> Score(sight, fall, predicted, pose)]
           coarse == Grid(predicted, set.window, set.step, set.arc, set.arcStep)
           first == Best(coarse, scores(coarse, Broad))
           fine == Grid(first, 30, 5, 6, 1)
           last == Best(fine, scores(fine, Sharp))
<1>1. /\ set.window \in Nat /\ set.step \in Nat /\ set.step > 0
      /\ set.arc \in Nat /\ set.arcStep \in Nat /\ set.arcStep > 0
  BY DEF Settings
<1>2. ASSUME NEW S, S # {}, S \subseteq Poses, NEW fall \in Nat
      PROVE  Best(S, scores(S, fall)) \in S
  <2>1. \A pose \in S : Score(sight, fall, predicted, pose) \in Int
                        /\ Score(sight, fall, predicted, pose) <= 1000000
    BY <1>2, ScoreIsBounded
  <2>2. \A pose \in S : scores(S, fall)[pose] \in Int /\ scores(S, fall)[pose] <= 1000000
    BY <2>1
  <2>3. 1000000 \in Int  OBVIOUS
  <2> HIDE DEF scores
  <2> QED  BY <1>2, <2>2, <2>3, BestIsThere
<1>3. /\ coarse # {}
      /\ \A p \in coarse : p \in Poses /\ Abs(p.x - predicted.x) <= set.window
                           /\ Abs(p.th - predicted.th) <= set.arc
  BY <1>1, GridIsNear
<1>4. first \in coarse
  <2>1. coarse \subseteq Poses /\ Broad \in Nat  BY <1>3 DEF Broad
  <2> HIDE DEF coarse, scores
  <2> QED  BY <1>2, <1>3, <2>1
<1>5. first \in Poses  BY <1>3, <1>4
<1>6. /\ fine # {}
      /\ \A p \in fine : p \in Poses /\ Abs(p.x - first.x) <= 30 /\ Abs(p.th - first.th) <= 6
  <2> HIDE DEF first
  <2>1. 30 \in Nat /\ 5 \in Nat /\ 5 > 0 /\ 6 \in Nat /\ 1 \in Nat /\ 1 > 0  OBVIOUS
  <2> QED  BY <1>5, <2>1, GridIsNear, Zenon
<1>7. last \in fine
  <2>1. fine \subseteq Poses /\ Sharp \in Nat  BY <1>6 DEF Sharp
  <2> HIDE DEF fine, scores
  <2> QED  BY <1>2, <1>6, <2>1
<1>8. scan_match_correct_pose(sight, set, predicted) \in {predicted, last}
  BY DEF scan_match_correct_pose
<1>9. /\ last \in Poses
      /\ Abs(last.x - predicted.x) <= set.window + 30 /\ Abs(last.th - predicted.th) <= set.arc + 6
  <2>1. /\ Abs(first.x - predicted.x) <= set.window /\ Abs(first.th - predicted.th) <= set.arc
        /\ last \in Poses /\ Abs(last.x - first.x) <= 30 /\ Abs(last.th - first.th) <= 6
    <3> HIDE DEF coarse, fine, first, last
    <3> QED  BY <1>3, <1>4, <1>6, <1>7
  <2> HIDE DEF first, last
  <2>2. /\ first.x \in Int /\ first.th \in Int /\ last.x \in Int /\ last.th \in Int
        /\ predicted.x \in Int /\ predicted.th \in Int
    BY <1>5, <2>1 DEF Poses
  <2> QED  BY <1>1, <2>1, <2>2 DEF Abs
<1>10. predicted.x \in Int /\ predicted.th \in Int  BY DEF Poses
<1> HIDE DEF last
<1> QED  BY <1>1, <1>8, <1>9, <1>10 DEF Abs

\* So does what the search after a bad match finds.
LEMMA PlaceIsNear ==
  ASSUME NEW sight \in Sights, NEW pose \in Poses
  PROVE  LET place == scan_match_recover(sight, pose)
         IN place \in Poses /\ Abs(place.x - pose.x) <= 300 /\ Abs(place.th - pose.th) <= 50
<1> DEFINE around == Grid(pose, 300, 20, 50, 4)
           fits == [found \in around |-> Fit(sight, Broad, found)]
<1>1. /\ around # {}
      /\ \A p \in around : p \in Poses /\ Abs(p.x - pose.x) <= 300 /\ Abs(p.th - pose.th) <= 50
  <2>1. PICK w \in Nat : w = 300  OBVIOUS
  <2>2. PICK s \in Nat : s = 20 /\ s > 0  OBVIOUS
  <2>3. PICK a \in Nat : a = 50  OBVIOUS
  <2>4. PICK t \in Nat : t = 4 /\ t > 0  OBVIOUS
  <2>5. /\ Grid(pose, w, s, a, t) # {}
        /\ \A p \in Grid(pose, w, s, a, t) :
             p \in Poses /\ Abs(p.x - pose.x) <= w /\ Abs(p.th - pose.th) <= a
    BY <2>2, <2>4, GridIsNear
  <2>6. around = Grid(pose, w, s, a, t)  BY <2>1, <2>2, <2>3, <2>4
  <2> HIDE DEF around
  <2> QED  BY <2>1, <2>3, <2>5, <2>6
<1>2. \A p \in around : fits[p] \in Int /\ fits[p] <= 1000
  <2>1. Broad \in Nat  BY DEF Broad
  <2>2. \A p \in around : Fit(sight, Broad, p) \in Int /\ Fit(sight, Broad, p) <= 1000
    BY <1>1, <2>1, FitIsLikelihood
  <2> QED  BY <2>2
<1>3. 1000 \in Int  OBVIOUS
<1>4. Best(around, fits) \in around
  <2> HIDE DEF around, fits
  <2> QED  BY <1>1, <1>2, <1>3, BestIsThere
<1>5. scan_match_recover(sight, pose) = Best(around, fits)  BY DEF scan_match_recover
<1> HIDE DEF around, fits
<1> QED  BY <1>1, <1>4, <1>5

\* The share of a leap that is taken, in thousandths, is a number.
LEMMA ShareIsNumber ==
  ASSUME NEW limit \in Nat, NEW r \in Nat, NEW a \in Nat
  PROVE  Share(limit, r, a) \in Nat
<1>1. CASE limit > 0 /\ a > r
  <2>1. (1000 * r) \div a \in Nat  BY <1>1
  <2> QED  BY <1>1, <2>1 DEF Share
<1>2. CASE ~(limit > 0 /\ a > r)  BY <1>2 DEF Share
<1> QED  BY <1>1, <1>2

\* What is left of a leap that is cut short, by its share or by a smaller one.
LEMMA CutIsShort ==
  ASSUME NEW d \in Int, NEW r \in Nat, NEW limit \in Nat, NEW k \in Nat,
         k <= Share(limit, r, Abs(d)), limit > 0
  PROVE  Abs((d * k) \div 1000) <= r
<1>1. PICK a \in Nat : a = Abs(d)  BY DEF Abs
<1>2. a * k \in Nat /\ a * k <= 1000 * r
  <2>1. CASE a > r
    <3>1. PICK n : n = (1000 * r) \div a  OBVIOUS
    <3>2. n \in Nat /\ a * n <= 1000 * r  BY <2>1, <3>1
    <3>3. Share(limit, r, a) = n  BY <2>1, <3>1 DEF Share
    <3>4. n - k \in Nat  BY <1>1, <3>2, <3>3
    <3>5. a * (n - k) >= 0 /\ a * (n - k) = a * n - a * k  BY <3>2, <3>4
    <3>6. a * k \in Nat /\ a * n \in Nat  BY <3>2
    <3> QED  BY <3>2, <3>5, <3>6
  <2>2. CASE a <= r
    <3>1. Share(limit, r, a) = 1000  BY <2>2 DEF Share
    <3>2. 1000 - k \in Nat  BY <1>1, <3>1
    <3>3. a * (1000 - k) >= 0 /\ a * (1000 - k) = 1000 * a - a * k  BY <3>2
    <3>4. a * k \in Nat  OBVIOUS
    <3> QED  BY <2>2, <3>3, <3>4
  <2> QED  BY <2>1, <2>2
<1>6. PICK q \in Nat : q = a * k /\ q <= 1000 * r  BY <1>2
<1>7. PICK p \in Int : p = d * k  OBVIOUS
<1>8. p = q \/ p = -q  BY <1>1, <1>6, <1>7 DEF Abs
<1>9. p \div 1000 \in Int /\ p \div 1000 <= r /\ - r <= p \div 1000  BY <1>6, <1>8
<1> QED  BY <1>7, <1>9 DEF Abs

\* What passes the gate is a pose, and no further off than there is room for, in
\* place and angle where the settings limit them.
LEMMA GateHolds ==
  ASSUME NEW sight \in Sights, NEW set \in Settings, NEW room \in [x : Nat, th : Nat],
         NEW predicted \in Poses, NEW match \in Poses
  PROVE  LET pose == Gated(sight, set, room, predicted, match)
         IN /\ pose \in Poses
            /\ set.jump > 0 => Abs(pose.x - predicted.x) <= room.x
            /\ set.swing > 0 => Abs(pose.th - predicted.th) <= room.th
<1> DEFINE dx == match.x - predicted.x
           dth == match.th - predicted.th
           kx == Share(set.jump, room.x, Abs(dx))
           kth == Share(set.swing, room.th, Abs(dth))
           k == IF kx < kth THEN kx ELSE kth
           cut == CutShort(set, room, predicted, match)
<1>1. /\ predicted.x \in Int /\ predicted.th \in Int /\ dx \in Int /\ dth \in Int
      /\ room.x \in Nat /\ room.th \in Nat /\ set.jump \in Nat /\ set.swing \in Nat
  BY DEF Poses, Settings
<1>2. Abs(dx) \in Nat /\ Abs(dth) \in Nat  BY <1>1 DEF Abs
<1>3. kx \in Nat /\ kth \in Nat
  <2> HIDE DEF dx, dth
  <2>1. Share(set.jump, room.x, Abs(dx)) \in Nat  BY <1>1, <1>2, ShareIsNumber
  <2>2. Share(set.swing, room.th, Abs(dth)) \in Nat  BY <1>1, <1>2, ShareIsNumber
  <2> QED  BY <2>1, <2>2
<1>4. k \in Nat /\ k <= kx /\ k <= kth
  <2> HIDE DEF kx, kth
  <2> QED  BY <1>3
<1>5. cut = [x |-> predicted.x + ((dx * k) \div 1000), th |-> predicted.th + ((dth * k) \div 1000)]
  BY DEF CutShort
<1>6. set.jump > 0 => Abs((dx * k) \div 1000) <= room.x
  <2> HIDE DEF dx, k, kth
  <2> QED  BY <1>1, <1>4, CutIsShort
<1>7. set.swing > 0 => Abs((dth * k) \div 1000) <= room.th
  <2> HIDE DEF dth, k, kx
  <2> QED  BY <1>1, <1>4, CutIsShort
<1>8. /\ cut \in Poses
      /\ set.jump > 0 => Abs(cut.x - predicted.x) <= room.x
      /\ set.swing > 0 => Abs(cut.th - predicted.th) <= room.th
  <2> DEFINE mx == (dx * k) \div 1000
             mth == (dth * k) \div 1000
  <2> HIDE DEF mx, mth
  <2>1. mx \in Int /\ mth \in Int /\ cut = [x |-> predicted.x + mx, th |-> predicted.th + mth]
    <3>1. mx \in Int /\ mth \in Int
      <4> HIDE DEF dx, dth, k
      <4> QED  BY <1>1, <1>4 DEF mx, mth
    <3> QED  BY <1>5, <3>1 DEF mx, mth
  <2>2. cut.x - predicted.x = mx /\ cut.th - predicted.th = mth  BY <1>1, <2>1
  <2> QED  BY <1>1, <1>6, <1>7, <2>1, <2>2 DEF Poses, mx, mth
<1>9. CASE Gated(sight, set, room, predicted, match) = cut
  <2> HIDE DEF cut
  <2> QED  BY <1>8, <1>9
<1>10. CASE Gated(sight, set, room, predicted, match) = predicted
  <2>1. Abs(predicted.x - predicted.x) = 0 /\ Abs(predicted.th - predicted.th) = 0  BY <1>1 DEF Abs
  <2> QED  BY <1>1, <1>10, <2>1
<1>11. CASE Gated(sight, set, room, predicted, match) = match /\ ~TooFar(set, room, predicted, match)
  <2>1. Abs(dx) \in Int /\ Abs(dth) \in Int  BY <1>1 DEF Abs
  <2> QED  BY <1>1, <1>11, <2>1 DEF TooFar
<1> QED  BY <1>9, <1>10, <1>11 DEF Gated

\* The wider search is a search.
LEMMA WidenedIsSearch ==
  ASSUME NEW set \in Settings
  PROVE  /\ Widened(set) \in Settings
         /\ Widened(set).jump = set.jump /\ Widened(set).swing = set.swing
<1>1. (3 * set.step) \div 2 \in Nat \ {0} /\ (3 * set.arcStep) \div 2 \in Nat \ {0}
  <2>1. PICK s \in Nat : s = set.step /\ s > 0  BY DEF Settings
  <2>2. PICK t \in Nat : t = set.arcStep /\ t > 0  BY DEF Settings
  <2> QED  BY <2>1, <2>2
<1>2. 2 * set.window \in Nat /\ 2 * set.arc \in Nat  BY DEF Settings
<1> QED  BY <1>1, <1>2 DEF Widened, Settings

\* There is never less than no room for a leap, and at most twice what the settings
\* and half the move allow.
LEMMA RoomIsBounded ==
  ASSUME NEW set \in Settings, NEW move \in Poses, NEW wide \in BOOLEAN
  PROVE  /\ Room(set, move, wide) \in [x : Nat, th : Nat]
         /\ Room(set, move, wide).x <= 2 * (set.jump + Abs(move.x) \div 2)
         /\ Room(set, move, wide).th <= 2 * (set.swing + Abs(move.th) \div 2)
<1>1. set.jump \in Nat /\ set.swing \in Nat /\ Abs(move.x) \in Nat /\ Abs(move.th) \in Nat
  BY DEF Settings, Poses, Abs
<1>2. PICK u \in Nat : u = set.jump + Abs(move.x) \div 2  BY <1>1
<1>3. PICK v \in Nat : v = set.swing + Abs(move.th) \div 2  BY <1>1
<1>4. Room(set, move, wide) = [x |-> (IF wide THEN 2 ELSE 1) * u, th |-> (IF wide THEN 2 ELSE 1) * v]
  BY <1>2, <1>3 DEF Room
<1>5. CASE wide  BY <1>2, <1>3, <1>4, <1>5
<1>6. CASE ~wide  BY <1>2, <1>3, <1>4, <1>6
<1> QED  BY <1>5, <1>6

\* The search after a bad match goes no further than half as far again as one leap, and
\* turns no further than it looks.
LEMMA SearchIsNear ==
  ASSUME NEW sight \in Sights, NEW set \in Settings, NEW pose \in Poses
  PROVE  LET found == Searched(sight, set, pose).pose
         IN /\ found \in Poses
            /\ set.jump > 0 => 2 * Abs(found.x - pose.x) <= 3 * set.jump
            /\ Abs(found.th - pose.th) <= 56 + set.arc
<1> DEFINE place == scan_match_recover(sight, pose)
           fine == scan_match_correct_pose(sight, set, place)
           near == set.jump = 0 \/ 2 * Abs(fine.x - pose.x) <= 3 * set.jump
           found == Searched(sight, set, pose).pose
<1>1. place \in Poses /\ Abs(place.th - pose.th) <= 50  BY PlaceIsNear
<1>2. fine \in Poses /\ Abs(fine.th - place.th) <= set.arc + 6
  <2> HIDE DEF place
  <2> QED  BY <1>1, MatchIsNear
<1>3. (found = fine /\ near) \/ found = pose
  BY DEF Searched, Weighed
<1>4. set.jump \in Nat /\ set.arc \in Nat  BY DEF Settings
<1>5. Abs(fine.th - pose.th) <= 56 + set.arc
  <2> HIDE DEF place, fine
  <2>1. pose.th \in Int /\ place.th \in Int /\ fine.th \in Int  BY <1>1, <1>2 DEF Poses
  <2> QED  BY <1>1, <1>2, <1>4, <2>1 DEF Abs
<1>6. Abs(pose.x - pose.x) = 0 /\ Abs(pose.th - pose.th) = 0
  <2>1. pose.x \in Int /\ pose.th \in Int  BY DEF Poses
  <2> QED  BY <2>1 DEF Abs
<1>7. /\ found \in Poses
      /\ set.jump > 0 => 2 * Abs(found.x - pose.x) <= 3 * set.jump
      /\ Abs(found.th - pose.th) <= 56 + set.arc
  <2> HIDE DEF found, fine
  <2> QED  BY <1>2, <1>3, <1>4, <1>5, <1>6
<1> QED  BY <1>7

\* The pose the shuttle goes by never leaps: whatever the scan looks like, and however bad
\* the matches before it were, one step takes it no further from what the wheels predict than
\* three and a half leaps of the settings and the move itself, and no further round than two swings,
\* the move and what the search after a bad match looks at.  (slam_localize_step: the gate
\* on the match, and the gate of its own that the search has.)
THEOREM NoLeap ==
  ASSUME NEW track \in Tracks, NEW set \in Settings, NEW move \in Poses, NEW sight \in Sights
  PROVE  LET pose == slam_localize_step(track, set, move, sight).pose
         IN /\ pose \in Poses
            /\ set.jump > 0 => 2 * Abs(pose.x - (track.pose.x + move.x))
                                 <= 7 * set.jump + 4 * (Abs(move.x) \div 2)
            /\ set.swing > 0 => Abs(pose.th - (track.pose.th + move.th))
                                  <= 2 * set.swing + 2 * (Abs(move.th) \div 2) + 56 + set.arc
<1> DEFINE predicted == [x |-> track.pose.x + move.x, th |-> track.pose.th + move.th]
           wide == track.quality < WideBelow
           widest == IF wide THEN Widened(set) ELSE set
           match == scan_match_correct_pose(sight, widest, predicted)
           room == Room(set, move, wide)
           gated == Gated(sight, set, room, predicted, match)
           found == Searched(sight, set, gated).pose
           pose == slam_localize_step(track, set, move, sight).pose
<1>1. track.pose \in Poses /\ track.pose.x \in Int /\ track.pose.th \in Int
      /\ move.x \in Int /\ move.th \in Int
  BY DEF Tracks, Poses
<1>2. predicted \in Poses  BY <1>1 DEF Poses
<1>3. widest \in Settings  BY WidenedIsSearch
<1>4. match \in Poses
  <2> HIDE DEF predicted, widest
  <2> QED  BY <1>2, <1>3, MatchIsNear
<1>5. /\ room \in [x : Nat, th : Nat]
      /\ room.x <= 2 * (set.jump + Abs(move.x) \div 2)
      /\ room.th <= 2 * (set.swing + Abs(move.th) \div 2)
  <2>1. wide \in BOOLEAN  OBVIOUS
  <2> HIDE DEF wide
  <2> QED  BY <2>1, RoomIsBounded
<1>6. /\ gated \in Poses
      /\ set.jump > 0 => Abs(gated.x - predicted.x) <= room.x
      /\ set.swing > 0 => Abs(gated.th - predicted.th) <= room.th
  <2> HIDE DEF predicted, match, room
  <2> QED  BY <1>2, <1>4, <1>5, GateHolds
<1>7. /\ found \in Poses
      /\ set.jump > 0 => 2 * Abs(found.x - gated.x) <= 3 * set.jump
      /\ Abs(found.th - gated.th) <= 56 + set.arc
  <2> HIDE DEF gated
  <2> QED  BY <1>6, SearchIsNear
<1>8. pose = gated \/ pose = found  BY DEF slam_localize_step, Settled
<1>9. /\ predicted.x = track.pose.x + move.x /\ predicted.th = track.pose.th + move.th
      /\ predicted.x \in Int /\ predicted.th \in Int
  BY <1>1
<1>10. /\ gated.x \in Int /\ gated.th \in Int /\ found.x \in Int /\ found.th \in Int
       /\ room.x \in Nat /\ room.th \in Nat
  <2> HIDE DEF gated, found, room
  <2> QED  BY <1>5, <1>6, <1>7 DEF Poses
<1>11. set.jump \in Nat /\ set.swing \in Nat /\ set.arc \in Nat  BY DEF Settings
<1>12. PICK u \in Nat : u = Abs(move.x) \div 2  BY <1>1 DEF Abs
<1>13. PICK v \in Nat : v = Abs(move.th) \div 2  BY <1>1 DEF Abs
<1> HIDE DEF predicted, gated, found, room, pose
<1>14. set.jump > 0 => /\ 2 * Abs(gated.x - predicted.x) <= 7 * set.jump + 4 * u
                       /\ 2 * Abs(found.x - predicted.x) <= 7 * set.jump + 4 * u
  BY <1>5, <1>6, <1>7, <1>9, <1>10, <1>11, <1>12 DEF Abs
<1>15. set.swing > 0 => /\ Abs(gated.th - predicted.th) <= 2 * set.swing + 2 * v + 56 + set.arc
                        /\ Abs(found.th - predicted.th) <= 2 * set.swing + 2 * v + 56 + set.arc
  BY <1>5, <1>6, <1>7, <1>9, <1>10, <1>11, <1>13 DEF Abs
<1>16. /\ pose \in Poses
       /\ set.jump > 0 => 2 * Abs(pose.x - predicted.x) <= 7 * set.jump + 4 * u
       /\ set.swing > 0 => Abs(pose.th - predicted.th) <= 2 * set.swing + 2 * v + 56 + set.arc
  BY <1>6, <1>7, <1>8, <1>14, <1>15
<1> QED  BY <1>9, <1>12, <1>13, <1>16 DEF pose
=============================================================================

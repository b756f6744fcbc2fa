------------------------------- MODULE Shuttle -------------------------------
(* The mission of the shuttle (robot_shuttle.c): park in the slot of a stop,  *)
(* wait until the load has come or gone, drive to the other stop.  It moves   *)
(* the car through the maneuvers alone, of which it knows the contract.       *)
EXTENDS Maneuver, Trigger

CONSTANT MaxTries       \* slot_max_tries

VARIABLES at,           \* where the mission stands
          leg,          \* the stop it drives to: TRUE is A, where the load comes
          attempt,      \* of parking
          parked,       \* start_parked: the car was in a slot when it started
          clean,        \* clean_stop
          sent,         \* how the last wait ended: "trigger", "level" or "enter"
          berth         \* ghost: the stop in whose slot the car was seen to be after the
                        \* last drive that could have taken it out, if any: a set

missionVars == <<at, leg, attempt, parked, clean, sent, berth>>
vars == <<maneuverVars, triggerVars, missionVars>>

\* Ghost: pressing on and looking leave the car where the last drive in has taken it;
\* every other maneuver may take it away.
Berth(m) == CASE m = "seat"    -> IF ground # "nothing" THEN {leg} ELSE {}
              [] m = "confirm" -> berth
              [] OTHER         -> {}

\* The mission calls a maneuver and goes on at a place when it has ended, or
\* decides on what it has returned.
Here(place) == at = place /\ running = "none"
Drive(m, place) ==
  /\ Begin(m) /\ at' = place
  /\ berth' = Berth(m) /\ UNCHANGED <<triggerVars, leg, attempt, parked, clean, sent>>
GoTo(place) ==
  at' = place /\ UNCHANGED <<maneuverVars, triggerVars, leg, attempt, parked, clean, sent, berth>>
Yes == result = "yes"

\* The way out of run_shuttle: stop the wheels, close everything, return.
Finish(c) ==
  /\ at' = "ended" /\ clean' = c
  /\ moving' = FALSE
  /\ UNCHANGED <<stop, running, result, locating, noWall, ground, triggerVars,
                 leg, attempt, parked, sent, berth>>

\* shuttle__localize_start and shuttle__detect_start_parked.
Start ==
  /\ Here("start")
  /\ \/ Finish(FALSE)
     \/ /\ at' = "loop" /\ parked' \in BOOLEAN
        /\ leg' \in IF parked' THEN BOOLEAN ELSE {TRUE}
        /\ berth' = IF parked' THEN {leg'} ELSE {}
        /\ UNCHANGED <<maneuverVars, triggerVars, attempt, clean, sent>>
Loop ==
  /\ Here("loop")
  /\ IF stop THEN Finish(clean)
     ELSE /\ at' = (IF parked THEN "look" ELSE "exit")
          /\ parked' = FALSE /\ attempt' = 0
          /\ UNCHANGED <<maneuverVars, triggerVars, leg, clean, sent, berth>>

\* shuttle__exit_slot: back out, straight the second time; give up only inside.
ExitSlot == Here("exit") /\ (GoTo("entry") \/ Drive("drive out", "exited"))
Exited == Here("exited") /\ IF Yes THEN GoTo("entry") ELSE Drive("drive out", "exited again")
ExitedAgain == Here("exited again") /\ (GoTo("entry") \/ Finish(FALSE))

\* shuttle__is_direct_entry, shuttle__travel_to_staging; a route to the staging
\* point is found or there is none.
dynnav_set_goal == BOOLEAN
Travel ==
  /\ Here("entry")
  /\ \/ GoTo("park")
     \/ \E planned \in dynnav_set_goal :
          IF planned THEN Drive("navigate", "travelled") ELSE Finish(FALSE)
Travelled ==
  Here("travelled") /\ IF Yes THEN GoTo("park") ELSE Finish(result # "unreachable")

\* shuttle__park: some tries, each but the first after a recovery; Ctrl+C ends it.
Unparked == Finish(stop)
Retry ==
  /\ at' = "park" /\ attempt' = attempt + 1
  /\ UNCHANGED <<maneuverVars, triggerVars, leg, parked, clean, sent, berth>>
Park ==
  /\ Here("park")
  /\ IF attempt = MaxTries \/ stop THEN Unparked
     ELSE IF attempt > 0 THEN GoTo("recover") ELSE Drive("trim", "trimmed")
OrStop(step) == IF stop THEN Unparked ELSE step

\* shuttle__recover_for_retry: what the drives return is not looked at.
Recover == Here("recover") /\ (Drive("drive out", "recovered") \/ GoTo("recovered"))
Recovered == Here("recovered") /\ OrStop(Drive("escape", "freed"))
Freed ==
  /\ Here("freed")
  /\ OrStop(\E planned \in dynnav_set_goal :
              IF planned THEN Drive("navigate", "back") ELSE GoTo("back"))
Back == Here("back") /\ OrStop(Drive("trim", "trimmed"))

\* shuttle__park_once.
Trimmed == Here("trimmed") /\ OrStop(Drive("room", "roomy"))
Roomy == Here("roomy") /\ Drive("align", "aligned")
Aligned == Here("aligned") /\ IF Yes THEN Drive("good pose", "posed") ELSE Retry
Posed ==
  Here("posed") /\ IF Yes THEN GoTo("gate") \/ Drive("lateral", "shifted") ELSE Retry
Shifted == Here("shifted") /\ IF Yes THEN GoTo("gate") ELSE Drive("find pose", "again")
Gate == Here("gate") /\ (Drive("good pose", "entering") \/ Drive("find pose", "again"))
Entering == Here("entering") /\ IF Yes THEN Drive("drive in", "entered") ELSE Retry

\* Mutant: the drive in is believed without a look at slot_no_wall.
EnteredUnasked == Here("entered") /\ IF Yes THEN Drive("seat", "seated") ELSE Retry

Entered ==
  /\ Here("entered")
  /\ IF ~Yes THEN Retry
     ELSE IF noWall THEN Drive("find pose", "again") ELSE Drive("seat", "seated")
Seated == Here("seated") /\ Drive("confirm", "confirmed")
Confirmed == Here("confirmed") /\ (GoTo("arrived") \/ (~Yes /\ Retry))
Again == Here("again") /\ Retry
ParkOnce == Trimmed \/ Roomy \/ Aligned \/ Posed \/ Shifted \/ Gate \/ Entering
            \/ Entered \/ Seated \/ Confirmed \/ Again

\* shuttle__wait_and_depart: a car that started in the slot goes at once when the
\* load is as wanted; else it waits for a change.
Send(how) ==
  /\ at' = "sent" /\ sent' = how
  /\ UNCHANGED <<maneuverVars, leg, attempt, parked, clean, berth>>
Look ==
  /\ Here("look")
  /\ \/ GoTo("arrived")
     \/ /\ type = "sensors"
        /\ \E on \in 0 .. Lines : Reads(on) /\ poll_now(on, leg)
        /\ Send("level") /\ UNCHANGED <<type, load, poll, typed>>

\* Mutant: keys that were pressed on the way are not thrown away.
ArriveUndrained ==
  /\ Here("arrived") /\ at' = "waiting"
  /\ IF type = "sensors" THEN Open(leg) ELSE OpenKeyboard
  /\ UNCHANGED <<type, typed, maneuverVars, leg, attempt, parked, clean, sent, berth>>

Arrive ==
  /\ Here("arrived")
  /\ \/ type = "sensors" /\ \E opened \in trigger_gpio_open : ~opened /\ Finish(FALSE)
     \/ /\ IF type = "sensors" THEN Open(leg) ELSE OpenKeyboard
        /\ drain_stale_input /\ at' = "waiting"
        /\ UNCHANGED <<type, maneuverVars, leg, attempt, parked, clean, sent, berth>>

\* Mutant: the loop polls on when the program is to stop.
WaitUnstopped ==
  /\ Here("waiting")
  /\ IF Fired THEN Send("trigger") /\ UNCHANGED triggerVars
     ELSE Poll /\ UNCHANGED <<type, typed, maneuverVars, missionVars>>

Wait ==
  /\ Here("waiting")
  /\ IF Fired THEN Send("trigger") /\ UNCHANGED triggerVars
     ELSE IF stop THEN Finish(FALSE)
     ELSE type = "sensors" /\ Poll /\ UNCHANGED <<type, typed, maneuverVars, missionVars>>
Enter ==
  /\ Here("waiting") /\ ~stop /\ enter_pressed_now /\ ~Fired
  /\ Send("enter") /\ typed' = "none" /\ UNCHANGED <<type, sensorVars>>
InputFails == Here("waiting") /\ ~Fired /\ Finish(FALSE)
\* Nothing reads the keyboard between two waits: a key pressed on the way is there
\* when the car arrives.
TypeKey ==
  /\ \/ Here("arrived") /\ Press("old")
     \/ Here("waiting") /\ Press("new")
  /\ UNCHANGED <<maneuverVars, missionVars>>

\* trigger_delay_sec with the wheels at rest, then the other leg.
Depart ==
  /\ Here("sent") /\ at' = "loop" /\ leg' = ~leg /\ moving' = FALSE
  /\ UNCHANGED <<stop, running, result, locating, noWall, ground, triggerVars,
                 attempt, parked, clean, sent, berth>>

Mission ==
  \/ Start \/ Loop \/ ExitSlot \/ Exited \/ ExitedAgain \/ Travel \/ Travelled
  \/ Park \/ Recover \/ Recovered \/ Freed \/ Back \/ ParkOnce
  \/ Look \/ Arrive \/ Wait \/ Depart

Car ==
  /\ Work \/ \E r \in {"yes", "no", "unreachable"} : End(r)
  /\ UNCHANGED <<triggerVars, missionVars>>
CarEnds ==
  /\ stop \/ running \notin Unbounded
  /\ \E r \in Results(running) : End(r)
  /\ UNCHANGED <<triggerVars, missionVars>>
CtrlC == ~stop /\ at # "ended" /\ Interrupt /\ UNCHANGED <<triggerVars, missionVars>>
People == MoveBox /\ UNCHANGED <<maneuverVars, missionVars>>

Init ==
  /\ ManeuverInit /\ TriggerInit
  /\ at = "start" /\ leg = TRUE /\ attempt = 0 /\ parked = FALSE /\ clean = TRUE
  /\ sent = "none" /\ berth = {}
Next == Mission \/ Car \/ CtrlC \/ People \/ TypeKey \/ Enter \/ InputFails

\* The thread runs on, and a maneuver ends as its contract promises.
Spec == Init /\ [][Next]_vars /\ WF_vars(Mission) /\ WF_vars(CarEnds)

-----------------------------------------------------------------------------
\* A car that waits for its load is in the slot of the stop it was sent to: it was
\* seen there when the mission started, or the last drive in was stopped by the wall
\* or ended with the walls of a slot at both sides, and since then nothing has driven
\* it away, however many tries, recoveries and departures came before.  No try ends
\* as parked on a drive that was pressed past the depth and saw neither
\* (slot_no_wall, robot_shuttle.c:522-540).
Parking == {"seated", "confirmed", "arrived", "waiting"}
InItsSlot == at \in Parking => leg \in berth

\* The car leaves only on a sign given while it stood there: on the sensors when
\* the box had really come, or really gone, during the time the state held, never
\* on readings that were all wrong; on the key never for one that was pressed on
\* the way (trigger.c:404-406).
DepartsOnRealSign == at = "waiting" => (Fired => poll.true) /\ typed # "old"

\* Ctrl+C ends the mission, wherever it is.
StopEnds == stop ~> (at = "ended")
=============================================================================

---------------------------- MODULE RackDispatch -----------------------------
(***************************************************************************)
(* The dispatcher (robot_dispatch_controller.py) between the Zybo that     *)
(* sees objects, the monitor that sees the rack and the arm that moves.    *)
(* The main thread turns packets into one event per object and queues it;  *)
(* ArmWorker takes one event at a time, asks the monitor, selects a slot   *)
(* and has the arm fill it.                                                *)
(*                                                                         *)
(* The monitor is RackView, which RackMonitor implements.  The transport   *)
(* and the arm are PlacementService, which DispatchArm implements: a call  *)
(* may end without a verdict, and a motion may come late or never.         *)
(* Objects are numbered in the order in which they are laid down.          *)
(***************************************************************************)
EXTENDS RackView, Sequences, FiniteSets

CONSTANTS Shapes,      \* CIRCLE, SQUARE, TRIANGLE
          NONE,        \* the packet of an empty work place
          columnOf,    \* the column of a slot, named by its shape
          MaxObjects,  \* bound: objects laid down
          MaxJobs,     \* bound: commands sent to the arm
          required_count  \* CONFIRMATION_COUNT (1)

ASSUME ShapeAssumption == NONE \notin Shapes /\ columnOf \in [Slots -> Shapes]
ASSUME SlotsAssumption == Slots \subseteq Nat \ {0}
ASSUME LowestAssumption == \A S \in SUBSET Slots : S # {} => \E s \in S : \A t \in S : s <= t
ASSUME CountAssumption == required_count \in Nat \ {0}
ASSUME ObjectBound == MaxObjects \in Nat /\ MaxJobs \in Nat /\ Slack \in Nat

Objects == 1 .. MaxObjects

VARIABLES
  \* the world
  laid,      \* objects laid down so far
  table,     \* the object on the work place, 0 if none
  held,      \* the object in the gripper, 0 if none
  \* the main thread
  gate,      \* ShapeEventGate
  queue,     \* ArmWorker.queue: events, None at the end of the program
  \* ArmWorker
  worker,    \* "get", "selected", "calling", "returned"
  event,     \* the event it processes, or None
  slot,      \* the slot it has selected, 0 if none
  main,      \* "running", "joining", "closed"
  \* the arm service
  opened, closed, succeeded, faulted, begun, moving, done, broken,
  \* history
  jobs,      \* slot and object of every command sent
  events,    \* events an object has caused
  apart,     \* NONE was received since the last event, or there was none yet
  noticed,   \* objects a packet has shown, with NONE received before
  excused,   \* the dispatcher went by an old view or without a verdict
  robbed,    \* an object was taken from the work place by hand
  collided,  \* an object was put into an occupied slot
  mixedUp    \* an object was moved on the event of another one

service == <<opened, closed, succeeded, faulted, begun, moving, done, broken>>
world == <<laid, table, held>>
worked == <<worker, event, slot, jobs>>
seen == <<gate, events, apart, noticed>>
verdicts == <<excused, robbed, collided, mixedUp>>
vars == <<rackVars, world, seen, queue, worked, main, service, verdicts>>

Arm == INSTANCE PlacementService

\* An event: the shape it was seen with and (history) the object that was seen.
Events == [shape : Shapes, obj : Objects]

None == [shape |-> NONE, obj |-> 0]

WorldTypeOK ==
  laid \in 0 .. MaxObjects /\ table \in 0 .. MaxObjects /\ held \in 0 .. MaxObjects

GateType == [armed : BOOLEAN, candidate_shape : Shapes \cup {NONE},
             candidate_count : 0 .. required_count, none_count : 0 .. required_count]

MainTypeOK ==
  /\ gate \in GateType
  /\ events \in [Objects -> Nat] /\ noticed \subseteq Objects /\ apart \in BOOLEAN
  /\ main \in {"running", "joining", "closed"}
  /\ queue \in Seq(Events \cup {None})

WorkerTypeOK ==
  /\ worker \in {"get", "selected", "calling", "returned"}
  /\ event \in Events \cup {None} /\ slot \in Slots \cup {0}
  /\ worker = "selected" => event \in Events /\ slot \in Slots
  /\ jobs \in Seq([slot : Slots, obj : Objects]) /\ Len(jobs) = opened

ServiceTypeOK ==
  /\ opened \in 0 .. MaxJobs /\ moving \in 0 .. opened
  /\ closed \subseteq Arm!Jobs /\ succeeded \subseteq Arm!Jobs /\ faulted \subseteq Arm!Jobs
  /\ begun \subseteq Arm!Jobs /\ done \subseteq Arm!Jobs /\ broken \subseteq Arm!Jobs

VerdictTypeOK ==
  excused \in BOOLEAN /\ robbed \in BOOLEAN /\ collided \in BOOLEAN /\ mixedUp \in BOOLEAN

TypeOK ==
  RackTypeOK /\ WorldTypeOK /\ MainTypeOK /\ WorkerTypeOK /\ ServiceTypeOK /\ VerdictTypeOK

Init ==
  /\ RackInit /\ Arm!Init
  /\ laid = 0 /\ table = 0 /\ held = 0
  /\ gate = [armed |-> TRUE, candidate_shape |-> NONE, candidate_count |-> 0, none_count |-> 0]
  /\ queue = <<>> /\ worker = "get" /\ event = None /\ slot = 0 /\ main = "running"
  /\ jobs = <<>> /\ events = [o \in Objects |-> 0]
  /\ apart = TRUE /\ noticed = {}
  /\ excused = FALSE /\ robbed = FALSE /\ collided = FALSE /\ mixedUp = FALSE
-----------------------------------------------------------------------------
(* The main thread: packets of the Zybo, answered at once.                 *)

\* A run of equal packets so far, or a new one.
candidates(g, shape) == IF shape = g.candidate_shape THEN g.candidate_count + 1 ELSE 1

\* Mutant: the run of NONE is counted without an end.
nonesUncapped(g) == g.none_count + 1

nones(g) == IF g.none_count < required_count THEN g.none_count + 1 ELSE required_count

\* Mutant: any other shape than the accepted one re-arms the gate.
observeJitter(g, shape) ==
  CASE shape # NONE /\ g.armed ->
         [g EXCEPT !.armed = FALSE, !.candidate_shape = shape]
    [] shape # g.candidate_shape /\ ~g.armed -> [g EXCEPT !.armed = TRUE]
    [] OTHER -> g

\* A gate after a run of NONE; whoever is armed stays armed.
afterNone(g, n) ==
  LET armed == g.armed \/ n = required_count IN
  [armed |-> armed, candidate_shape |-> IF armed THEN NONE ELSE g.candidate_shape,
   candidate_count |-> IF armed THEN 0 ELSE g.candidate_count, none_count |-> n]

\* An armed gate after n equal shapes: it goes off at the required_count-th.
afterShape(shape, n) ==
  IF n < required_count
  THEN [armed |-> TRUE, candidate_shape |-> shape, candidate_count |-> n, none_count |-> 0]
  ELSE [armed |-> FALSE, candidate_shape |-> NONE, candidate_count |-> 0, none_count |-> 0]

\* ShapeEventGate.observe: a gate that went off ignores every shape until enough
\* NONE in a row arm it again.
observe(g, shape) ==
  IF shape = NONE THEN afterNone(g, nones(g))
  ELSE IF g.armed THEN afterShape(shape, candidates(g, shape))
  ELSE [g EXCEPT !.none_count = 0]

\* A valid packet: ACK, observe, and queue the event it makes.  The Zybo shows
\* what lies there, an object perhaps as another shape than before, and sends a
\* packet again when its ACK is late.
ValidPacket(shape) ==
  /\ main = "running"
  /\ (shape = NONE) <=> (table = 0)
  /\ gate' = observe(gate, shape)
  /\ apart' = (shape = NONE)
  /\ noticed' = IF shape # NONE /\ apart THEN noticed \cup {table} ELSE noticed
  /\ IF gate.armed /\ ~gate'.armed
     THEN /\ queue' = Append(queue, [shape |-> shape, obj |-> table])
          /\ events' = [events EXCEPT ![table] = @ + 1]
     ELSE UNCHANGED <<queue, events>>
  /\ UNCHANGED <<rackVars, world, worked, main, service, verdicts>>

break_sequence(g) ==
  [armed |-> g.armed, candidate_shape |-> NONE, candidate_count |-> 0, none_count |-> 0]

\* A packet that fails its checks: NAK, and the runs are broken.
InvalidPacket ==
  /\ main = "running"
  /\ gate' = break_sequence(gate)
  /\ UNCHANGED <<rackVars, world, events, apart, noticed, queue, worked, main, service, verdicts>>

\* Ctrl+C or a broken port: stop_and_join queues None behind what waits there.
Stop ==
  /\ main = "running"
  /\ main' = "joining"
  /\ queue' = Append(queue, None)
  /\ UNCHANGED <<rackVars, world, seen, worked, service, verdicts>>

\* The worker has returned or five seconds are over: the port is closed and main
\* returns.  The worker is a daemon thread: it may take some more steps, or none.
ClosePort ==
  /\ main = "joining"
  /\ main' = "closed"
  /\ UNCHANGED <<rackVars, world, seen, queue, worked, service, verdicts>>
-----------------------------------------------------------------------------
(* ArmWorker: _run, process_shape_event, select_slot.                      *)

\* The EMPTY slots of the column.
free(view, shape) == {s \in Slots : columnOf[s] = shape /\ view[s] = "EMPTY"}

lowest(S) == CHOOSE s \in S : \A t \in S : s <= t

\* Mutant: the event stays in the queue.
GetWithoutRemoving(e) ==
  /\ worker = "get" /\ queue # <<>>
  /\ e = Head(queue)
  /\ UNCHANGED queue

\* queue.get returns the oldest event.
Get(e) ==
  /\ worker = "get" /\ queue # <<>>
  /\ e = Head(queue)
  /\ queue' = Tail(queue)

\* None: the thread returns.
GetNone ==
  /\ Get(None)
  /\ worker' = "returned"
  /\ UNCHANGED <<rackVars, world, seen, event, slot, jobs, main, service, verdicts>>

\* The event is given up: its coordinates are off the picture, the status cannot
\* be read, the view is not usable or the column is full.  The object stays.
GetBlocked ==
  /\ \E e \in Events : Get(e)
  /\ UNCHANGED <<rackVars, world, seen, worked, main, service, verdicts>>

select(e, S) ==
  /\ S # {}
  /\ event' = e
  /\ slot' = lowest(S)
  /\ worker' = "selected"

\* Mutant: without a usable view every slot of the column will do.
GetSelectsBlindly ==
  /\ \E e \in Events :
       /\ Get(e)
       /\ select(e, IF shown = NoView THEN {s \in Slots : columnOf[s] = e.shape}
                                     ELSE free(shown, e.shape))
  /\ excused' = (excused \/ (shown # NoView /\ fresh[slot'] <= Slack))
  /\ UNCHANGED <<rackVars, world, seen, jobs, main, service, robbed, collided, mixedUp>>

\* The status is read and the lowest EMPTY slot of the column selected.
GetSelects ==
  /\ shown # NoView
  /\ \E e \in Events : Get(e) /\ select(e, free(shown, e.shape))
  /\ excused' = (excused \/ fresh[slot'] <= Slack)
  /\ UNCHANGED <<rackVars, world, seen, jobs, main, service, robbed, collided, mixedUp>>

\* send_target_command: the command is out.
Send ==
  /\ main \in {"running", "joining"} /\ worker = "selected"
  /\ Arm!Open
  /\ jobs' = Append(jobs, [slot |-> slot, obj |-> event.obj])
  /\ worker' = "calling"
  /\ event' = None /\ slot' = 0
  /\ UNCHANGED <<rackVars, world, seen, queue, main, verdicts>>

\* The port is closed already: the call raises and nothing is sent.
SendFails ==
  /\ main = "closed" /\ worker = "selected"
  /\ worker' = "get"
  /\ event' = None /\ slot' = 0
  /\ UNCHANGED <<rackVars, world, seen, queue, jobs, main, service, verdicts>>

\* The call ends, with the arm's verdict or without one.
CallEnds ==
  /\ worker = "calling"
  /\ Arm!Close
  /\ worker' = "get"
  /\ excused' = (excused \/ opened \notin succeeded' \cup faulted')
  /\ UNCHANGED <<rackVars, world, seen, queue, event, slot, jobs, main,
                 robbed, collided, mixedUp>>
-----------------------------------------------------------------------------
(* The arm at work, and what people do.                                    *)

outside == <<seen, queue, worked, main>>

ArmBegins ==
  /\ \E n \in Arm!Jobs : Arm!Begin(n)
  /\ UNCHANGED <<rackVars, world, outside, verdicts>>

\* The gripper takes what lies on the work place.
ArmPicks ==
  /\ moving # 0 /\ held = 0 /\ table # 0
  /\ held' = table /\ table' = 0
  /\ mixedUp' = (mixedUp \/ jobs[moving].obj # table)
  /\ UNCHANGED <<rackVars, laid, outside, service, excused, robbed, collided>>

\* The motion ends well: the object is in the slot of the command.
ArmPlaces ==
  /\ held # 0
  /\ Arm!End(TRUE)
  /\ Fill(jobs[moving].slot)
  /\ held' = 0
  /\ collided' = (collided \/ jobs[moving].slot \in occupied)
  /\ UNCHANGED <<laid, table, outside, excused, robbed, mixedUp>>

\* The motion fails, before or after the object was gripped.
ArmFails ==
  /\ Arm!End(FALSE)
  /\ held' = 0
  /\ UNCHANGED <<rackVars, laid, table, outside, verdicts>>

\* The next object is laid on the empty work place.
LayDown ==
  /\ laid < MaxObjects /\ table = 0
  /\ laid' = laid + 1 /\ table' = laid + 1
  /\ UNCHANGED <<rackVars, held, outside, service, verdicts>>

\* Someone takes the object away.
TakeAway ==
  /\ table # 0
  /\ table' = 0
  /\ robbed' = TRUE
  /\ UNCHANGED <<rackVars, laid, held, outside, service, excused, collided, mixedUp>>

\* The monitor judges a frame, the camera is moved, a slot is emptied by hand.
ViewChanges ==
  /\ Judge \/ Disturb \/ \E s \in Slots : Unload(s)
  /\ UNCHANGED <<world, outside, service, verdicts>>

Worker == GetNone \/ GetBlocked \/ GetSelects \/ Send \/ SendFails \/ CallEnds

Next ==
  \/ \E shape \in Shapes \cup {NONE} : ValidPacket(shape)
  \/ InvalidPacket
  \/ Stop \/ ClosePort
  \/ Worker
  \/ ArmBegins \/ ArmPicks \/ ArmPlaces \/ ArmFails
  \/ LayDown \/ TakeAway \/ ViewChanges

Spec == Init /\ [][Next]_vars
-----------------------------------------------------------------------------
\* Two objects end in one slot only if the dispatcher selected it from a view that
\* had not yet followed the rack, or had given up an earlier command without a
\* verdict of the arm.  Both do happen in the code: the status carries no age, and
\* a call without a verdict is not remembered
\* (robot_dispatch_controller.py:633, slot_selector.py:66-97).
CollisionIsExplained == collided => excused

\* However often the shape it is seen with changes and its packets are repeated, an
\* object that is never seen as NONE causes at most one event; and exactly one if it
\* was seen after the empty work place was (zybo_slot_receiver.py:65-73).
EventPerObject ==
  \A o \in Objects : events[o] <= 1 /\ (o \in noticed => events[o] = 1)

\* The arm moves the object that caused the command and no other, although events
\* wait in a queue while it works, unless someone took an object away.
OwnObject == mixedUp => robbed
=============================================================================

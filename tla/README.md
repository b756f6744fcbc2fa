# Smart factory with AMR: TLA+ models, checks and proofs

The repository is a small factory: a Zybo camera board recognises an object on a
work place, a Jetson chooses a rack slot for it and commands an OpenRB-150 arm, a
second camera watches the rack, and a shuttle (Raspberry Pi + FPGA motor control)
drives between two stations. Beside them stands an older flow in which a Zybo commands an
OMX-F arm directly. This directory models all four control paths: the placement (from the packet of
the Zybo to the moves of the arm), the shuttle's mission with every routine that drives the
car, the motor link down to the FPGA board, and the Zybo's robot flow.

## 1. Inventory

| Part (source) | State it keeps | Operations | Talks to |
|---|---|---|---|
| Arm controller `src/arduino/openrb_robot_arm/openrb_robot_arm.ino` | `autoMode`, `robotBusy`, `newTarget`, `activeCommand`, `target*`, last result, RX state, joint goals, the box in the gripper | `setup`, `loop`, `jsonParse`/`parseByte`/`acceptTargetFrame`, `processCommand`, `pickAndPlace` with its moves | Jetson (UART, 9-byte frames with CRC), console, servos |
| Target transport `src/jetson/runtime/tools/communication/openrb_target_transport.py`, `openrb_transport.py` | receive buffer, the call's attempt and phase | `send_target_command`, `_read_response` | arm (UART), called by the dispatcher |
| Dispatcher `robot_dispatch_controller.py`, `zybo_slot_receiver.py`, `slot_selector.py` | event gate, queue, `command_id`, worker thread | packet loop, `observe`, `enqueue`, `_run`, `process_shape_event`, `select_slot`, `stop_and_join` | Zybo (UART), monitor (HTTP), transport |
| Rack monitor `deployment/live_rack_monitor.py`, `rack_safety_gate.py` | window of 5 frames, pose result, published status | inference loop, `PoseGuard` thread, `temporal_consensus`, `FrameStore` | camera, dispatcher (HTTP) |
| Shuttle mission `src/rc_shuttle/src/robot_shuttle.c`, `trigger.c` | leg, try, load, baseline and debounce of the sensors | round trip, parking tries, waiting, Ctrl+C | the driving routines, sensors, keyboard |
| Driving routines `robot_navigate.c`, `robot_slot_drive.c`, `robot_slot_align.c`, `robot_escape.c`, `corner_escape.c`, `robot_pose_gate.c`, `robot_relocalize.c`, `docking.c`, `dynamic_navigator.c`, `robot_sense.c`, `robot_slot_geom.c` | counters of nested loops, docking mode, `slot_no_wall` | one control loop per routine; they call each other | lidar scans, pose, planner, motor link |
| Motor link `fpga_serial.c`, `fpga_link.c` | speeds, pulse accumulators, `running` | `set_speed`, `stop`, send thread | board (UART), driving routines |
| Motor board `src/fpga/motor-control/rtl/cmd_rx.sv`, `watchdog.sv`, `rc_car_top.sv` | receive buffer, duties, timer, brake | receive, expire, hand switches | motor link, motors |
| Zybo robot flow `src/fpga/vision-pipeline/vitis/main.cc` | selected target, sequence number, resend state | frame loop, resend, response parser | OMX arm, motor car |
| OMX arm `src/fpga/vision-pipeline/arduino/omx_ik_area_test.ino` | flags, last sequence number, waiting target, fresh-target request | `zyboParse`, loop, pick-and-place cycle, console | Zybo (UART) |
| Planning algorithms `astar.c`, `min_heap.h`, `grid_map.c`, `frontier_exploration.c`, `lidar_clustering.c`, ... | (pure) | search, cluster | navigation |
| Pose tracking `slam.c` | pose, quality of the last match, bad matches in a row, requests for a search | `slam_localize_step` | every drive that looks at the lidar |
| Control numerics `pid.c`, `smoothing.c`, ... | floating-point state | filter, control | navigation |
| RTL tracker and range guard, camera drivers, block design, simulators, training tools | - | - | section 9 |

What is hard in it:

- **Retries against a slow peer.** The transport resends a frame when an answer is
  late; the arm may have it already, be moving for it, or have finished.
- **Concurrency without much of a protocol.** The firmware parses its serial line inside every
  wait of a motion; the dispatcher's main thread, its worker, the monitor's loop and
  the pose thread share a queue, a result and a status without any order of their own.
- **Losses and crashes.** Bytes are lost or altered; the arm or the Jetson is
  restarted in the middle of a job; RAM is all the memory there is.
- **Stale knowledge.** The rack status carries no age that a reader looks at, the
  vote over five frames lags behind the rack, queued events keep old coordinates.
- **Shutdown.** The worker is a daemon thread that is waited for five seconds; the motor link writes its stop
  command while the send thread still runs.
- **Loops within loops.** A parking is a drive whose jams call turns, whose turns call escapes, whose
  escapes call searches for the pose, each with counters that others set back, and each has to leave
  with the wheels at rest when Ctrl+C comes.
- **Retries of half-done things.** The arm tries a failed insertion again with more tolerance, and
  later stages open the gripper; the mission tries a parking again from wherever the last one ended.
- **One-way messages.** The OMX arm asks for a fresh target with a message that nobody acknowledges.

What makes it correct: one object causes one command; the arm moves at most once
for a command, for the right object, in the order of the commands; a report is true;
a fault holds until an operator comes; nothing waits for ever; two objects do not end
in one slot; a displaced camera is noticed; a box is let go in its slot only, with a level wrist; the
car stands still when its program ends, stops or dies; it waits for its load only in a slot whose end wall it has met or whose side walls it sees, and leaves it only on
a real sign; Ctrl+C ends everything. `PROJECT.json` lists the hazards line by
line with the properties aimed at each.

## 2. Modules

```
placement
  UartLink                  the two serial lines: order, loss, damage
    OpenRbArm               the arm controller (receiver, loop, console, reset)
      AnyMaster             the arm under any master whatever
    TargetTransport         the Jetson's end: attempts, timeouts, identifiers
      DispatchArm           transport + arm + line     ==>  PlacementService
  PlacementService          abstract: commands, motions, verdicts
  RackView                  abstract: what the monitor's status promises
    RackMonitor             loop, window, consensus, pose thread  ==>  RackView
    RackDispatch            gate, queue, worker, selection over RackView + PlacementService
  ArmPoses                  the poses of the slots, in servo ticks
    ArmMotion               pickAndPlace move by move
shuttle
  Maneuver                  abstract: a routine that drives, returns, and stands
  Routines                  the stack of calls
  Measures                  least, greatest, distance
    PoseTrack               how the pose is followed: match, gate, search (functions)
    Clearance               the room to turn and to drive that a scan shows (functions)
      SlotSight             slots in the map, the car's place in one (Clearance + PoseTrack)
    Escape                  pose gate, pose searches, escapes (Routines + Clearance)
      SlotDrive             into and out of a slot, straightening on the way (Escape + SlotSight)
        SlotAlign           turning, trims, confirmation of a parking
  Docking                   the last centimetres of a drive (a function)
          Navigate          a leg of navigation  (SlotAlign + Docking)
            Maneuvers       all routines as the mission calls them  ==>  Maneuver
  Trigger                   load sensors, Enter key, debounce
    Shuttle                 the mission over Maneuver + Trigger
motor link
  DeadMan                   abstract: no wheel turns on an expired command
  MotorBoard                receiver, watchdog, hand switches of the FPGA
    MotorLink               main thread, send thread, line, board  ==>  DeadMan
Zybo flow
  OmxArm                    the arm sketch that serves the Zybo
    ZyboFlow                the Zybo's program, the arm and the line between them
```

`A ==> B`: B is an abstract specification and `A` is checked (`ImplementsService`, `ImplementsView`, `DeadManSwitch`: also proved;
`KeepsContract`: checked) to implement it. `RackDispatch` and `Shuttle` are then built on the abstractions, not on the
details: what they need of arm, monitor and driving routines is what those were shown to give. The arm's part is given while
neither end is restarted and identifiers do not repeat (section 6); a restart is outside of `RackDispatch`.

A specification `M` whose run needs finite sets or tables has a module `MC_M` with them; the proofs about `M` are in `M_proofs`.

### How the models correspond to the code

**OpenRbArm.** `pc` is where the single thread is: `setup` (deaf), `homing`, `parse` (top
of `loop`), `job` (inside `pickAndPlace`), `debug` (the console part), `manual` (a motion
typed there). `Parsing` are the places that reach `jsonParse`. `ParseFrame`,
`ParseCutFrame`, `ParseMergedFrame` are `parseByte` on a whole frame, on one short of
bytes, and on the frame that is swallowed by it; `acceptTarget` has the checks of
`acceptTargetFrame` in their order. `TakeJob`, `SkipJob`, `FinishJob`,
`DebugNothing`, `DebugAuto`, `DebugMotion`, `EndManualMotion` are the passes of `loop`.
`ResetArm` is a power loss: RAM as after power-on and a part of the received
bytes gone. A motion is one interval from `TakeJob` to `FinishJob(ok)`.

**TargetTransport.** `phase` says which of the two `_read_response` calls is waiting.
`Dispatch` builds and writes a frame, `ReadResponse` takes one answer (drops it for another
identifier; ACK leads to the second wait; all else ends the call),
`ResendAfterTimeout` and `GiveUp` are the two ends of the retry loop, `PortFails` is the
exception, `RestartJetson` the end of the process with a new identifier and an
emptied input buffer. The ghost number `n` of a command only lets properties name
the dispatch; no guard of the models reads it.

**RackMonitor.** `JudgedFrame` and `FaultFrame` are the two branches of the inference
loop, each with the window, the pose it went by, the submission to the guard and the
published status in one step; `TakePose` and `FinishPose` are the guard's thread, whose
measurement may fail. `consensus` is `temporal_consensus` with the status the loop
makes of it. `MoveCamera` and `ChangeRack` are people and the arm.

**RackDispatch.** `ValidPacket`, `InvalidPacket`, `Stop`, `ClosePort` are the main thread
(`observe` is `ShapeEventGate.observe`); `GetNone`, `GetBlocked`, `GetSelects`, `Send`,
`SendFails`, `CallEnds` are `ArmWorker._run` and `process_shape_event`. Reading the
status and selecting from it is one step: nothing is read between the two. Between
the selection and the sending, everything else may move.

**ArmMotion.** `stage` is the next move of `pickAndPlace`, `present` where the joints are, `sent` what `moveArm`
was given last, `aim` the pose whose arrival was judged. A move (`Move`) arrives at an end of its tolerance, does not arrive, or ends by a servo's error;
joints 2 and 3 err together and joint 4 for itself, each to the end of its tolerance. `heightFrom` and the
pose operators of `ArmPoses` compute with the ticks of the source, so the table of the nine slots is
the firmware's. `TakeOut` is a person who takes a left box from the gripper. The build uses the fixed pick pose (`USE_FIXED_PICK_POSE`), so the
map from the picture to the joints is not part of it.

**Routines, Escape, SlotDrive, SlotAlign, Navigate, Maneuvers.** The shuttle's program is one thread of routines that call
each other. A routine is a record on `stack`: the place it stands at and its loop counters. `Call`, `Return`
and `Become` are a call, a return and a pass of a loop; a timed move (set speed, sleep, zero) is a frame of its own, so that
Ctrl+C can come inside. What a step sees (depth, wall, angle, scan, pose found or not) is
an arbitrary member of a small set; what it does with it - order of tests, counters that are set back,
calls, results - is the code's. Each behaviour of `Maneuvers` makes one call, of any routine the
mission makes one of; counters that are not read any more are set to a fixed value, which changes nothing a step does.
Three things a step sees are not free but computed. Around a tight place a step sees one of `Scenes`, a set of walls, and `Clearance` has what
`robot_sense.c` and `corner_escape.c` make of it: the room to turn, the drive along the axis that makes room, the part of a turn that is safe.
Inside a slot a look is one of `Views`, and `SlotSight` has what `robot_slot_geom.c` makes of it, from the map's cells to the verdict: nothing seen, as estimated, set anew, this
lane, the other lane, undecided. A look also is a step of the tracker from one of `Follows`, and `PoseTrack` (`slam_localize_step`) says whether it asks for a
search of the map. There one coordinate stands for two, and a sight is the set of poses the scan fits best, from which the likelihood falls off; search windows, steps, penalties, gate
and limits are the code's.
`Docking` is the controller that `dynamic_navigator.c` asks near the goal, as a function of its state and what it sees.

**Shuttle, Trigger.** `at` is where `run_shuttle` stands, `running` the routine it has called; a routine ends by the contract `Maneuver`.
`ParkOnce` has the steps of `shuttle__park_once`, `Park` to `Back` those of the tries around it; the ghost `berth` holds the stop
whose slot the car was seen to be in; `Open`, `Poll`, `Held` and `Wait` are `trigger_wait`. The sensors of a stop may read wrong up to `Glitches` polls in a row while people put and take boxes. Type
"sensors" includes the Enter override; a key that was pressed on the way is represented when the car arrives (`typed`).

**MotorBoard, MotorLink.** A command is six symbols. Between two packets the line may lose any number of them, and up to `MaxLoss`
between a header the receiver has taken and the end of what it takes for that packet (`lost`); `RxByte` and `Exec` are `cmd_rx`, `WatchdogTick` is
`watchdog`, `Brake` and `Driven` the multiplexers of `rc_car_top`. `SetSpeed`, `CleanUp`, `StopWrite`, `ClearRunning`, `Join` are the
main thread, `Compute`, `SendWrite`, `SenderExit` the send thread (`PulseSpeed` is `fpga_link__pulse_speed`), `Kill` a
process that dies or a cable that is cut.

**OmxArm, ZyboFlow.** `omxPc` is where the sketch's `loop` is, `zyboPc` where the frame loop of `main.cc` is. Whether the car is there and SW0 is on
may change between two reads, so each read is a choice. `AckTimeout` resends, `Acked` and `OtherAnswer` read an answer, `RetryHeard`
is the request for a fresh target. Sequence numbers have `SeqMod` values. `gHoldingObject` is only printed and left out.

## 3. What each run checks

| Run (`.cfg`) | States | Shows |
|---|---|---|
| `AnyMaster` | 840,792 | Whatever frames come: the place for one command is taken exactly while it waits or runs (`CommandSlotInStep`); what was accepted can be run with its own coordinates (`AcceptedCanRun`) and is (`AcceptedCommandRuns`); frames received during a motion change neither motion nor answer (`JobAnswersItsCommand`); the command finished last is not accepted again (`LastResultNotRepeated`); a DONE or FAULT on the line is true (`TerminalAnswerIsTrue`); after a fault nothing moves before the console was used (`FaultHoldsUntilOperator`); the line is read (`LineIsRead`). |
| `DispatchArm` | ~640,000 | Over a lossy line with timeouts at any moment: at most one motion per dispatch (`AtMostOnce`), true reports (`ReportIsTrue`), a refusal of the only attempt over an undamaged line is final (`FirstRefusalIsFinal`), and the pair is a `PlacementService` (`ImplementsService`). |
| `DispatchArmCrash` | 444,500 | With a reset of the arm and a restart of the dispatcher: `DispatchInv` (the inductive invariant), motions in the order of dispatch (`NoStaleMotion`), calls end (`DispatchSettles`), accepted commands are run to their end (`AcceptedIsRunToItsEnd`). |
| `RackMonitor` | 307,200 | The monitor is a `RackView` (`ImplementsView`): what it shows of a slot is wrong only until more frames were judged than the vote leaves room for; STABLE rests on a whole window since the last fault (`FreshWindowAfterFault`); of the measurements that end after a bump at most two still call the camera aligned (`BumpIsMeasured`); a camera that stays displaced ends all views (`DisplacedIsNoticed`). |
| `RackDispatch` | 1,763,630 | One event per object, whatever shapes it is seen with (`EventPerObject`); the arm moves the object the command was made for unless someone took one away (`OwnObject`); two objects meet in a slot only after the dispatcher used a view that had not followed the rack, or forgot a call that ended without a verdict (`CollisionIsExplained`). |
| `ArmMotion` | 915,474 | Wherever within their tolerance the joints stop, the wrist is level along the shelf (`LevelAtTheShelf`); no goal is cut down to a joint's range (`NothingIsClamped`); a picked box leaves the gripper within the release tolerance of its slot pose or not at all, whatever move failed before (`LetGoInTheSlot`). |
| `Maneuvers` | 502,236 | Every routine the mission calls keeps the contract `Maneuver` (`KeepsContract`): it returns with the wheels at rest, searches the map only at rest, ends (a leg of navigation when Ctrl+C is pressed), and a drive into a slot that succeeds was stopped by the wall, or saw both side walls of a slot, or has raised `slot_no_wall`. Before it, TLC evaluates the functions of `Clearance`, `SlotSight` and `PoseTrack` against what they are for (below). |
| `Shuttle` | 682,304 | A car that waits for its load is in the slot of its stop: the last drive in met the wall there or ended between both side walls, and nothing has driven it away since (`InItsSlot`; observation 13 in section 7); it leaves only on a box that really came or went while the state held, or on a key pressed after it came (`DepartsOnRealSign`); Ctrl+C ends the mission (`StopEnds`). |
| `MotorLink` | 529,524 | Lost bytes, one inside each packet, never join fields of two packets into a command (`NoTornCommand`); once the speeds were zeroed nothing written later turns a wheel (`QuietAfterCleanStop`); a link that is closed or killed comes to rest (`StopsForGood`); slow speeds are pulsed again and again (`NoStarvation`); the board is a dead-man switch (`DeadManSwitch`). |
| `ZyboFlow` | 290,945 | A target whose acknowledgement was read was accepted, none is accepted twice, sequence numbers that wrap around included (`TakenOnce`); the request for a fresh target gets through although it is never acknowledged (`FreshTargetComes`). |
| `RetryAfterReset`, `DuplicateAck` | - | The two disagreements of section 7; each run ends in the trace. |

`MC_Maneuvers` has assumptions that TLC checks before the run; they compare the code's algorithms with a definition that does not search:
the drive that is chosen to make room is the shortest that makes enough, or the best if none does (`ShiftIsShortest`); halving finds the largest part of a
turn that is safe (`TurnIsLargest`); the slots of the project's map are found with their widths and depths, and none in the aisle (`SlotsAreFound`, `AisleIsNoSlot`); the coarse and
fine search for the depth finds the peak (`DepthIsFound`); a car that is within the window of the search is found in two steps (`PoseIsFound`). `EveryWay` and `EveryVerdict`
say that the scenes and views meet every way an escape or a look can end.

Every property of a passing run has a mutant in the models, a one-place change such as a
programmer could make, which breaks it. They stand next
to the definition they change, marked `Mutant`, and no specification uses them.

## 4. Bounds, and why they are enough

- *Two dispatches, one resend each* (`DispatchArm`): every stale answer is one of the dispatch before, and the
  arm keeps one result, so the second dispatch meets all that the first can leave behind.
  A third adds no new kind of leftover; the theorems take any number.
- *Three frames* (`AnyMaster`): a cut frame, the one it swallows and one after that; or a command, its repetition and a
  foreign one. `BadSlot` is a slot field no dispatcher sends.
- *Two identifiers*: the fewest with which a sequence neither stops nor repeats at once;
  `ReportIsTrue` and the refinement are stated for identifiers that do not repeat (`NoIdReuse`).
- *One damaged frame or answer, one reset, one restart, one or two console commands*: each at any moment.
  Two damages in one call give what a second resend gives; the theorems take any number.
- *Window 3, votes 2* for the code's 5 and 4: the slack is 1 in both, and `ViewImplemented` takes any pair.
- *Two slots of one column, two shapes, two objects, two commands*: a collision needs two objects in one column;
  the second shape is a full or foreign column (no slot). `required_count` is 1 as in the code; the types are
  proved for any.

- *Calibrations* (`ArmMotion`): the firmware's nine slots, and a table whose slot is at the edge of a joint's range, which the
  validation has to refuse. `Within` and the poses are computed in ticks, with no bound on them.
- *Loop limits of the shuttle's routines* (`Maneuvers`): each limit of the code (16 tries, 120 steps, ...) is a constant, here 1 to
  6: large enough that a loop can be left by its limit, by success, by stop and by each inner call, and that a counter which others
  set back is set back at least once. Termination does not depend on the values: where it would, the limit is the code's reason for it.
- *Six scenes, 80 views, two sights* (`Maneuvers`): the assumptions `EveryWay` and `EveryVerdict` fail if one of the ways on is not among them; the map is that of
  `maps/set_map.txt` with its 10 mm cells, the outline that of the car in whole degrees, and all lengths are those of the code.
- *Two lines, debounce 2, two wrong readings in a row, two tries* (`Shuttle`): wrong readings may last just as long as the debounce
  allows, one more would make the property false and its assumption (`Glitches <= Debounce`) with it; the theorems take any number.
- *Watchdog of one tick, six symbols on the line, one byte lost inside a packet, speeds up to 3* (`MotorLink`): the line holds a whole packet, so a lost byte
  joins the rest of one to the beginning of the next at every position; packet after packet may be damaged so. The theorem takes up to five losses
  inside a packet (`MaxLoss < PacketLen`).
- *Sequence numbers modulo 2, three targets, two packets and two answers under way* (`ZyboFlow`): the third target has the number of
  the first, and an answer to it can still be under way.

Deadlock is not checked where the system may stop: a dispatcher with no work or after shutdown, a routine that has
returned, a mission that has ended, a closed link. The monitor, the arm's motions and the Zybo flow go on for ever and are checked for deadlock.

## 5. Fairness

- `Setup`, `Loop`: weak. One thread; each wait of the firmware has a timeout, so motions end.
- `Receive`: strong. `jsonParse` empties the buffer each time it is called, but the thread is not always there.
- `ResendAfterTimeout`/`GiveUp`: weak. A wait with a deadline ends.
- Monitor: weak for the loop's frame, for the loop handing a frame to the guard (every
  `alignment_interval`), for the guard's `get` and for the end of a measurement. Only
  `DisplacedIsNoticed` uses it; `RackView` promises nothing about time, so the dispatcher is
  checked against a monitor that may stand still.
- `Maneuvers`: weak for the one thread's next step. `Shuttle`: weak for the mission's next step and for the end of a maneuver, which `KeepsContract` gives;
  a leg of navigation need not end by itself.
- `MotorLink`: weak for the send thread, for the end of the main thread once it has begun, for the board's receiver and for the watchdog's clock. None for
  `SetSpeed`: `NoStarvation` is about a speed that stays.
- `ZyboFlow`: weak for both loops and motions. Strong for `TakeTarget`, `Acked`, `RetryHeard`: the line loses packets but not all of
  them. Strong for the arm's `Retry` and the board's `AckTimeout`: the request is due once a second, while the window for an acknowledgement is 100 ms, so each comes
  between two of the other.
- None for the console, the line's faults, resets, people, packets or the dispatcher's worker.

## 6. What is proved

`tlapm` checks eight modules; `PROJECT.json` names the theorems.

- `AnyMaster_proofs`: `TypeOK`, and the five safety invariants of the controller that are inductive together
  (`ArmInv` in `OpenRbArm_proofs`). They are needed together: a command can be run (`AcceptedCanRun`) because the place is
  given once (`CommandSlotInStep`), and a kept result is never run again because the place is
  freed in the step that keeps the result. `TerminalAnswerHolds` adds `AnswerInv`: every frame on the line, the command held and the
  one whose result is kept are issued ones, and what is kept or on its way was true when it was written.
- `DispatchArm_proofs`: `TypeOK`, `DispatchInv`, `AtMostOnce`, `ReportIsTrue`, `NoStaleMotion`, and `ServiceImplemented`. The argument: every command held
  or readable anywhere is an issued one (`CommandsKnown`); frames lie on the line in the order of dispatch and none is older
  than the accepted command or a started motion (`LineInOrder`, which gives `NoStaleMotion`, crashes included);
  without a reset whatever was started is running or not newer than the kept result
  (`StartedIsRemembered`, which gives `AtMostOnce`); and with identifiers counted up, kept results and
  answers under way are those of the dispatch they name (`ResultsAreTrue`, which gives `ReportIsTrue`).
  `ServiceImplemented` assumes `MaxResets = 0`, `MaxRestarts = 0` and `MaxDispatches <= IdMod`: without them the pair does not implement the
  service (section 7, and the note on identifiers below). `FirstRefusalHolds` (`FirstRefusalIsFinal`): with the line undamaged and one attempt made, a refusal on the
  line means that the frame is used up and neither held, nor accepted, nor kept (`RefusalInv`), so no motion can start for it.
- `RackMonitor_proofs`: `TypeOK`, `FreshWindowAfterFault`, `BumpIsMeasured`, `ViewImplemented`. The inductive invariant has the parts `MonitorInv` (status, window and the judged
  frames agree) and `OldFramesPass` (how many frames from before a bump the guard and its queue can still hold: one each). If `k` frames were judged since a slot changed, the newest `k`
  of the window do not lie about it; with `k > Window - Votes` at most `Votes - 1` frames can still say the wrong thing, which is no winner (`VotesReachNewest`).
- `RackDispatch_proofs`: `TypeOK` and `CollisionIsExplained`. While there is no excuse, every command with a verdict has its motion
  behind it, so the only motion that can run or come is the one of the open call (`MotionOfOpenCall`); the slot it
  names was empty when it was selected, because the view is right of slots that have not changed for
  long enough (`SelectedIsEmpty`), and nothing else has filled it since (`SlotStaysFree`). `EventPerObjectHolds`: an object that made its event keeps the
  gate from arming as long as it lies there (`EventsCounted`); the half "exactly one" takes `required_count = 1`, the code's value, and is false for more.
  `OwnObjectHolds`: of all events and commands that have not gripped anything yet only one waits, and it is for the object that still lies
  where it was seen (`Errands`).
- `ArmMotion_proofs`: `LevelAtTheShelf`, `NothingIsClamped`, `LetGoInTheSlot` for every table of measured poses. The invariant `ArmInv` says per stage which poses were validated before the
  shelf is reached, that the gripper's box is from this job or an earlier one, and that a stage that opens the gripper in the slot comes after an arrival that was judged.
- `Shuttle_proofs`: `InItsSlot` and `DepartsOnRealSign` for every number of tries, lines and polls. `ShuttleInv`: where the mission has found `slot_no_wall` unset after a drive in, the slot is known
  (`SlotIsKnown`); a state none of whose polls was true has been read wrong at every one of them, more often in a row than readings go
  wrong; and a key from before the wait was read away.
  `NoLeap`: for every scan, every setting of the search and any quality of the matches before, `slam_localize_step` takes the pose no further from the wheels' prediction
  than three and a half leaps of the settings and twice half the move. The argument follows the step: a match lies in its window (`MatchIsNear`), what passes the gate
  lies within the room for a leap, cut short or not (`CutIsShort`, `GateHolds`), and the search after a bad match has a gate for the way and a window for
  the angle (`SearchIsNear`).
- `FpgaBoards_proofs`, motor link: `QuietAfterCleanStop`, `NoTornCommand`, `TypeOK` and that the board implements `DeadMan`, for every time-out, pulse length and table of speeds. `LinkInv`: once the speeds
  were zeroed and the pause of the clean-up is over, the speeds, what the send thread has computed and what was written last are all zero.
  `TornInv`: bytes are lost at the head of the line only, so the place of every symbol in its packet can be counted from the end of the line (`WholePackets`). Between the header in the
  receiver's buffer and the head of the line fewer bytes are lost than a packet has (`LossAssumption`, which bounds the losses inside one packet and not those of the run), so a line end that completes six symbols is the one of the header's
  own packet (`LineEndPlace`) and nothing of it is missing (`BufferInStep`).
- `FpgaBoards_proofs`, Zybo flow: `TakenOnce` for every number of targets and every `SeqMod > 1`. `FlowInv`: the lines hold only the last two targets, or acknowledgements of them,
  the older one in front (`LinesInOrder`); the board goes on to the next target only when the arm has taken the one before (`SettledIsKnown`), and then nothing older is under way; and what the arm
  remembers of the last number is of a target it has taken (`Remembered`). So a number that repeats is a repetition, because two neighbours have different numbers.

The proofs take the constants' named assumptions (`IdModAssumption`, `VotesAssumption`, `LowestAssumption`, ...), which TLC evaluates in every
run. `LowestAssumption` says that a set of slot numbers has a least one, a fact of numbers that would need an induction; `PulseAssumption` that the pulse settings are numbers and a burst is not
empty, which `fpga_link_set_pulse_params` sees to.

Only model-checked: all liveness (`AcceptedCommandRuns`, `LineIsRead`, `DispatchSettles`, `AcceptedIsRunToItsEnd`, `DisplacedIsNoticed`,
`StopsForGood`, `NoStarvation`, `StopEnds`, `FreshTargetComes`: fairness and ENABLED are out of the prover's reach), the refinement `KeepsContract` (its liveness half for
that reason; its safety half, over a stack of calls of any depth, is open: section 10), and the comparisons of `MC_Maneuvers`.

## 7. Where code and documentation disagree, and what the code does that surprises

1. `RetryAfterReset`: the transport's contract (`openrb_target_transport.py:16`) asks the arm never to execute an identical retry
   twice. The firmware keeps the last command in RAM; after a reset in the middle of a job, the retry is a new command and
   the arm moves again.
2. `DuplicateAck`: a late ACK leads to a resend and a second ACK, which is read while DONE is awaited and
   ends the call as a failure named `ACK`, although the arm executes the command (`openrb_target_transport.py:228`, `src/arduino/README.md:61`).
3. *Two objects in one slot is reachable*, and nothing in the documents forbids it: `excused` in `RackDispatch` is not a formality. After DONE the window
   shows the slot EMPTY for up to `Slack + 1` frames (or for ever, if the monitor stalls), and the next event may be taken up in that time;
   and a call that ends by timeout or by case 2 is forgotten while its motion still comes. `CollisionIsExplained` says that there is no third way.
4. An event that is blocked (camera, full column, BUSY) has consumed its object: the gate is armed again only by NONE.
5. After a restart of the dispatcher the identifier starts at the time of day; if identifier, slot and coordinates happen to be
   those of the arm's kept result, DONE is reported without a motion. `ReportIsTrue` therefore assumes `NoIdReuse`.
6. `trigger_wait` takes its baseline at B, and whether the other state was seen, from one reading that is not debounced (`trigger.c:297`),
   against its comments at lines 379 and 12. `DepartsOnRealSign` is therefore stated of the state that lets the car go, not of the one before it.
7. Close to the goal the docking controller returns before it counts the step (`docking.c:98`, `:224`), so neither of its limits ends a last centimetre
   that does not get shorter: a leg of navigation is unbounded in the contract and ends when it is told to stop.
8. A retry of a parking goes on when the drive out of the slot has failed (`robot_shuttle.c:329`); closing the gripper on nothing counts as
   a grip (`openrb_robot_arm.ino:2150`) and the job ends as DONE.
9. A restarted Zybo counts from 0 again; if the arm accepted that number last, the first target is acknowledged as a
   repetition and never moved for (`main.cc:229`). `ZyboFlow` has no restart.

10. The gate on a match leaves a standing car 70 mm and 12 degrees. The search after a bad match has a limit for the way (105 mm) but none for the angle, so a car that stands still
   turns by 20 degrees in one step (`SearchMayTurn`), although the comment at `slam.c:550` wants the search to respect the motion as well. `NoLeap` therefore has the window of the search in
   its bound for the angle.
11. Only the drive into a slot looks at the flag for the wrong lane; `slot_confirm_park` reads the pose alone and may confirm a parking in the other slot when the verdict falls in its own look.
12. The room for a turn is sampled in steps of the angle and at the measured points, so a turn that is called safe may pass closer to a wall than the margin between two samples.
13. *A parking without contact counts.* A drive that was pressed past the depth of the slot logs that the wall was not met; if the lidar's fit knows both side
   walls it then returns success without `slot_no_wall` (`robot_slot_drive.c:450-483`), and seating, confirmation and the wait follow. The mission's message says otherwise:
   inside a slot the wall must be met, so that a drive without contact is not taken as a parking (`robot_shuttle.c:533-535`; also
   `robot_config.h:253-256` and `robot_slot_align.c:1511-1513`, which speak of contact only); the comment at
   `robot_slot_drive.c:468-471` gives the reason for the exception, that the depth is then merely short of the wall. `KeepsContract` and `InItsSlot` are therefore stated of the wall *or* the
   side walls (`Grounds`); that the end wall was touched does not hold of the code and is not claimed.
14. The fault of the arm that holds until the operator comes is a variable in RAM: a reset of the arm ends it (`FaultHoldsUntilOperator` says what holds between resets).
15. Six bytes lost inside one packet put the left speed of one command beside the right speed of the next, and the board executes both: the receiver
   has neither a time-out nor a checksum. `NoTornCommand` is for fewer.

## 8. Assumptions of the models

- A damaged frame with a CRC that fits all the same is left out (1 in 256 for one byte of CRC), and
  so is a header byte inside the rest of a merged frame.
- Time is abstracted: a timeout may come at any moment, a motion may last as long as it likes.
- In `OpenRbArm` and above it a motion is one job that ends well or not, and the rack is filled when it ends well; the moves of a motion are `ArmMotion`.
- The shelf is not an obstacle in `ArmMotion`: the paths between poses are not in the code. A joint stops at an end of its tolerance or does not arrive;
  since the bounds compared are linear in the joints, a place between the ends adds nothing.
- What the driving routines are told by lidar, pose estimate and planner is arbitrary but for `Clearance`, `SlotSight` and `PoseTrack` (section 2), and the age of a scan is not followed; wheels that are commanded zero stand.
- The motor link loses bytes and does not alter them: a digit that is altered into another would be executed, for a packet has no checksum.
- A Zybo packet with wrong or missing bytes is dropped by its reader.
- From the reference pose the classifier says what is so, or UNKNOWN; from a displaced camera, anything. The pose
  measurement tells the two apart, or fails.
- The Zybo reports NONE only from an empty work place. A flicker to NONE over a lying object re-arms the gate, since one
  NONE is enough (`required_count` is 1), and would make a second event of the same object: `EventPerObject` is about changes between shapes.
- The arm picks what lies on the work place; the coordinates of a command are not followed further.

## 9. Not modelled, and why

- *Planning algorithms* (`astar.c`, `grid_map.c`, clustering, frontier search): sequential functions on grids and floating-point clouds; the routines take their answers as arbitrary.
- *Control numerics* (`pid.c`, the learned turn rate, speeds, steering): floating point. Of `slam.c`, the building of the map and of the fields a scan is scored with.
- *Receive thread and encoder counters*: nothing of the drive reads their report but the numerics. *Lidar thread*: a scan is a free answer.
- *RTL tracker and range guard, camera drivers, block design, generated platform code*: pixel pipelines and vendored tables; car and target are free choices in `ZyboFlow`.
- *Simulators, viewers, training and offline tools, the archive of earlier firmware*: no part of the running system.
- Of modelled parts: the dispatcher's dry run without an arm, HTTP events, start-up and shutdown of the monitor, reading the shuttle's configuration, the trigger by a single GPIO
  line, the arm's console commands for single joints, servo power and reboot, the inverse kinematics and the menu of the OMX sketch.

## 10. Plan

Done, in this order: the placement (UartLink to RackDispatch), MotorLink, the routines and their contract, Shuttle, ArmMotion, ZyboFlow, the functions behind the routines' looks (Clearance, SlotSight, PoseTrack), each with what is proved of it.

Open, by what it would add:

1. The safety half of `KeepsContract` as a theorem: wheels at rest whenever the stack is empty. Each routine needs an invariant of its own (what the frame below
   it was doing when it called), and the induction is over the frames of the stack.
2. `astar.c` with `min_heap.h` against a reference shortest path on small grids (for TLC only: induction over data).
3. A restart of the Zybo, once it is said what the flow should then promise.
4. The lidar thread's handover of scans with their age, under the routines that take an old scan for a new one (`robot_scan.c:123`).

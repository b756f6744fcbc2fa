------------------------------ MODULE OpenRbArm ------------------------------
(***************************************************************************)
(* The OpenRB-150 arm controller (arduino/openrb_robot_arm): one thread,   *)
(* no interrupts of its own, that receives target frames, runs one pick    *)
(* and place at a time and answers ACK, DONE, NAK, BUSY or FAULT.          *)
(*                                                                         *)
(* The receiver runs wherever the firmware calls jetsonParse: at the top   *)
(* of loop() and inside every waiting helper of a motion (serviceDelay,    *)
(* waitForArmTol, ...).  It does not run during delay(3000) of setup() or  *)
(* while a debug command is read, so frames then pile up in the RX buffer. *)
(* This module holds the state, the initial state and the actions; the     *)
(* modules that EXTEND it add the other end of the line.                   *)
(***************************************************************************)
EXTENDS UartLink

CONSTANTS NoResult,    \* "no result yet" (haveLastResult is false)
          NoJob,       \* loop() is not inside a job
          MaxResets,   \* bound: power losses or resets of the controller
          MaxDebug     \* bound: commands typed on the debug console

ASSUME NullAssumption ==
  /\ NoResult \notin [cmd : Commands, status : {"DONE", "FAULT"}]
  /\ NoJob \notin [target : Commands, cmd : Commands]
ASSUME ArmBounds == MaxResets \in Nat /\ MaxDebug \in Nat

VARIABLES
  pc,             \* where the thread is, see PcStates
  autoMode,       \* execute commands from the line
  robotBusy,      \* pickAndPlace runs for a command of the line
  newTarget,      \* a command is accepted and not taken yet
  activeCommand,  \* the accepted command, or NoCommand
  target,         \* targetX, targetY, targetEmptySlot, targetCommandId
  job,            \* locals of loop(): what is executed, what is answered
  lastResult,     \* the command finished last and its status, or NoResult
  rxCut,          \* parseByte holds the beginning of a cut frame (rxIndex > 0)
  debugs,         \* debug commands executed
  resets,         \* resets suffered
  starts,         \* history: how often the motion of a dispatch was started
  placed,         \* history: dispatches whose motion ended well
  failed          \* history: dispatches whose motion failed

armVars == <<pc, autoMode, robotBusy, newTarget, activeCommand, target, job,
             lastResult, rxCut, debugs, resets, starts, placed, failed>>

\* setup:  delay(3000), initServos()      homing: safeHoming() of setup()
\* parse:  top of loop()                  job:    inside pickAndPlace()
\* debug:  the console part of loop()     manual: a motion typed there
PcStates == {"setup", "homing", "parse", "job", "debug", "manual"}

\* Mutant: jetsonParse is not called at the top of loop().
ParsingInMotionOnly == {"homing", "job", "manual"}

\* The places from which jetsonParse is called.
Parsing == {"homing", "parse", "job", "manual"}

ArmTypeOK ==
  /\ pc \in PcStates
  /\ autoMode \in BOOLEAN /\ robotBusy \in BOOLEAN /\ newTarget \in BOOLEAN
  /\ activeCommand \in Commands \cup {NoCommand}
  /\ target \in Commands \cup {NoCommand}
  /\ job \in [target : Commands, cmd : Commands] \cup {NoJob}
  /\ lastResult \in [cmd : Commands, status : {"DONE", "FAULT"}] \cup {NoResult}
  /\ rxCut \in BOOLEAN
  /\ debugs \in 0 .. MaxDebug /\ resets \in 0 .. MaxResets
  /\ starts \in [Dispatches -> Nat]
  /\ placed \in SUBSET Dispatches /\ failed \in SUBSET Dispatches

\* The values RAM has after power-on.
ArmInit ==
  /\ pc = "setup"
  /\ autoMode = TRUE /\ robotBusy = FALSE /\ newTarget = FALSE
  /\ activeCommand = NoCommand /\ target = NoCommand /\ job = NoJob
  /\ lastResult = NoResult
  /\ rxCut = FALSE
  /\ debugs = 0 /\ resets = 0
  /\ starts = [n \in Dispatches |-> 0]
  /\ placed = {} /\ failed = {}
-----------------------------------------------------------------------------
(* Receiving: jetsonParse, parseByte, acceptTargetFrame, sendResponse.     *)

\* Mutant: the identifier is counted up and not cut to a byte.
ResponseNextId(c, s) == [id |-> c.id + 1, status |-> s, n |-> c.n]

Response(c, s) == [id |-> c.id, status |-> s, n |-> c.n]

\* sendResponse: write and flush, the order of the answers is the order of
\* the writes.
sendResponse(c, s) == toJetson' = Append(toJetson, Response(c, s))

\* Mutants: only a success is kept for a repeated command; the identifier is
\* not compared.
isDuplicateOfSuccess(c) ==
  lastResult # NoResult /\ lastResult.status = "DONE" /\ matches(c, lastResult.cmd)
isSamePlace(c) ==
  /\ lastResult # NoResult
  /\ c.slot = lastResult.cmd.slot /\ c.pt = lastResult.cmd.pt

\* Is it the command that was finished last, or the one that waits or runs?
isDuplicateOfResult(c) == lastResult # NoResult /\ matches(c, lastResult.cmd)
isDuplicateOfActive(c) == activeCommand # NoCommand /\ matches(c, activeCommand)

armKeeps == UNCHANGED <<pc, autoMode, robotBusy, job, lastResult, debugs,
                        resets, starts, placed, failed>>

\* A repeated command gets the answers it got before.
repeatResult(c) ==
  /\ toJetson' = toJetson \o <<Response(c, "ACK"), Response(c, lastResult.status)>>
  /\ UNCHANGED <<newTarget, activeCommand, target>>

takeCommand(c) ==
  /\ activeCommand' = c
  /\ target' = c
  /\ newTarget' = TRUE
  /\ sendResponse(c, "ACK")

\* Busy with this very command, busy with another, or not in automatic mode.
turnAway(c) ==
  /\ sendResponse(c, IF autoMode /\ isDuplicateOfActive(c) THEN "ACK" ELSE "BUSY")
  /\ UNCHANGED <<newTarget, activeCommand, target>>

\* Mutants: a command taken outside the automatic mode, one taken during a
\* job, and BUSY without the return after it.
acceptInAnyMode(c) ==
  IF isDuplicateOfResult(c) THEN repeatResult(c)
  ELSE IF ~robotBusy /\ ~newTarget THEN takeCommand(c) ELSE turnAway(c)
acceptDuringJob(c) ==
  IF isDuplicateOfResult(c) THEN repeatResult(c)
  ELSE IF autoMode /\ ~newTarget THEN takeCommand(c) ELSE turnAway(c)
acceptAfterBusy(c) ==
  /\ activeCommand' = c /\ target' = c /\ newTarget' = TRUE
  /\ sendResponse(c, IF autoMode /\ ~robotBusy /\ ~newTarget THEN "ACK" ELSE "BUSY")

\* A frame of valid CRC and range: the checks of acceptTargetFrame in their
\* order.  The result of the last command is repeated before autoMode is
\* looked at.
acceptTarget(c) ==
  IF isDuplicateOfResult(c) THEN repeatResult(c)
  ELSE IF autoMode /\ ~robotBusy /\ ~newTarget THEN takeCommand(c)
  ELSE turnAway(c)

\* Mutant: a refused frame also drops the command that waits.
refuseAndForget(c) ==
  /\ sendResponse(c, "NAK")
  /\ newTarget' = FALSE /\ activeCommand' = NoCommand
  /\ UNCHANGED target

refuse(c) ==
  /\ sendResponse(c, "NAK")
  /\ UNCHANGED <<newTarget, activeCommand, target>>

\* A frame with missing bytes leaves parseByte in the middle of a frame.
\* Alone it answers nothing: whatever comes next is taken for its rest.
ParseCutFrame ==
  /\ pc \in Parsing
  /\ toArm # <<>> /\ Head(toArm).kind = "cut" /\ ~rxCut
  /\ rxCut' = TRUE
  /\ toArm' = Tail(toArm)
  /\ UNCHANGED <<newTarget, activeCommand, target, toJetson, damage>>
  /\ armKeeps

\* The next frame completes the cut one: its first bytes end in the CRC
\* field, the CRC fails, and the bytes that remain hold no header.
ParseMergedFrame ==
  /\ pc \in Parsing
  /\ toArm # <<>> /\ rxCut
  /\ rxCut' = FALSE
  /\ toArm' = Tail(toArm)
  /\ \E i \in Ids : refuse([Head(toArm).cmd EXCEPT !.id = i])
  /\ UNCHANGED damage
  /\ armKeeps

\* A frame of nine bytes.
ParseFrame ==
  /\ pc \in Parsing
  /\ toArm # <<>> /\ Head(toArm).kind # "cut" /\ ~rxCut
  /\ toArm' = Tail(toArm)
  /\ LET f == Head(toArm) IN
       IF f.kind = "badCrc" \/ f.cmd.slot = BadSlot
       THEN refuse(f.cmd)
       ELSE acceptTarget(f.cmd)
  /\ UNCHANGED <<rxCut, damage>>
  /\ armKeeps

Receive == ParseCutFrame \/ ParseMergedFrame \/ ParseFrame
-----------------------------------------------------------------------------
(* setup() and loop().                                                     *)

armIdleVars == <<autoMode, robotBusy, newTarget, activeCommand, target, job,
                 lastResult, rxCut, resets, starts, placed, failed>>

\* delay(3000) and initServos() are over: homing, and from here on parsing.
StartHoming ==
  /\ pc = "setup"
  /\ pc' = "homing"
  /\ UNCHANGED <<armIdleVars, debugs, linkVars>>

\* setup() returns.
EndSetup ==
  /\ pc = "homing"
  /\ pc' = "parse"
  /\ UNCHANGED <<armIdleVars, debugs, linkVars>>

\* Mutant: newTarget is not cleared.
TakeJobKeepsFlag ==
  /\ pc = "parse" /\ autoMode /\ newTarget
  /\ job' = [target |-> target, cmd |-> activeCommand]
  /\ robotBusy' = TRUE
  /\ pc' = "job"
  /\ starts' = [starts EXCEPT ![target.n] = @ + 1]
  /\ UNCHANGED <<autoMode, newTarget, activeCommand, target, lastResult, rxCut,
                 debugs, resets, placed, failed, linkVars>>

\* loop() takes the accepted command: it copies target and activeCommand and
\* enters pickAndPlace.
TakeJob ==
  /\ pc = "parse"
  /\ autoMode /\ newTarget
  /\ job' = [target |-> target, cmd |-> activeCommand]
  /\ newTarget' = FALSE
  /\ robotBusy' = TRUE
  /\ pc' = "job"
  /\ starts' = [starts EXCEPT ![target.n] = @ + 1]
  /\ UNCHANGED <<autoMode, activeCommand, target, lastResult, rxCut, debugs,
                 resets, placed, failed, linkVars>>

\* Nothing to execute: loop() goes on to the console.
SkipJob ==
  /\ pc = "parse"
  /\ ~(autoMode /\ newTarget)
  /\ pc' = "debug"
  /\ UNCHANGED <<armIdleVars, debugs, linkVars>>

\* What loop() does after pickAndPlace whatever becomes of the command's place,
\* of the mode and of the kept result.
jobOver(ok, s) ==
  /\ pc = "job"
  /\ sendResponse(job.cmd, s)
  /\ robotBusy' = FALSE
  /\ job' = NoJob
  /\ pc' = "debug"
  /\ placed' = IF ok THEN placed \cup {job.target.n} ELSE placed
  /\ failed' = IF ok THEN failed ELSE failed \cup {job.target.n}
  /\ UNCHANGED <<newTarget, target, rxCut, debugs, resets, starts, toArm, damage>>

\* Mutants: the command keeps its place; the automatic mode outlives a failure;
\* the result is not kept.
FinishJobKeepsCommand(ok) ==
  LET s == IF ok THEN "DONE" ELSE "FAULT" IN
    /\ jobOver(ok, s)
    /\ lastResult' = [cmd |-> job.cmd, status |-> s]
    /\ autoMode' = (autoMode /\ ok)
    /\ UNCHANGED activeCommand
FinishJobStaysAuto(ok) ==
  LET s == IF ok THEN "DONE" ELSE "FAULT" IN
    /\ jobOver(ok, s)
    /\ lastResult' = [cmd |-> job.cmd, status |-> s]
    /\ activeCommand' = NoCommand
    /\ UNCHANGED autoMode
FinishJobForgets(ok) ==
  /\ jobOver(ok, IF ok THEN "DONE" ELSE "FAULT")
  /\ autoMode' = (autoMode /\ ok)
  /\ activeCommand' = NoCommand
  /\ UNCHANGED lastResult

\* pickAndPlace returns ok.  The result is kept for a repeated command before
\* the answer is sent; a failure leaves the automatic mode.
FinishJob(ok) ==
  LET s == IF ok THEN "DONE" ELSE "FAULT" IN
    /\ jobOver(ok, s)
    /\ lastResult' = [cmd |-> job.cmd, status |-> s]
    /\ activeCommand' = NoCommand
    /\ autoMode' = (autoMode /\ ok)

\* No console command, or one that changes nothing modelled (status, slot, off).
DebugNothing ==
  /\ pc = "debug"
  /\ pc' = "parse"
  /\ UNCHANGED <<armIdleVars, debugs, linkVars>>

\* "auto" toggles the automatic mode, "auto N" switches it on.
DebugAuto ==
  /\ pc = "debug" /\ debugs < MaxDebug
  /\ autoMode' \in {~autoMode, TRUE}
  /\ debugs' = debugs + 1
  /\ pc' = "parse"
  /\ UNCHANGED <<robotBusy, newTarget, activeCommand, target, job, lastResult,
                 rxCut, resets, starts, placed, failed, linkVars>>

\* claw, test, placetest, home, reset, init, on: a motion that parses the
\* line while it waits, but does not set robotBusy.
DebugMotion ==
  /\ pc = "debug" /\ debugs < MaxDebug
  /\ debugs' = debugs + 1
  /\ pc' = "manual"
  /\ UNCHANGED <<armIdleVars, linkVars>>

EndManualMotion ==
  /\ pc = "manual"
  /\ pc' = "parse"
  /\ UNCHANGED <<armIdleVars, debugs, linkVars>>

\* The controller loses power or is reset: RAM starts afresh, and with it the
\* received bytes (a part of toArm, the rest is still on its way).
ResetArm ==
  /\ resets < MaxResets
  /\ resets' = resets + 1
  /\ pc' = "setup"
  /\ autoMode' = TRUE /\ robotBusy' = FALSE /\ newTarget' = FALSE
  /\ activeCommand' = NoCommand /\ target' = NoCommand /\ job' = NoJob
  /\ lastResult' = NoResult
  /\ rxCut' = FALSE
  /\ \E k \in 0 .. Len(toArm) : toArm' = SubSeq(toArm, k + 1, Len(toArm))
  /\ UNCHANGED <<toJetson, damage, debugs, starts, placed, failed>>

Loop == \/ TakeJob \/ SkipJob \/ FinishJob(TRUE) \/ FinishJob(FALSE)
        \/ DebugNothing \/ EndManualMotion

Setup == StartHoming \/ EndSetup

Console == DebugAuto \/ DebugMotion

ArmNext == Receive \/ Setup \/ Loop \/ Console \/ ResetArm
-----------------------------------------------------------------------------
(* What holds of the controller alone, whoever is at the other end.        *)

\* The place for one accepted command is taken exactly while that command
\* waits for loop() or runs, never both: it is not given away twice, and no
\* end of a job, refusal or console command leaves it taken for ever, which
\* would answer BUSY from then on (openrb_robot_arm.ino:1983-2001, 2369-2371).
CommandSlotInStep ==
  /\ activeCommand # NoCommand <=> (newTarget \/ robotBusy)
  /\ ~(newTarget /\ robotBusy)
  /\ robotBusy <=> pc = "job"

\* An accepted command can be run at the next pass of loop(): the automatic
\* mode is still on when loop() looks, although the console can switch it off
\* between any two passes, and the coordinates to run are those of the command
\* to answer (openrb_robot_arm.ino:1994-2000, 2357-2364).
AcceptedCanRun ==
  newTarget => autoMode /\ target = activeCommand

\* While pickAndPlace runs, frames are received inside its waits; none of
\* them changes what is executed or whom the result is sent to.
JobAnswersItsCommand ==
  job # NoJob => job.target = job.cmd /\ job.cmd = activeCommand

\* The command finished last is never accepted again: it is answered from the
\* kept result (openrb_robot_arm.ino:1882-1883, 1966-1972).
LastResultNotRepeated ==
  (activeCommand # NoCommand /\ lastResult # NoResult) =>
    ~matches(activeCommand, lastResult.cmd)

\* After a failed motion nothing is accepted and nothing moves on a command of
\* the line until someone uses the console (openrb_robot_arm.ino:2375-2379).
FaultHoldsUntilOperator ==
  (debugs = 0 /\ lastResult # NoResult /\ lastResult.status = "FAULT") =>
    ~autoMode /\ ~newTarget /\ ~robotBusy
=============================================================================

------------------------------- MODULE OmxArm --------------------------------
(* The OpenRB-150 / OMX-F sketch that picks for the Zybo board                *)
(* (omx_ik_area_test.ino): the receiver of TARGET packets, the main loop, the *)
(* pick and place cycle and the console.  The inverse kinematics, the poses   *)
(* and the status flag gHoldingObject, which is only printed, are left out.   *)
EXTENDS Naturals, Sequences

CONSTANTS SeqMod,     \* sequence numbers are taken modulo this (256)
          Issues,     \* bound: targets the Zybo gives out
          Answers     \* bound: answers the line holds
ASSUME OmxAssumption == /\ SeqMod \in Nat \ {0, 1} /\ Issues \in Nat \ {0}
                        /\ Answers \in Nat \ {0}

VARIABLES omxPc,      \* where loop() is, or which motion blocks it
          flags,      \* the flags gArmReady .. gAwaitingFreshTarget
          last,       \* gLastUartSequence, Unset without gHaveLastUartSequence
          target,     \* gUartTarget: the target that waits, 0 for none
          job,        \* the target of the automatic cycle, 0 in a manual one
          asked,      \* the target of gFreshTargetRetrySequence, 0 for none
          toOmx,      \* TARGET packets on their way
          toZybo,     \* answers on their way
          taken       \* observation: how often each target was accepted
omxVars == <<omxPc, flags, last, target, job, asked, toOmx, toZybo, taken>>

Nobody == 0
Unset == SeqMod
seqOf(issue) == (issue - 1) % SeqMod
Motions == {"pick", "grasp", "carry", "release", "release again", "return",
            "power", "home", "open"}
OmxFlags == [ready : BOOLEAN, home : BOOLEAN, fault : BOOLEAN, auto : BOOLEAN,
             request : BOOLEAN, awaiting : BOOLEAN]

OmxInit ==
  /\ omxPc = "parse" /\ flags = [f \in {"ready", "home", "fault", "auto", "request", "awaiting"} |-> FALSE]
  /\ last = Unset /\ target = Nobody /\ job = Nobody /\ asked = Nobody
  /\ toOmx = <<>> /\ toZybo = <<>> /\ taken = [i \in 1..Issues |-> "no"]

\* The line holds so many answers; what does not fit is lost.
Fit(line, n) == SubSeq(line, 1, IF Len(line) < n THEN Len(line) ELSE n)

\* acceptUartTarget: every target is acknowledged, a new one is kept.
isNew(issue) == last # seqOf(issue)

acceptUartTarget(issue) ==
  /\ toZybo' = Fit(Append(toZybo, <<"ACK", seqOf(issue)>>), Answers)
  /\ IF isNew(issue)
     THEN /\ last' = seqOf(issue) /\ target' = issue
          /\ flags' = [flags EXCEPT !.awaiting = FALSE]
          /\ asked' = Nobody
          /\ taken' = [taken EXCEPT ![issue] = IF @ = "once" THEN "twice" ELSE "once"]
     ELSE UNCHANGED <<last, target, flags, asked, taken>>

\* zyboParse: in the loop and inside every motion.
TakeTarget ==
  /\ omxPc \in Motions \cup {"parse"} /\ toOmx # <<>>
  /\ toOmx' = Tail(toOmx)
  /\ acceptUartTarget(Head(toOmx))
  /\ UNCHANGED <<omxPc, job>>

Go(pc) == omxPc' = pc
Same == UNCHANGED <<last, target, toOmx, taken>>
Quiet == UNCHANGED <<asked, toZybo>>

\* sendUartRetry: copies of one packet; an answer more fits behind them.
sendUartRetry(i) ==
  toZybo' = Fit(toZybo \o <<<<"RETRY", seqOf(i)>>, <<"RETRY", seqOf(i)>>>>,
                IF Len(toZybo) < Answers THEN Answers - 1 ELSE Answers)

Parsed == omxPc = "parse" /\ Go("pending") /\ UNCHANGED <<flags, job>> /\ Same /\ Quiet

\* processPendingUartTarget and the beginning of executeCycle.
Begins == flags.auto /\ target # Nobody /\ flags.ready /\ flags.home /\ ~flags.fault
Begin ==
  /\ omxPc = "pending" /\ UNCHANGED <<last, toOmx, taken>> /\ Quiet
  /\ IF ~Begins THEN Go("retry") /\ UNCHANGED <<flags, target, job>>
     ELSE /\ target' = Nobody
          /\ \/ /\ Go("retry") /\ UNCHANGED job               \* out of reach
                /\ flags' = [flags EXCEPT !.auto = FALSE]
             \/ /\ Go("pick") /\ job' = target
                /\ flags' = [flags EXCEPT !.home = FALSE, !.request = FALSE]

\* Mutant: the request for a fresh target is sent once, never again.
RepeatNever == Go("console") /\ UNCHANGED <<flags, job>> /\ Same /\ Quiet

\* serviceFreshTargetRetry: once a second while a fresh target is awaited.
Asks == flags.awaiting /\ flags.auto /\ flags.ready /\ flags.home /\ ~flags.fault
Repeat ==
  /\ Go("console") /\ UNCHANGED <<flags, job, asked>> /\ Same
  /\ IF Asks THEN sendUartRetry(asked) ELSE UNCHANGED toZybo
Retry == omxPc = "retry" /\ Repeat
RetryNotDue == omxPc = "retry" /\ Go("console") /\ UNCHANGED <<flags, job>> /\ Same /\ Quiet

\* failCycle; a failure of an automatic cycle ends the automatic mode.
failCycle ==
  /\ Go(IF job = Nobody THEN "parse" ELSE "retry") /\ job' = Nobody
  /\ flags' = [flags EXCEPT !.home = FALSE, !.fault = TRUE,
                            !.auto = IF job = Nobody THEN @ ELSE FALSE]
  /\ Quiet

\* The end of a cycle; one that had to force the gripper asks for a new target.
cycleDone ==
  LET asks == job # Nobody /\ flags.request
  IN /\ Go(IF job = Nobody THEN "parse" ELSE "retry") /\ job' = Nobody
     /\ flags' = [flags EXCEPT !.home = TRUE, !.fault = FALSE,
                    !.request = @ /\ ~asks, !.awaiting = @ \/ asks]
     /\ IF asks THEN asked' = job /\ sendUartRetry(job) ELSE Quiet

\* executeCycle: one motion after the other, each waits until the arm rests.
MoveOn(pc) == Go(pc) /\ UNCHANGED <<flags, job>> /\ Quiet
Pick == omxPc = "pick" /\ (failCycle \/ MoveOn("grasp"))
\* closeGripper waits for a time; nothing tells whether the object was caught.
Grasp == omxPc = "grasp" /\ (failCycle \/ MoveOn("carry"))
Carry == omxPc = "carry" /\ (failCycle \/ MoveOn("release"))
\* releaseGripperWithRecovery: a gripper that does not open in time is opened by
\* force, seen open or not, and a fresh target is to be asked for.
Release ==
  /\ omxPc = "release"
  /\ \/ failCycle \/ MoveOn("return")
     \/ /\ Go("release again") /\ UNCHANGED job /\ Quiet
        /\ flags' = [flags EXCEPT !.request = TRUE]
ReleaseAgain == omxPc = "release again" /\ (failCycle \/ MoveOn("return"))
GoHome == omxPc = "return" /\ (failCycle \/ cycleDone)
Cycle == (Pick \/ Grasp \/ Carry \/ Release \/ ReleaseAgain \/ GoHome) /\ Same

\* torqueOffAll: forgets everything, the last sequence number included.
torqueOffAll(fault) ==
  /\ flags' = [f \in DOMAIN flags |-> f = "fault" /\ fault]
  /\ last' = Unset /\ target' = Nobody /\ job' = Nobody /\ asked' = Nobody /\ UNCHANGED <<toOmx, toZybo>>
  /\ taken' = [i \in 1..Issues |-> IF taken[i] = "once" THEN "forgotten" ELSE taken[i]]

\* pollEmergencyStop inside a motion.
Emergency ==
  /\ omxPc \in Motions /\ torqueOffAll(TRUE)
  /\ Go(IF job = Nobody THEN "parse" ELSE "retry")

\* The console, read at the end of loop().
Console ==
  /\ omxPc = "console"
  /\ \/ Go("parse") /\ UNCHANGED <<flags, job>> /\ Same /\ Quiet
     \/ /\ Go("power") /\ UNCHANGED job /\ Same /\ Quiet
        /\ flags' = [flags EXCEPT !.fault = FALSE]
     \/ /\ flags.ready /\ Go("home") /\ UNCHANGED job /\ Same /\ Quiet
        /\ flags' = [flags EXCEPT !.fault = FALSE]
     \/ /\ Go("parse") /\ UNCHANGED job /\ Same /\ Quiet
        /\ flags' = [flags EXCEPT !.auto = TRUE]
     \/ /\ Go("parse") /\ target' = Nobody /\ asked' = Nobody
        /\ UNCHANGED <<last, job, toOmx, toZybo, taken>>
        /\ flags' = [flags EXCEPT !.auto = FALSE, !.awaiting = FALSE]
     \/ /\ flags.ready /\ flags.home
        /\ Go("open") /\ UNCHANGED <<flags, job>> /\ Same /\ Quiet
     \/ Go("parse") /\ torqueOffAll(flags.fault)
     \/ /\ flags.ready /\ ~flags.fault /\ flags.home                  \* move A B
        /\ Go("pick") /\ UNCHANGED job /\ Same /\ Quiet
        /\ flags' = [flags EXCEPT !.home = FALSE, !.request = FALSE]

\* powerOnAndHome, returnHomeCommand and release, as they end.
initializeServos(found) == [flags EXCEPT !.ready = found, !.fault = ~found]
moveHomePose(f, reached) == [f EXCEPT !.home = reached, !.fault = ~reached]
PowerEnds ==
  /\ omxPc = "power"
  /\ \/ flags' = initializeServos(FALSE)
     \/ \E reached \in BOOLEAN : flags' = moveHomePose(initializeServos(TRUE), reached)
HomeEnds ==
  /\ omxPc = "home"
  /\ \/ flags' = [flags EXCEPT !.fault = TRUE]             \* HOME_ENTRY not reached
     \/ \E reached \in BOOLEAN : flags' = moveHomePose(flags, reached)
OpenEnds == omxPc = "open" /\ UNCHANGED flags
ManualEnds == /\ PowerEnds \/ HomeEnds \/ OpenEnds
              /\ Go("parse") /\ UNCHANGED job /\ Same /\ Quiet

OmxLoop == Parsed \/ Begin \/ Retry \/ RetryNotDue \/ Console
OmxMotion == Cycle \/ ManualEnds
OmxNext == TakeTarget \/ OmxLoop \/ OmxMotion \/ Emergency
=============================================================================

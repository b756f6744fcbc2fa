-------------------------- MODULE OpenRbArm_proofs ---------------------------
(***************************************************************************)
(* What every step of the line and of the arm controller preserves,        *)
(* whoever is at the other end.  The theorems about whole specifications   *)
(* (AnyMaster_proofs, DispatchArm_proofs) rest on these lemmas.            *)
(***************************************************************************)
EXTENDS OpenRbArm, SequenceTheorems, TLAPS

LEMMA CommandFields ==
  ASSUME NEW c \in Commands
  PROVE  c.id \in Ids /\ c.n \in Dispatches
BY DEF Commands

LEMMA CommandMisread ==
  ASSUME NEW c \in Commands, NEW i \in Ids
  PROVE  /\ [c EXCEPT !.id = i] \in Commands
         /\ [c EXCEPT !.id = i].n = c.n
BY DEF Commands

\* A function on 1 .. n is a sequence of length n.
LEMMA NumberedSeq ==
  ASSUME NEW S, NEW n \in Nat, NEW f \in [1 .. n -> S]
  PROVE  f \in Seq(S) /\ Len(f) = n
<1>1. f \in Seq(S)
  BY SeqDef
<1>2. Len(f) \in Nat /\ DOMAIN f = 1 .. Len(f)
  BY <1>1, LenProperties
<1>3. 1 .. Len(f) = 1 .. n
  BY <1>2
<1> QED
  BY <1>1, <1>2, <1>3

\* A frame that a line damages keeps the type of the line, its length, and the
\* number of every frame; the damaged one is not whole any more.
LEMMA DamageKeeps ==
  ASSUME LinkTypeOK, DamageFrame
  PROVE  /\ toArm' \in Seq(Frames)
         /\ Len(toArm') = Len(toArm)
         /\ \A j \in 1 .. Len(toArm) : toArm'[j].cmd.n = toArm[j].cmd.n
         /\ \A j \in 1 .. Len(toArm) :
              toArm'[j].kind = "whole" => toArm'[j] = toArm[j]
<1>1. PICK k \in {"badCrc", "cut"}, i \in Ids :
        toArm' = [toArm EXCEPT ![Len(toArm)] =
                    [kind |-> k, cmd |-> [@.cmd EXCEPT !.id = i]]]
  BY DEF DamageFrame
<1> DEFINE last == toArm[Len(toArm)]
           hit == [kind |-> k, cmd |-> [last.cmd EXCEPT !.id = i]]
<1>2. Len(toArm) \in 1 .. Len(toArm)
  BY LenProperties, EmptySeq DEF DamageFrame, LinkTypeOK
<1>3. last \in Frames
  BY <1>2, ElementOfSeq DEF LinkTypeOK
<1>4. last.cmd \in Commands
  BY <1>3 DEF Frames
<1>5. hit.cmd \in Commands /\ hit.cmd.n = last.cmd.n
  BY <1>4, CommandMisread
<1>6. hit \in Frames
  BY <1>5 DEF Frames
<1>7. toArm' = [toArm EXCEPT ![Len(toArm)] = hit]
  BY <1>1
<1> HIDE DEF hit, last
<1>8. /\ toArm' \in Seq(Frames)
      /\ Len(toArm') = Len(toArm)
      /\ \A j \in 1 .. Len(toArm) :
           toArm'[j] = IF j = Len(toArm) THEN hit ELSE toArm[j]
  BY <1>2, <1>6, <1>7, ExceptSeq DEF LinkTypeOK
<1>9. hit.kind # "whole" /\ last = toArm[Len(toArm)]
  BY DEF hit, last
<1> QED
  BY <1>5, <1>8, <1>9

\* A line that loses its newest frame keeps the others.
LEMMA PrefixKeeps ==
  ASSUME NEW S, NEW s \in Seq(S), s # <<>>
  PROVE  /\ SubSeq(s, 1, Len(s) - 1) \in Seq(S)
         /\ Len(SubSeq(s, 1, Len(s) - 1)) = Len(s) - 1
         /\ \A j \in 1 .. Len(s) - 1 : SubSeq(s, 1, Len(s) - 1)[j] = s[j]
<1>1. Len(s) \in Nat \ {0}
  BY EmptySeq
<1> DEFINE m == Len(s) - 1
<1>2. m \in Nat /\ \A j \in 1 .. m : s[j] \in S
  BY <1>1, ElementOfSeq
<1> HIDE DEF m
<1>3. /\ SubSeq(s, 1, m) \in Seq(S)
      /\ Len(SubSeq(s, 1, m)) = m
      /\ \A j \in 1 .. m : SubSeq(s, 1, m)[j] = s[j]
  BY <1>2, SubSeqProperties
<1> QED
  BY <1>3 DEF m

\* What is left of a line after its oldest k frames are gone.
LEMMA SuffixKeeps ==
  ASSUME NEW S, NEW s \in Seq(S), NEW k \in 0 .. Len(s)
  PROVE  /\ SubSeq(s, k + 1, Len(s)) \in Seq(S)
         /\ Len(SubSeq(s, k + 1, Len(s))) = Len(s) - k
         /\ \A j \in 1 .. Len(s) - k : SubSeq(s, k + 1, Len(s))[j] = s[j + k]
<1>1. Len(s) \in Nat
  BY LenProperties
<1>2. \A j \in k + 1 .. Len(s) : s[j] \in S
  BY <1>1, ElementOfSeq
<1> QED
  BY <1>1, <1>2, SubSeqProperties
-----------------------------------------------------------------------------
(* Types.                                                                  *)

LEMMA LinkFaultType ==
  ASSUME LinkTypeOK, LinkFault
  PROVE  LinkTypeOK'
<1>1. CASE LoseFrame
  BY <1>1, DamageBound, PrefixKeeps DEF LoseFrame, LinkTypeOK
<1>2. CASE DamageFrame
  <2>1. damage' \in 0 .. MaxDamage /\ UNCHANGED toJetson
    BY <1>2, DamageBound DEF DamageFrame, LinkTypeOK
  <2>2. toArm' \in Seq(Frames)
    BY <1>2, DamageKeeps
  <2> QED
    BY <2>1, <2>2 DEF LinkTypeOK
<1>3. CASE LoseResponse
  BY <1>3, DamageBound, PrefixKeeps DEF LoseResponse, LinkTypeOK
<1> QED
  BY <1>1, <1>2, <1>3 DEF LinkFault

\* An answer to a command is a response.
LEMMA AnswerType ==
  ASSUME NEW c \in Commands, NEW s \in Statuses
  PROVE  Response(c, s) \in Responses
<1>1. Dispatches \subseteq 0 .. MaxDispatches
  BY DispatchBound DEF Dispatches
<1> QED
  BY <1>1, CommandFields DEF Response, Responses

LEMMA SendType ==
  ASSUME LinkTypeOK, NEW c \in Commands, NEW s \in Statuses, sendResponse(c, s)
  PROVE  toJetson' \in Seq(Responses)
BY AnswerType, AppendProperties DEF LinkTypeOK, sendResponse

\* What the receiver takes from the line.
LEMMA HeadFrame ==
  ASSUME LinkTypeOK, toArm # <<>>
  PROVE  /\ Head(toArm) \in Frames
         /\ Head(toArm).cmd \in Commands
         /\ Tail(toArm) \in Seq(Frames)
         /\ Head(toArm) = toArm[1]
         /\ Len(toArm) \in Nat \ {0}
         /\ Len(Tail(toArm)) = Len(toArm) - 1
         /\ \A j \in 1 .. Len(toArm) - 1 : Tail(toArm)[j] = toArm[j + 1]
<1>1. /\ Head(toArm) \in Frames
      /\ Tail(toArm) \in Seq(Frames)
      /\ Len(Tail(toArm)) = Len(toArm) - 1
      /\ \A j \in 1 .. Len(toArm) - 1 : Tail(toArm)[j] = toArm[j + 1]
  BY HeadTailProperties DEF LinkTypeOK
<1>2. Len(toArm) \in Nat \ {0}
  BY EmptySeq DEF LinkTypeOK
<1>3. Head(toArm).cmd \in Commands
  BY <1>1 DEF Frames
<1>4. Head(toArm) = toArm[1]
  BY <1>2 DEF LinkTypeOK
<1> QED
  BY <1>1, <1>2, <1>3, <1>4

\* acceptTargetFrame answers once or, repeating a result, twice.
LEMMA AcceptType ==
  ASSUME LinkTypeOK, ArmTypeOK, NEW c \in Commands, acceptTarget(c)
  PROVE  /\ toJetson' \in Seq(Responses)
         /\ newTarget' \in BOOLEAN
         /\ activeCommand' \in Commands \cup {NoCommand}
         /\ target' \in Commands \cup {NoCommand}
<1>1. CASE isDuplicateOfResult(c)
  <2>1. lastResult.status \in Statuses
    BY <1>1, NullAssumption DEF isDuplicateOfResult, ArmTypeOK, Statuses
  <2>2. Response(c, "ACK") \in Responses /\ Response(c, lastResult.status) \in Responses
    BY <2>1, AnswerType DEF Statuses
  <2> DEFINE two == <<Response(c, "ACK"), Response(c, lastResult.status)>>
  <2>3. two \in Seq(Responses)
    BY <2>2
  <2>4. toJetson' = toJetson \o two /\ UNCHANGED <<newTarget, activeCommand, target>>
    BY <1>1 DEF acceptTarget, repeatResult, takeCommand, turnAway
  <2> HIDE DEF two
  <2> QED
    BY <2>3, <2>4, ConcatProperties DEF LinkTypeOK, ArmTypeOK
<1>2. CASE ~isDuplicateOfResult(c) /\ autoMode /\ ~robotBusy /\ ~newTarget
  <2>1. sendResponse(c, "ACK")
    BY <1>2 DEF acceptTarget, repeatResult, takeCommand, turnAway
  <2> QED
    BY <1>2, <2>1, SendType DEF acceptTarget, repeatResult, takeCommand, turnAway,
       Statuses
<1>3. CASE ~isDuplicateOfResult(c) /\ ~(autoMode /\ ~robotBusy /\ ~newTarget)
  <2>1. PICK s \in {"ACK", "BUSY"} : sendResponse(c, s)
    BY <1>3 DEF acceptTarget, repeatResult, takeCommand, turnAway
  <2>2. UNCHANGED <<newTarget, activeCommand, target>>
    BY <1>3 DEF acceptTarget, repeatResult, takeCommand, turnAway
  <2> QED
    BY <2>1, <2>2, SendType DEF Statuses, ArmTypeOK
<1> QED
  BY <1>1, <1>2, <1>3

LEMMA ReceiveType ==
  ASSUME LinkTypeOK, ArmTypeOK, Receive
  PROVE  LinkTypeOK' /\ ArmTypeOK'
<1>1. /\ toArm # <<>> /\ toArm' = Tail(toArm)
      /\ damage' = damage /\ rxCut' \in BOOLEAN /\ armKeeps
  BY DEF Receive, ParseCutFrame, ParseMergedFrame, ParseFrame, ArmTypeOK
<1>2. toArm' \in Seq(Frames) /\ Head(toArm).cmd \in Commands
  BY <1>1, HeadFrame
<1>3. /\ toJetson' \in Seq(Responses)
      /\ newTarget' \in BOOLEAN
      /\ activeCommand' \in Commands \cup {NoCommand}
      /\ target' \in Commands \cup {NoCommand}
  <2>1. CASE ParseCutFrame
    BY <2>1 DEF ParseCutFrame, LinkTypeOK, ArmTypeOK
  <2>2. CASE ParseMergedFrame
    <3>1. PICK i \in Ids : refuse([Head(toArm).cmd EXCEPT !.id = i])
      BY <2>2 DEF ParseMergedFrame
    <3>2. [Head(toArm).cmd EXCEPT !.id = i] \in Commands
      BY <1>2, CommandMisread
    <3> QED
      BY <3>1, <3>2, SendType DEF refuse, Statuses, ArmTypeOK
  <2>3. CASE ParseFrame
    <3>1. refuse(Head(toArm).cmd) \/ acceptTarget(Head(toArm).cmd)
      BY <2>3 DEF ParseFrame
    <3> QED
      BY <1>2, <3>1, SendType, AcceptType DEF refuse, Statuses, ArmTypeOK
  <2> QED
    BY <2>1, <2>2, <2>3 DEF Receive
<1> QED
  BY <1>1, <1>2, <1>3 DEF LinkTypeOK, ArmTypeOK, armKeeps

\* TakeJob needs what AcceptedCanRun says: the accepted command is there.
LEMMA TakeJobType ==
  ASSUME LinkTypeOK, ArmTypeOK, AcceptedCanRun, CommandSlotInStep, TakeJob
  PROVE  /\ LinkTypeOK' /\ ArmTypeOK'
         /\ target \in Commands /\ activeCommand = target
         /\ job'.target = target /\ job'.cmd = target
         /\ job' # NoJob /\ target.n \in Dispatches
         /\ starts[target.n] \in Nat
<1>1. target \in Commands /\ activeCommand = target
  BY DEF TakeJob, AcceptedCanRun, CommandSlotInStep, ArmTypeOK
<1>2. target.n \in Dispatches
  BY <1>1, CommandFields
<1>3. job' = [target |-> target, cmd |-> target]
  BY <1>1 DEF TakeJob
<1>4. job' \in [target : Commands, cmd : Commands] /\ job' # NoJob
  BY <1>1, <1>3, NullAssumption
<1>5. starts[target.n] \in Nat /\ starts' \in [Dispatches -> Nat]
  BY <1>2 DEF TakeJob, ArmTypeOK
<1>6. LinkTypeOK'
  BY DEF TakeJob, LinkTypeOK, linkVars
<1>7. ArmTypeOK'
  BY <1>4, <1>5 DEF TakeJob, ArmTypeOK, PcStates, linkVars
<1> QED
  BY <1>1, <1>2, <1>3, <1>4, <1>5, <1>6, <1>7

LEMMA FinishJobType ==
  ASSUME LinkTypeOK, ArmTypeOK, NEW ok \in BOOLEAN, FinishJob(ok), job # NoJob
  PROVE  /\ LinkTypeOK' /\ ArmTypeOK'
         /\ job.cmd \in Commands /\ job.target.n \in Dispatches
         /\ lastResult' # NoResult
<1>1. job.cmd \in Commands /\ job.target \in Commands
  BY DEF ArmTypeOK
<1>2. job.target.n \in Dispatches
  BY <1>1, CommandFields
<1> DEFINE s == IF ok THEN "DONE" ELSE "FAULT"
<1>3. s \in {"DONE", "FAULT"} /\ s \in Statuses
  BY DEF Statuses
<1>4. lastResult' = [cmd |-> job.cmd, status |-> s] /\ sendResponse(job.cmd, s)
  BY DEF FinishJob, jobOver
<1> HIDE DEF s
<1>5. /\ lastResult' \in [cmd : Commands, status : {"DONE", "FAULT"}]
      /\ lastResult' # NoResult
  BY <1>1, <1>3, <1>4, NullAssumption
<1>6. toJetson' \in Seq(Responses)
  BY <1>1, <1>3, <1>4, SendType
<1>7. LinkTypeOK'
  BY <1>6 DEF FinishJob, jobOver, LinkTypeOK
<1>8. placed' \in SUBSET Dispatches /\ failed' \in SUBSET Dispatches
  BY <1>2 DEF FinishJob, jobOver, ArmTypeOK
<1>9. autoMode' \in BOOLEAN
  BY DEF FinishJob, jobOver, ArmTypeOK
<1>10. ArmTypeOK'
  BY <1>5, <1>8, <1>9 DEF FinishJob, jobOver, ArmTypeOK, PcStates
<1> QED
  BY <1>1, <1>2, <1>5, <1>7, <1>10

LEMMA ResetType ==
  ASSUME LinkTypeOK, ArmTypeOK, ResetArm
  PROVE  LinkTypeOK' /\ ArmTypeOK'
<1>1. PICK k \in 0 .. Len(toArm) : toArm' = SubSeq(toArm, k + 1, Len(toArm))
  BY DEF ResetArm
<1>2. toArm' \in Seq(Frames)
  BY <1>1, SuffixKeeps DEF LinkTypeOK
<1>3. resets' \in 0 .. MaxResets
  BY ArmBounds DEF ResetArm, ArmTypeOK
<1> QED
  BY <1>2, <1>3 DEF ResetArm, LinkTypeOK, ArmTypeOK, PcStates

\* The steps of setup(), loop() and the console that touch no command.
OtherSteps == Setup \/ SkipJob \/ DebugNothing \/ EndManualMotion \/ Console

LEMMA OtherType ==
  ASSUME LinkTypeOK, ArmTypeOK, OtherSteps
  PROVE  LinkTypeOK' /\ ArmTypeOK'
<1>1. debugs' \in 0 .. MaxDebug
  <2>1. debugs' = debugs \/ (debugs < MaxDebug /\ debugs' = debugs + 1)
    BY DEF OtherSteps, Setup, StartHoming, EndSetup, SkipJob, DebugNothing,
       EndManualMotion, Console, DebugAuto, DebugMotion
  <2> QED
    BY <2>1, ArmBounds DEF ArmTypeOK
<1>2. pc' \in PcStates /\ autoMode' \in BOOLEAN
  BY DEF OtherSteps, Setup, StartHoming, EndSetup, SkipJob, DebugNothing,
     EndManualMotion, Console, DebugAuto, DebugMotion, ArmTypeOK, PcStates, armIdleVars
<1>3. UNCHANGED <<robotBusy, newTarget, activeCommand, target, job, lastResult,
                  rxCut, resets, starts, placed, failed, linkVars>>
  BY DEF OtherSteps, Setup, StartHoming, EndSetup, SkipJob, DebugNothing,
     EndManualMotion, Console, DebugAuto, DebugMotion, armIdleVars
<1> QED
  BY <1>1, <1>2, <1>3 DEF LinkTypeOK, ArmTypeOK, linkVars
-----------------------------------------------------------------------------
(* The inductive invariant of the controller.                              *)

\* The console can switch the automatic mode off only where loop() has taken or
\* passed by what was accepted: no receiver runs between loop()'s look at
\* newTarget and the console.  And job is there exactly while the thread is in
\* pickAndPlace.
ArmInv ==
  /\ CommandSlotInStep
  /\ AcceptedCanRun
  /\ JobAnswersItsCommand
  /\ LastResultNotRepeated
  /\ FaultHoldsUntilOperator
  /\ job # NoJob <=> pc = "job"
  /\ pc = "debug" => ~newTarget

LEMMA ArmTypeInit ==
  ASSUME ArmInit
  PROVE  ArmTypeOK
<1>1. starts \in [Dispatches -> Nat] /\ placed \in SUBSET Dispatches
      /\ failed \in SUBSET Dispatches
  BY DEF ArmInit
<1>2. pc \in PcStates /\ autoMode \in BOOLEAN /\ robotBusy \in BOOLEAN
      /\ newTarget \in BOOLEAN /\ rxCut \in BOOLEAN
  BY DEF ArmInit, PcStates
<1>3. debugs \in 0 .. MaxDebug /\ resets \in 0 .. MaxResets
  BY ArmBounds DEF ArmInit
<1>4. /\ activeCommand \in Commands \cup {NoCommand}
      /\ target \in Commands \cup {NoCommand}
      /\ job \in [target : Commands, cmd : Commands] \cup {NoJob}
      /\ lastResult \in [cmd : Commands, status : {"DONE", "FAULT"}] \cup {NoResult}
  BY DEF ArmInit
<1> QED
  BY <1>1, <1>2, <1>3, <1>4 DEF ArmTypeOK

LEMMA ArmInvInit ==
  ASSUME ArmInit
  PROVE  ArmInv
BY DEF ArmInit, ArmInv, CommandSlotInStep, AcceptedCanRun, JobAnswersItsCommand,
   LastResultNotRepeated, FaultHoldsUntilOperator

\* A step that changes nothing the invariant speaks of.
LEMMA ArmInvUnchanged ==
  ASSUME ArmInv, UNCHANGED armVars
  PROVE  ArmInv'
BY DEF ArmInv, armVars, CommandSlotInStep, AcceptedCanRun, JobAnswersItsCommand,
   LastResultNotRepeated, FaultHoldsUntilOperator, matches

LEMMA AcceptInv ==
  ASSUME LinkTypeOK, ArmTypeOK, ArmInv, NEW c \in Commands, acceptTarget(c),
         armKeeps, pc \in Parsing
  PROVE  ArmInv'
<1>1. CASE UNCHANGED <<newTarget, activeCommand, target>>
  BY <1>1 DEF ArmInv, armKeeps, CommandSlotInStep, AcceptedCanRun,
     JobAnswersItsCommand, LastResultNotRepeated, FaultHoldsUntilOperator, matches
<1>2. CASE /\ ~isDuplicateOfResult(c) /\ autoMode /\ ~robotBusy /\ ~newTarget
           /\ activeCommand' = c /\ target' = c /\ newTarget' = TRUE
  <2>1. c # NoCommand
    BY NoCommandAssumption
  <2>2. pc # "job" /\ pc # "debug" /\ job = NoJob
    BY <1>2 DEF ArmInv, CommandSlotInStep, Parsing
  <2>3. CommandSlotInStep' /\ AcceptedCanRun' /\ JobAnswersItsCommand'
    BY <1>2, <2>1, <2>2 DEF ArmInv, armKeeps, CommandSlotInStep, AcceptedCanRun,
       JobAnswersItsCommand
  <2>4. LastResultNotRepeated'
    BY <1>2 DEF isDuplicateOfResult, LastResultNotRepeated, armKeeps, matches
  <2>5. FaultHoldsUntilOperator'
    BY <1>2 DEF ArmInv, FaultHoldsUntilOperator, armKeeps
  <2> QED
    BY <2>2, <2>3, <2>4, <2>5 DEF ArmInv, armKeeps
<1> QED
  BY <1>1, <1>2 DEF acceptTarget, repeatResult, takeCommand, turnAway

LEMMA ReceiveInv ==
  ASSUME LinkTypeOK, ArmTypeOK, ArmInv, Receive
  PROVE  ArmInv'
<1>1. CASE UNCHANGED <<newTarget, activeCommand, target>> /\ armKeeps
  BY <1>1 DEF ArmInv, armKeeps, CommandSlotInStep, AcceptedCanRun,
     JobAnswersItsCommand, LastResultNotRepeated, FaultHoldsUntilOperator, matches
<1>2. CASE ParseFrame
  <2>1. Head(toArm).cmd \in Commands
    BY <1>2, HeadFrame DEF ParseFrame
  <2>2. \/ refuse(Head(toArm).cmd)
        \/ acceptTarget(Head(toArm).cmd)
    BY <1>2 DEF ParseFrame
  <2>3. armKeeps /\ pc \in Parsing
    BY <1>2 DEF ParseFrame
  <2> QED
    BY <1>1, <2>1, <2>2, <2>3, AcceptInv DEF refuse
<1> QED
  BY <1>1, <1>2 DEF Receive, ParseCutFrame, ParseMergedFrame, refuse

LEMMA TakeJobInv ==
  ASSUME LinkTypeOK, ArmTypeOK, ArmInv, TakeJob
  PROVE  ArmInv'
<1>1. job'.target = target /\ job'.cmd = target /\ activeCommand = target /\ job' # NoJob
  BY TakeJobType DEF ArmInv
<1>2. CommandSlotInStep' /\ AcceptedCanRun' /\ JobAnswersItsCommand'
  BY <1>1 DEF TakeJob, ArmInv, CommandSlotInStep, AcceptedCanRun, JobAnswersItsCommand
<1>3. LastResultNotRepeated' /\ FaultHoldsUntilOperator'
  BY DEF TakeJob, ArmInv, LastResultNotRepeated, FaultHoldsUntilOperator, matches
<1> QED
  BY <1>1, <1>2, <1>3 DEF TakeJob, ArmInv

LEMMA FinishJobInv ==
  ASSUME LinkTypeOK, ArmTypeOK, ArmInv, NEW ok \in BOOLEAN, FinishJob(ok)
  PROVE  ArmInv'
<1>1. ~newTarget /\ newTarget' = newTarget /\ robotBusy' = FALSE
  BY DEF FinishJob, jobOver, ArmInv, CommandSlotInStep
<1>2. activeCommand' = NoCommand /\ job' = NoJob /\ pc' = "debug"
  BY DEF FinishJob, jobOver
<1>3. lastResult'.status = "FAULT" => autoMode' = FALSE
  BY DEF FinishJob, jobOver
<1>4. CommandSlotInStep' /\ AcceptedCanRun' /\ JobAnswersItsCommand'
  BY <1>1, <1>2 DEF CommandSlotInStep, AcceptedCanRun, JobAnswersItsCommand
<1>5. LastResultNotRepeated' /\ FaultHoldsUntilOperator'
  BY <1>1, <1>2, <1>3 DEF LastResultNotRepeated, FaultHoldsUntilOperator
<1> QED
  BY <1>1, <1>2, <1>4, <1>5 DEF ArmInv

LEMMA OtherInv ==
  ASSUME LinkTypeOK, ArmTypeOK, ArmInv, OtherSteps
  PROVE  ArmInv'
<1>1. UNCHANGED <<robotBusy, newTarget, activeCommand, target, job, lastResult>>
  BY DEF OtherSteps, Setup, StartHoming, EndSetup, SkipJob, DebugNothing,
     EndManualMotion, Console, DebugAuto, DebugMotion, armIdleVars
<1>2. /\ pc # "job" /\ pc' # "job"
      /\ pc' = "debug" => ~newTarget
  BY DEF OtherSteps, Setup, StartHoming, EndSetup, SkipJob, DebugNothing,
     EndManualMotion, Console, DebugAuto, DebugMotion, ArmInv, AcceptedCanRun
<1>3. newTarget => autoMode'
  <2>1. newTarget => autoMode' = autoMode
    BY DEF OtherSteps, Setup, StartHoming, EndSetup, SkipJob, DebugNothing,
       EndManualMotion, Console, DebugAuto, DebugMotion, ArmInv, armIdleVars
  <2> QED
    BY <2>1 DEF ArmInv, AcceptedCanRun
<1>4. (autoMode' = autoMode /\ debugs' = debugs) \/ debugs' # 0
  <2>1. (autoMode' = autoMode /\ debugs' = debugs) \/ debugs' = debugs + 1
    BY DEF OtherSteps, Setup, StartHoming, EndSetup, SkipJob, DebugNothing,
       EndManualMotion, Console, DebugAuto, DebugMotion, armIdleVars
  <2> QED
    BY <2>1 DEF ArmTypeOK
<1>5. CommandSlotInStep' /\ AcceptedCanRun' /\ JobAnswersItsCommand'
  BY <1>1, <1>2, <1>3 DEF ArmInv, CommandSlotInStep, AcceptedCanRun,
     JobAnswersItsCommand
<1>6. LastResultNotRepeated'
  BY <1>1 DEF ArmInv, LastResultNotRepeated, matches
<1>7. FaultHoldsUntilOperator'
  BY <1>1, <1>4 DEF ArmInv, FaultHoldsUntilOperator
<1> QED
  BY <1>1, <1>2, <1>5, <1>6, <1>7 DEF ArmInv

LEMMA ResetInv ==
  ASSUME ResetArm
  PROVE  ArmInv'
BY DEF ResetArm, ArmInv, CommandSlotInStep, AcceptedCanRun, JobAnswersItsCommand,
   LastResultNotRepeated, FaultHoldsUntilOperator

\* Every step of the controller keeps its types and its invariant.
LEMMA ArmStep ==
  ASSUME LinkTypeOK, ArmTypeOK, ArmInv, ArmNext
  PROVE  LinkTypeOK' /\ ArmTypeOK' /\ ArmInv'
<1>1. CASE Receive
  BY <1>1, ReceiveType, ReceiveInv
<1>2. CASE TakeJob
  BY <1>2, TakeJobType, TakeJobInv DEF ArmInv
<1>3. ASSUME NEW ok \in BOOLEAN, FinishJob(ok)
      PROVE  LinkTypeOK' /\ ArmTypeOK' /\ ArmInv'
  <2>1. job # NoJob
    BY <1>3 DEF FinishJob, jobOver, ArmInv
  <2> QED
    BY <1>3, <2>1, FinishJobType, FinishJobInv
<1>4. CASE OtherSteps
  BY <1>4, OtherType, OtherInv
<1>5. CASE ResetArm
  BY <1>5, ResetType, ResetInv
<1> QED
  BY <1>1, <1>2, <1>3, <1>4, <1>5 DEF ArmNext, Loop, OtherSteps
=============================================================================

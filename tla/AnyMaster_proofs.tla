-------------------------- MODULE AnyMaster_proofs ---------------------------
(***************************************************************************)
(* What holds of the arm controller whatever is sent to it, for every      *)
(* number of identifiers, frames, faults, resets and console commands.     *)
(* The work is done in OpenRbArm_proofs.                                   *)
(***************************************************************************)
EXTENDS AnyMaster, OpenRbArm_proofs

Inv == TypeOK /\ ArmInv

\* The master adds a frame of its own to the line.
LEMMA MasterSendsType ==
  ASSUME TypeOK, MasterSends
  PROVE  TypeOK'
<1>1. PICK i \in Ids, s \in Slots \cup {BadSlot}, p \in Points :
        LET c == [id |-> i, slot |-> s, pt |-> p, n |-> sent + 1] IN
          /\ toArm' = Append(toArm, [kind |-> "whole", cmd |-> c])
          /\ command' = Append(command, c)
  BY DEF MasterSends
<1> DEFINE c == [id |-> i, slot |-> s, pt |-> p, n |-> sent + 1]
           f == [kind |-> "whole", cmd |-> c]
<1>2. sent' = sent + 1 /\ sent \in Nat /\ sent' \in 1 .. MaxDispatches
  BY DispatchBound DEF MasterSends, TypeOK
<1>3. c \in Commands
  BY <1>2 DEF Commands, Dispatches
<1>4. f \in Frames
  BY <1>3 DEF Frames
<1>5. toArm' = Append(toArm, f) /\ command' = Append(command, c)
  BY <1>1
<1> HIDE DEF c, f
<1>6. toArm' \in Seq(Frames)
  BY <1>4, <1>5, AppendProperties DEF TypeOK, LinkTypeOK
<1>7. command \in Seq(Commands) /\ Len(command) = sent
  BY <1>2, NumberedSeq DEF TypeOK
<1>8. command' \in Seq(Commands) /\ Len(command') = sent + 1
  BY <1>3, <1>5, <1>7, AppendProperties
<1>9. command' \in [1 .. sent' -> Commands]
  BY <1>2, <1>8, LenProperties
<1>10. UNCHANGED <<toJetson, damage, armVars>>
  BY DEF MasterSends
<1> QED
  BY <1>2, <1>6, <1>9, <1>10 DEF TypeOK, LinkTypeOK, ArmTypeOK, armVars

LEMMA MasterReadsType ==
  ASSUME TypeOK, MasterReads
  PROVE  TypeOK'
<1>1. toJetson' \in Seq(Responses)
  BY HeadTailProperties DEF MasterReads, TypeOK, LinkTypeOK
<1> QED
  BY <1>1 DEF MasterReads, TypeOK, LinkTypeOK, ArmTypeOK, armVars

LEMMA InvInit ==
  ASSUME Init
  PROVE  Inv
<1>1. toArm \in Seq(Frames) /\ toJetson \in Seq(Responses) /\ damage \in 0 .. MaxDamage
  BY DamageBound DEF Init, LinkInit
<1>2. sent \in 0 .. MaxDispatches /\ command \in [1 .. sent -> Commands]
  BY DispatchBound DEF Init
<1> QED
  BY <1>1, <1>2, ArmTypeInit, ArmInvInit DEF Init, Inv, TypeOK, LinkTypeOK

LEMMA InvStep ==
  ASSUME Inv, [Next]_vars
  PROVE  Inv'
<1> USE DEF Inv
<1>1. CASE ArmNext /\ UNCHANGED <<sent, command>>
  BY <1>1, ArmStep DEF TypeOK
<1>2. CASE LinkFault /\ UNCHANGED <<armVars, sent, command>>
  <2>1. LinkTypeOK' /\ ArmInv'
    BY <1>2, LinkFaultType, ArmInvUnchanged DEF TypeOK
  <2>2. ArmTypeOK'
    BY <1>2 DEF TypeOK, ArmTypeOK, armVars
  <2> QED
    BY <1>2, <2>1, <2>2 DEF TypeOK
<1>3. CASE MasterSends
  BY <1>3, MasterSendsType, ArmInvUnchanged DEF MasterSends
<1>4. CASE MasterReads
  BY <1>4, MasterReadsType, ArmInvUnchanged DEF MasterReads
<1>5. CASE UNCHANGED vars
  <2>1. UNCHANGED armVars /\ UNCHANGED linkVars /\ UNCHANGED <<sent, command>>
    BY <1>5 DEF vars
  <2>2. TypeOK'
    BY <2>1 DEF TypeOK, LinkTypeOK, ArmTypeOK, linkVars, armVars
  <2> QED
    BY <2>1, <2>2, ArmInvUnchanged
<1> QED
  BY <1>1, <1>2, <1>3, <1>4, <1>5 DEF Next

LEMMA InvAlways == Spec => []Inv
<1>1. Init => Inv
  BY InvInit
<1>2. Inv /\ [Next]_vars => Inv'
  BY InvStep
<1> QED
  BY <1>1, <1>2, PTL DEF Spec

\* Types, under any master.
THEOREM TypesAreKept == Spec => []TypeOK
<1>1. Inv => TypeOK
  BY DEF Inv
<1> QED
  BY <1>1, InvAlways, PTL

\* The place for one accepted command is taken exactly while the command waits
\* or runs: it is never given away twice and never left taken.
THEOREM CommandSlotHolds == Spec => []CommandSlotInStep
<1>1. Inv => CommandSlotInStep
  BY DEF Inv, ArmInv
<1> QED
  BY <1>1, InvAlways, PTL

\* loop() can always run what the receiver accepted, whatever was typed on the
\* console in between.
THEOREM AcceptedCanRunHolds == Spec => []AcceptedCanRun
<1>1. Inv => AcceptedCanRun
  BY DEF Inv, ArmInv
<1> QED
  BY <1>1, InvAlways, PTL

\* Frames that arrive during a motion change neither what is executed nor whom
\* the result answers.
THEOREM JobAnswersHolds == Spec => []JobAnswersItsCommand
<1>1. Inv => JobAnswersItsCommand
  BY DEF Inv, ArmInv
<1> QED
  BY <1>1, InvAlways, PTL

\* The command finished last is answered from memory, never run again.
THEOREM LastResultHolds == Spec => []LastResultNotRepeated
<1>1. Inv => LastResultNotRepeated
  BY DEF Inv, ArmInv
<1> QED
  BY <1>1, InvAlways, PTL

\* A failed motion stops the automatic mode until someone uses the console.
THEOREM FaultHolds == Spec => []FaultHoldsUntilOperator
<1>1. Inv => FaultHoldsUntilOperator
  BY DEF Inv, ArmInv
<1> QED
  BY <1>1, InvAlways, PTL
-----------------------------------------------------------------------------
(* Answers and motions.                                                    *)

\* A command that the master really sent, as it sent it.
Known(c) == c.n \in 1 .. sent /\ c = command[c.n]

\* Some motion in S was one of the n-th command or of an earlier, equal one.
RanIn(S, n, cmds) == \E m \in S : m <= n /\ matches(cmds[m], cmds[n])

\* The answer r is true, given what was sent (cmds) and how the motions ended.
TrueAnswer(r, last, cmds, done, fault) ==
  /\ r.n \in 1 .. last
  /\ r.status = "DONE" => RanIn(done, r.n, cmds)
  /\ r.status = "FAULT" => RanIn(fault, r.n, cmds)

\* Frames lie on the line in the order of sending, behind all that the arm
\* holds; what is whole, held or kept is a command that was sent.
FramesKnown ==
  /\ \A j \in 1 .. Len(toArm) :
       /\ toArm[j].cmd.n \in 1 .. sent
       /\ toArm[j].kind = "whole" => Known(toArm[j].cmd)
  /\ \A j, k \in 1 .. Len(toArm) : j < k => toArm[j].cmd.n < toArm[k].cmd.n
HeldKnown ==
  activeCommand # NoCommand =>
    /\ Known(activeCommand)
    /\ \A j \in 1 .. Len(toArm) : activeCommand.n < toArm[j].cmd.n
KeptKnown ==
  lastResult # NoResult =>
    /\ Known(lastResult.cmd)
    /\ \A j \in 1 .. Len(toArm) : lastResult.cmd.n < toArm[j].cmd.n
    /\ lastResult.status = "DONE" => lastResult.cmd.n \in placed
    /\ lastResult.status = "FAULT" => lastResult.cmd.n \in failed
AnswersTrue ==
  \A k \in 1 .. Len(toJetson) : TrueAnswer(toJetson[k], sent, command, placed, failed)

AnswerInv == FramesKnown /\ HeldKnown /\ KeptKnown /\ AnswersTrue

\* An answer stays true while only motions are added.
LEMMA AnswerStays ==
  ASSUME NEW r, NEW last, NEW cmds, NEW done, NEW fault, NEW done2, NEW fault2,
         done \subseteq done2, fault \subseteq fault2,
         TrueAnswer(r, last, cmds, done, fault)
  PROVE  TrueAnswer(r, last, cmds, done2, fault2)
  BY DEF TrueAnswer, RanIn

\* One more true answer on the line.
LEMMA AnswerAdded ==
  ASSUME TypeOK, AnswersTrue, UNCHANGED <<sent, command>>,
         placed \subseteq placed', failed \subseteq failed',
         NEW r \in Responses, TrueAnswer(r, sent, command, placed', failed'),
         toJetson' = Append(toJetson, r)
  PROVE  AnswersTrue'
<1>1. /\ Len(toJetson') = Len(toJetson) + 1
      /\ \A k \in 1 .. Len(toJetson) : toJetson'[k] = toJetson[k]
      /\ toJetson'[Len(toJetson) + 1] = r
      /\ Len(toJetson) \in Nat
  BY AppendProperties, LenProperties DEF TypeOK, LinkTypeOK
<1>2. ASSUME NEW k \in 1 .. Len(toJetson')
      PROVE  TrueAnswer(toJetson'[k], sent, command, placed', failed')
  <2>1. CASE k \in 1 .. Len(toJetson)
    BY <1>1, <2>1, AnswerStays DEF AnswersTrue
  <2>2. CASE k = Len(toJetson) + 1
    BY <1>1, <2>2
  <2> QED BY <1>1, <1>2, <2>1, <2>2
<1> QED BY <1>2 DEF AnswersTrue

\* Fewer frames on the line, or fewer answers: nothing becomes false.
LEMMA FewerFrames ==
  ASSUME AnswerInv, UNCHANGED <<sent, command, activeCommand, lastResult, placed, failed>>,
         Len(toArm) \in Nat, Len(toArm') \in Nat, NEW d \in Nat,
         Len(toArm') + d <= Len(toArm),
         \A j \in 1 .. Len(toArm') : toArm'[j] = toArm[j + d]
  PROVE  FramesKnown' /\ HeldKnown' /\ KeptKnown'
<1>1. \A j \in 1 .. Len(toArm') : j + d \in 1 .. Len(toArm) OBVIOUS
<1>2. FramesKnown'
  <2>1. \A j \in 1 .. Len(toArm') :
          /\ toArm'[j].cmd.n \in 1 .. sent
          /\ toArm'[j].kind = "whole" => Known(toArm'[j].cmd)
    BY <1>1 DEF AnswerInv, FramesKnown
  <2>2. ASSUME NEW j \in 1 .. Len(toArm'), NEW k \in 1 .. Len(toArm'), j < k
        PROVE  toArm'[j].cmd.n < toArm'[k].cmd.n
    <3>1. j + d \in 1 .. Len(toArm) /\ k + d \in 1 .. Len(toArm) /\ j + d < k + d
      BY <2>2
    <3>2. toArm[j + d].cmd.n < toArm[k + d].cmd.n
      BY <3>1 DEF AnswerInv, FramesKnown
    <3> QED BY <3>2
  <2> QED BY <2>1, <2>2 DEF FramesKnown, Known
<1>3. HeldKnown' BY <1>1 DEF AnswerInv, HeldKnown, Known
<1>4. KeptKnown' BY <1>1 DEF AnswerInv, KeptKnown, Known
<1> QED BY <1>2, <1>3, <1>4

\* Whoever takes the first frame of the line may keep its command: the rest of
\* the line is newer.
LEMMA RestIsNewer ==
  ASSUME TypeOK, FramesKnown, toArm # <<>>, NEW j \in 1 .. Len(Tail(toArm))
  PROVE  Head(toArm).cmd.n < Tail(toArm)[j].cmd.n
<1>1. /\ Head(toArm) = toArm[1] /\ Len(toArm) \in Nat \ {0}
      /\ Len(Tail(toArm)) = Len(toArm) - 1
      /\ Tail(toArm)[j] = toArm[j + 1]
  BY HeadFrame DEF TypeOK
<1>2. 1 \in 1 .. Len(toArm) /\ j + 1 \in 1 .. Len(toArm) /\ 1 < j + 1 BY <1>1
<1> QED BY <1>1, <1>2 DEF FramesKnown

\* acceptTarget on a whole frame: what it answers is true, what it keeps is known.
LEMMA AcceptAnswers ==
  ASSUME TypeOK, AnswerInv, NEW c \in Commands, c.n \in 1 .. sent, Known(c), acceptTarget(c), armKeeps,
         UNCHANGED <<sent, command>>, lastResult # NoResult => lastResult.cmd.n < c.n
  PROVE  /\ AnswersTrue'
         /\ \/ UNCHANGED activeCommand
            \/ activeCommand' = c
<1>1. ASSUME NEW s \in {"ACK", "BUSY"}, sendResponse(c, s) PROVE AnswersTrue'
  <2>1. Response(c, s) \in Responses BY AnswerType DEF Statuses
  <2>2. TrueAnswer(Response(c, s), sent, command, placed', failed')
    BY DEF TrueAnswer, Response
  <2> HIDE DEF Response
  <2> QED BY <1>1, <2>1, <2>2, AnswerAdded DEF sendResponse, armKeeps, AnswerInv
<1>2. CASE isDuplicateOfResult(c)
  <2>1. lastResult \in [cmd : Commands, status : {"DONE", "FAULT"}] /\ lastResult # NoResult
    BY <1>2 DEF isDuplicateOfResult, TypeOK, ArmTypeOK
  <2>2. matches(c, lastResult.cmd) BY <1>2 DEF isDuplicateOfResult
  <2> DEFINE a == Response(c, "ACK")
             b == Response(c, lastResult.status)
             m == lastResult.cmd.n
  <2>3. a \in Responses /\ b \in Responses BY <2>1, AnswerType DEF Statuses
  <2>4. m \in 1 .. sent /\ m <= c.n /\ matches(command[m], command[c.n])
    <3>1. lastResult.cmd = command[m] /\ m \in 1 .. sent /\ m < c.n
      BY <2>1 DEF AnswerInv, KeptKnown, Known
    <3>2. c = command[c.n] BY DEF Known
    <3>3. matches(lastResult.cmd, c) BY <2>2 DEF matches
    <3>4. sent \in Nat BY DEF TypeOK
    <3> QED BY <3>1, <3>2, <3>3, <3>4
  <2>5. TrueAnswer(a, sent, command, placed, failed) BY DEF TrueAnswer, Response
  <2>6. TrueAnswer(b, sent, command, placed, failed)
    <3>1. b.n = c.n /\ b.status = lastResult.status BY DEF Response
    <3>2. b.status = "DONE" => m \in placed BY <2>1, <3>1 DEF AnswerInv, KeptKnown
    <3>3. b.status = "FAULT" => m \in failed BY <2>1, <3>1 DEF AnswerInv, KeptKnown
    <3> HIDE DEF b, m
    <3> QED BY <2>4, <3>1, <3>2, <3>3 DEF TrueAnswer, RanIn
  <2>7. toJetson' = toJetson \o <<a, b>> /\ UNCHANGED activeCommand
    BY <1>2 DEF acceptTarget, repeatResult
  <2> HIDE DEF a, b
  <2>8. /\ Len(toJetson') = Len(toJetson) + 2 /\ Len(toJetson) \in Nat
        /\ \A k \in 1 .. Len(toJetson) : toJetson'[k] = toJetson[k]
        /\ toJetson'[Len(toJetson) + 1] = a /\ toJetson'[Len(toJetson) + 2] = b
    BY <2>3, <2>7, ConcatProperties, LenProperties DEF TypeOK, LinkTypeOK
  <2>9. placed' = placed /\ failed' = failed BY DEF armKeeps
  <2>10. \A k \in 1 .. Len(toJetson) + 2 :
           TrueAnswer(toJetson'[k], sent, command, placed, failed)
    <3>1. SUFFICES ASSUME NEW k \in 1 .. Len(toJetson) + 2
                   PROVE TrueAnswer(toJetson'[k], sent, command, placed, failed)
      OBVIOUS
    <3>2. k \in 1 .. Len(toJetson) \/ k = Len(toJetson) + 1 \/ k = Len(toJetson) + 2
      BY <2>8
    <3>3. CASE k \in 1 .. Len(toJetson) BY <2>8, <3>3 DEF AnswerInv, AnswersTrue
    <3>4. CASE k = Len(toJetson) + 1 BY <2>5, <2>8, <3>4
    <3>5. CASE k = Len(toJetson) + 2 BY <2>6, <2>8, <3>5
    <3> QED BY <3>2, <3>3, <3>4, <3>5
  <2> QED BY <2>7, <2>8, <2>9, <2>10 DEF AnswersTrue
<1>3. CASE ~isDuplicateOfResult(c) /\ autoMode /\ ~robotBusy /\ ~newTarget
  BY <1>1, <1>3 DEF acceptTarget, takeCommand
<1>4. CASE ~isDuplicateOfResult(c) /\ ~(autoMode /\ ~robotBusy /\ ~newTarget)
  <2>1. PICK s \in {"ACK", "BUSY"} : sendResponse(c, s)
    BY <1>4 DEF acceptTarget, turnAway
  <2>2. UNCHANGED activeCommand BY <1>4 DEF acceptTarget, turnAway
  <2> QED BY <1>1, <2>1, <2>2
<1> QED BY <1>2, <1>3, <1>4

LEMMA ReceiveAnswers ==
  ASSUME TypeOK, AnswerInv, Receive, UNCHANGED <<sent, command>>
  PROVE  AnswerInv'
<1> DEFINE h == Head(toArm)
<1>1. /\ toArm # <<>> /\ toArm' = Tail(toArm) /\ armKeeps
      /\ UNCHANGED <<lastResult, placed, failed>>
  BY DEF Receive, ParseCutFrame, ParseMergedFrame, ParseFrame, armKeeps
<1>2. /\ h \in Frames /\ h.cmd \in Commands /\ h = toArm[1]
      /\ Len(toArm) \in Nat \ {0} /\ Len(toArm') = Len(toArm) - 1
      /\ \A j \in 1 .. Len(toArm') : toArm'[j] = toArm[j + 1]
  BY <1>1, HeadFrame DEF TypeOK
<1>3. 1 \in 1 .. Len(toArm) BY <1>2
<1>4. h.cmd.n \in 1 .. sent /\ (h.kind = "whole" => Known(h.cmd))
  BY <1>2, <1>3 DEF AnswerInv, FramesKnown
<1>5. \A j \in 1 .. Len(toArm') : h.cmd.n < toArm'[j].cmd.n
  BY <1>1, RestIsNewer DEF AnswerInv
<1> HIDE DEF h
<1>6. ASSUME UNCHANGED activeCommand, AnswersTrue' PROVE AnswerInv'
  <2>1. FramesKnown' /\ HeldKnown' /\ KeptKnown'
    BY <1>1, <1>2, <1>6, FewerFrames, Len(toArm') \in Nat, Len(toArm') + 1 <= Len(toArm), 1 \in Nat
  <2> QED BY <1>6, <2>1 DEF AnswerInv
<1>7. ASSUME NEW c \in Commands, c.n = h.cmd.n, refuse(c) PROVE AnswerInv'
  <2>1. Response(c, "NAK") \in Responses BY <1>7, AnswerType DEF Statuses
  <2>2. TrueAnswer(Response(c, "NAK"), sent, command, placed', failed')
    BY <1>4, <1>7 DEF TrueAnswer, Response
  <2>3. toJetson' = Append(toJetson, Response(c, "NAK")) /\ UNCHANGED activeCommand
    BY <1>7 DEF refuse, sendResponse
  <2> HIDE DEF Response
  <2>4. AnswersTrue' BY <1>1, <2>1, <2>2, <2>3, AnswerAdded DEF AnswerInv
  <2> QED BY <1>6, <2>3, <2>4
<1>8. CASE ParseCutFrame
  <2>1. UNCHANGED <<toJetson, activeCommand>> BY <1>8 DEF ParseCutFrame
  <2> QED BY <1>1, <1>6, <2>1 DEF AnswerInv, AnswersTrue
<1>9. CASE ParseMergedFrame
  <2>1. PICK i \in Ids : refuse([h.cmd EXCEPT !.id = i]) BY <1>9 DEF ParseMergedFrame, h
  <2>2. [h.cmd EXCEPT !.id = i] \in Commands /\ [h.cmd EXCEPT !.id = i].n = h.cmd.n
    BY <1>2, CommandMisread
  <2> QED BY <1>7, <2>1, <2>2
<1>10. CASE ParseFrame
  <2>1. CASE refuse(h.cmd) BY <1>2, <1>7, <2>1
  <2>2. CASE acceptTarget(h.cmd) /\ h.kind = "whole"
    <3>1. lastResult # NoResult => lastResult.cmd.n < h.cmd.n
      BY <1>2, <1>3 DEF AnswerInv, KeptKnown
    <3>2. AnswersTrue' /\ (UNCHANGED activeCommand \/ activeCommand' = h.cmd)
      BY <1>1, <1>2, <1>4, <2>2, <3>1, AcceptAnswers
    <3>3. CASE UNCHANGED activeCommand BY <1>6, <3>2, <3>3
    <3>4. CASE activeCommand' = h.cmd
      <4>1. HeldKnown' BY <1>4, <1>5, <2>2, <3>4 DEF HeldKnown, Known
      <4>2. FramesKnown' /\ KeptKnown'
        <5>1. FramesKnown'
          <6>1. \A j \in 1 .. Len(toArm') : j + 1 \in 1 .. Len(toArm) BY <1>2
          <6>2. \A j \in 1 .. Len(toArm') :
                  /\ toArm'[j].cmd.n \in 1 .. sent
                  /\ toArm'[j].kind = "whole" => Known(toArm'[j].cmd)
            BY <1>2, <6>1 DEF AnswerInv, FramesKnown
          <6>3. ASSUME NEW j \in 1 .. Len(toArm'), NEW k \in 1 .. Len(toArm'), j < k
                PROVE  toArm'[j].cmd.n < toArm'[k].cmd.n
            <7>1. j + 1 \in 1 .. Len(toArm) /\ k + 1 \in 1 .. Len(toArm) /\ j + 1 < k + 1
              BY <1>2, <6>3
            <7> QED BY <1>2, <7>1 DEF AnswerInv, FramesKnown
          <6> QED BY <6>2, <6>3 DEF FramesKnown, Known
        <5>2. KeptKnown'
          <6>1. \A j \in 1 .. Len(toArm') : j + 1 \in 1 .. Len(toArm) BY <1>2
          <6> QED BY <1>1, <1>2, <6>1 DEF AnswerInv, KeptKnown, Known
        <5> QED BY <5>1, <5>2
      <4> QED BY <3>2, <4>1, <4>2 DEF AnswerInv
    <3> QED BY <3>2, <3>3, <3>4
  <2>3. refuse(h.cmd) \/ (acceptTarget(h.cmd) /\ h.kind = "whole")
    BY <1>2, <1>10 DEF ParseFrame, Frames, h
  <2> QED BY <2>1, <2>2, <2>3
<1> QED BY <1>8, <1>9, <1>10 DEF Receive

LEMMA FinishAnswers ==
  ASSUME TypeOK, ArmInv, AnswerInv, NEW ok \in BOOLEAN, FinishJob(ok),
         UNCHANGED <<sent, command>>
  PROVE  AnswerInv'
<1> DEFINE s == IF ok THEN "DONE" ELSE "FAULT"
           c == job.cmd
<1>1. job # NoJob /\ c \in Commands /\ c = activeCommand /\ job.target = c
  BY NoCommandAssumption DEF FinishJob, jobOver, ArmInv, JobAnswersItsCommand, TypeOK, ArmTypeOK
<1>2. activeCommand # NoCommand BY <1>1, NoCommandAssumption
<1>3. Known(c) /\ \A j \in 1 .. Len(toArm) : c.n < toArm[j].cmd.n
  BY <1>1, <1>2 DEF AnswerInv, HeldKnown
<1>4. /\ lastResult' = [cmd |-> c, status |-> s] /\ activeCommand' = NoCommand
      /\ sendResponse(c, s) /\ toArm' = toArm
      /\ placed' = IF ok THEN placed \cup {c.n} ELSE placed
      /\ failed' = IF ok THEN failed ELSE failed \cup {c.n}
  BY <1>1 DEF FinishJob, jobOver
<1>5. (s = "DONE" => c.n \in placed') /\ (s = "FAULT" => c.n \in failed') /\ s \in Statuses
  BY <1>4 DEF Statuses
<1> HIDE DEF s, c
<1>6. FramesKnown' BY <1>4 DEF AnswerInv, FramesKnown, Known
<1>7. HeldKnown' BY <1>4 DEF HeldKnown
<1>8. KeptKnown' BY <1>3, <1>4, <1>5 DEF KeptKnown, Known
<1>9. AnswersTrue'
  <2>1. Response(c, s) \in Responses BY <1>1, <1>5, AnswerType
  <2>2. TrueAnswer(Response(c, s), sent, command, placed', failed')
    <3>1. c.n \in 1 .. sent /\ c.n <= c.n /\ matches(command[c.n], command[c.n])
      BY <1>3 DEF Known, TypeOK, matches
    <3> QED BY <1>5, <3>1 DEF TrueAnswer, RanIn, Response
  <2>3. toJetson' = Append(toJetson, Response(c, s)) BY <1>4 DEF sendResponse
  <2>4. placed \subseteq placed' /\ failed \subseteq failed' BY <1>4
  <2> HIDE DEF Response
  <2> QED BY <2>1, <2>2, <2>3, <2>4, AnswerAdded DEF AnswerInv
<1> QED BY <1>6, <1>7, <1>8, <1>9 DEF AnswerInv

\* A power loss forgets what was held and kept, and some of the received frames.
LEMMA ResetAnswers ==
  ASSUME TypeOK, AnswerInv, ResetArm, UNCHANGED <<sent, command>>
  PROVE  AnswerInv'
<1>1. PICK d \in 0 .. Len(toArm) : toArm' = SubSeq(toArm, d + 1, Len(toArm))
  BY DEF ResetArm
<1>2. /\ Len(toArm') = Len(toArm) - d /\ Len(toArm) \in Nat /\ d \in Nat
      /\ \A j \in 1 .. Len(toArm') : toArm'[j] = toArm[j + d] /\ j + d \in 1 .. Len(toArm)
  BY <1>1, SuffixKeeps, LenProperties DEF TypeOK, LinkTypeOK
<1>3. \A j \in 1 .. Len(toArm') :
        /\ toArm'[j].cmd.n \in 1 .. sent
        /\ toArm'[j].kind = "whole" => Known(toArm'[j].cmd)
  BY <1>2 DEF AnswerInv, FramesKnown
<1>4. ASSUME NEW j \in 1 .. Len(toArm'), NEW k \in 1 .. Len(toArm'), j < k
      PROVE  toArm'[j].cmd.n < toArm'[k].cmd.n
  <2>1. j + d < k + d BY <1>2, <1>4
  <2> QED BY <1>2, <2>1 DEF AnswerInv, FramesKnown
<1>5. FramesKnown' BY <1>3, <1>4 DEF FramesKnown, Known
<1>6. activeCommand' = NoCommand /\ lastResult' = NoResult
      /\ UNCHANGED <<toJetson, placed, failed>>
  BY DEF ResetArm
<1>7. AnswersTrue' BY <1>6 DEF AnswerInv, AnswersTrue
<1> QED BY <1>5, <1>6, <1>7 DEF AnswerInv, HeldKnown, KeptKnown

LEMMA FaultAnswers ==
  ASSUME TypeOK, AnswerInv, LinkFault, UNCHANGED <<armVars, sent, command>>
  PROVE  AnswerInv'
<1>1. UNCHANGED <<activeCommand, lastResult, placed, failed>> BY DEF armVars
<1>2. CASE LoseFrame
  <2>1. /\ Len(toArm') = Len(toArm) - 1 /\ Len(toArm) \in Nat \ {0}
        /\ \A j \in 1 .. Len(toArm') : toArm'[j] = toArm[j]
    BY <1>2, PrefixKeeps, EmptySeq DEF LoseFrame, TypeOK, LinkTypeOK
  <2>2. /\ \A j \in 1 .. Len(toArm') : toArm'[j] = toArm[j + 0]
        /\ Len(toArm') \in Nat /\ Len(toArm') + 0 <= Len(toArm) /\ 0 \in Nat
    BY <2>1
  <2>3. FramesKnown' /\ HeldKnown' /\ KeptKnown' BY <1>1, <2>1, <2>2, FewerFrames
  <2> QED BY <1>1, <1>2, <2>3 DEF LoseFrame, AnswerInv, AnswersTrue
<1>3. CASE DamageFrame
  <2>1. /\ Len(toArm') = Len(toArm)
        /\ \A j \in 1 .. Len(toArm) : toArm'[j].cmd.n = toArm[j].cmd.n
        /\ \A j \in 1 .. Len(toArm) : toArm'[j].kind = "whole" => toArm'[j] = toArm[j]
    BY <1>3, DamageKeeps DEF TypeOK
  <2>2. FramesKnown' BY <2>1 DEF AnswerInv, FramesKnown, Known
  <2>3. HeldKnown' BY <1>1, <2>1 DEF AnswerInv, HeldKnown, Known
  <2>4. KeptKnown' BY <1>1, <2>1 DEF AnswerInv, KeptKnown, Known
  <2> QED BY <1>1, <1>3, <2>2, <2>3, <2>4 DEF DamageFrame, AnswerInv, AnswersTrue
<1>4. CASE LoseResponse
  <2>1. /\ Len(toJetson') = Len(toJetson) - 1 /\ Len(toJetson) \in Nat \ {0}
        /\ \A j \in 1 .. Len(toJetson') : toJetson'[j] = toJetson[j]
    BY <1>4, PrefixKeeps, EmptySeq DEF LoseResponse, TypeOK, LinkTypeOK
  <2>2. AnswersTrue' BY <1>1, <2>1 DEF AnswerInv, AnswersTrue
  <2>3. FramesKnown' /\ HeldKnown' /\ KeptKnown'
    BY <1>1, <1>4 DEF LoseResponse, AnswerInv, FramesKnown, HeldKnown, KeptKnown, Known
  <2> QED BY <2>2, <2>3 DEF AnswerInv
<1> QED BY <1>2, <1>3, <1>4 DEF LinkFault

LEMMA SendAnswers ==
  ASSUME TypeOK, AnswerInv, MasterSends
  PROVE  AnswerInv'
<1>1. PICK i \in Ids, t \in Slots \cup {BadSlot}, p \in Points :
        LET c == [id |-> i, slot |-> t, pt |-> p, n |-> sent + 1] IN
          /\ toArm' = Append(toArm, [kind |-> "whole", cmd |-> c])
          /\ command' = Append(command, c)
  BY DEF MasterSends
<1> DEFINE c == [id |-> i, slot |-> t, pt |-> p, n |-> sent + 1]
           f == [kind |-> "whole", cmd |-> c]
<1>2. sent' = sent + 1 /\ sent \in Nat /\ sent' \in 1 .. MaxDispatches
  BY DispatchBound DEF MasterSends, TypeOK
<1>3. c \in Commands /\ c.n = sent + 1 BY <1>2 DEF Commands, Dispatches
<1>4. f \in Frames /\ f.cmd = c BY <1>3 DEF Frames
<1>5. toArm' = Append(toArm, f) /\ command' = Append(command, c) BY <1>1
<1> HIDE DEF c, f
<1>6. command \in Seq(Commands) /\ Len(command) = sent BY <1>2, NumberedSeq DEF TypeOK
<1>7. /\ \A m \in 1 .. sent : command'[m] = command[m]
      /\ command'[sent + 1] = c
  BY <1>3, <1>5, <1>6, AppendProperties
<1>8. /\ Len(toArm) \in Nat /\ Len(toArm') = Len(toArm) + 1
      /\ \A j \in 1 .. Len(toArm) : toArm'[j] = toArm[j]
      /\ toArm'[Len(toArm) + 1] = f
  BY <1>4, <1>5, AppendProperties, LenProperties DEF TypeOK, LinkTypeOK
<1>9. UNCHANGED <<toJetson, activeCommand, lastResult, placed, failed>>
  BY DEF MasterSends, armVars
<1>10. \A j \in 1 .. Len(toArm') : j \in 1 .. Len(toArm) \/ toArm'[j] = f
  BY <1>8
<1>11. FramesKnown'
  <2>1. ASSUME NEW j \in 1 .. Len(toArm')
        PROVE  /\ toArm'[j].cmd.n \in 1 .. sent'
               /\ toArm'[j].kind = "whole" => toArm'[j].cmd = command'[toArm'[j].cmd.n]
    <3>1. CASE j \in 1 .. Len(toArm)
      <4>1. toArm[j].cmd.n \in 1 .. sent /\ (toArm[j].kind = "whole" => Known(toArm[j].cmd))
        BY <3>1 DEF AnswerInv, FramesKnown
      <4> QED BY <1>2, <1>7, <1>8, <3>1, <4>1 DEF Known
    <3>2. CASE toArm'[j] = f BY <1>2, <1>3, <1>4, <1>7, <3>2 DEF Known
    <3> QED BY <1>10, <3>1, <3>2
  <2>2. ASSUME NEW j \in 1 .. Len(toArm'), NEW k \in 1 .. Len(toArm'), j < k
        PROVE  toArm'[j].cmd.n < toArm'[k].cmd.n
    <3>1. j \in 1 .. Len(toArm) BY <1>8, <2>2
    <3>2. toArm'[j].cmd.n = toArm[j].cmd.n /\ toArm[j].cmd.n \in 1 .. sent
      BY <1>8, <3>1 DEF AnswerInv, FramesKnown
    <3>3. CASE k \in 1 .. Len(toArm)
      BY <1>8, <2>2, <3>1, <3>3 DEF AnswerInv, FramesKnown
    <3>4. CASE toArm'[k] = f BY <1>2, <1>3, <1>4, <3>2, <3>4
    <3> QED BY <1>10, <3>3, <3>4
  <2> QED BY <2>1, <2>2 DEF FramesKnown, Known
<1>12. HeldKnown'
  <2> SUFFICES ASSUME activeCommand # NoCommand
      PROVE /\ activeCommand.n \in 1 .. sent' /\ activeCommand = command'[activeCommand.n]
            /\ \A j \in 1 .. Len(toArm') : activeCommand.n < toArm'[j].cmd.n
    BY <1>9 DEF HeldKnown, Known
  <2>1. activeCommand.n \in 1 .. sent /\ activeCommand = command[activeCommand.n]
    BY DEF AnswerInv, HeldKnown, Known
  <2>2. ASSUME NEW j \in 1 .. Len(toArm') PROVE activeCommand.n < toArm'[j].cmd.n
    <3>1. CASE j \in 1 .. Len(toArm) BY <1>8, <3>1 DEF AnswerInv, HeldKnown
    <3>2. CASE toArm'[j] = f BY <1>2, <1>3, <1>4, <2>1, <3>2
    <3> QED BY <1>10, <3>1, <3>2
  <2> QED BY <1>2, <1>7, <2>1, <2>2
<1>13. KeptKnown'
  <2> SUFFICES ASSUME lastResult # NoResult
      PROVE /\ lastResult.cmd.n \in 1 .. sent' /\ lastResult.cmd = command'[lastResult.cmd.n]
            /\ \A j \in 1 .. Len(toArm') : lastResult.cmd.n < toArm'[j].cmd.n
            /\ lastResult.status = "DONE" => lastResult.cmd.n \in placed
            /\ lastResult.status = "FAULT" => lastResult.cmd.n \in failed
    BY <1>9 DEF KeptKnown, Known
  <2>1. /\ lastResult.cmd.n \in 1 .. sent /\ lastResult.cmd = command[lastResult.cmd.n]
        /\ lastResult.status = "DONE" => lastResult.cmd.n \in placed
        /\ lastResult.status = "FAULT" => lastResult.cmd.n \in failed
    BY DEF AnswerInv, KeptKnown, Known
  <2>2. ASSUME NEW j \in 1 .. Len(toArm') PROVE lastResult.cmd.n < toArm'[j].cmd.n
    <3>1. CASE j \in 1 .. Len(toArm) BY <1>8, <3>1 DEF AnswerInv, KeptKnown
    <3>2. CASE toArm'[j] = f BY <1>2, <1>3, <1>4, <2>1, <3>2
    <3> QED BY <1>10, <3>1, <3>2
  <2> QED BY <1>2, <1>7, <2>1, <2>2
<1>14. AnswersTrue'
  <2>1. ASSUME NEW S, S \in SUBSET Dispatches, NEW n \in 1 .. sent, RanIn(S, n, command)
        PROVE  RanIn(S, n, command')
    <3>1. PICK m \in S : m <= n /\ matches(command[m], command[n])
      BY <2>1 DEF RanIn
    <3>2. m \in 1 .. sent BY <1>2, <2>1, <3>1, DispatchBound DEF Dispatches
    <3> QED BY <1>7, <3>1, <3>2 DEF RanIn
  <2>2. placed \in SUBSET Dispatches /\ failed \in SUBSET Dispatches
    BY DEF TypeOK, ArmTypeOK
  <2>3. ASSUME NEW k \in 1 .. Len(toJetson)
        PROVE  TrueAnswer(toJetson[k], sent', command', placed, failed)
    <3>1. TrueAnswer(toJetson[k], sent, command, placed, failed)
      BY DEF AnswerInv, AnswersTrue
    <3> QED BY <1>2, <2>1, <2>2, <3>1 DEF TrueAnswer
  <2> QED BY <1>9, <2>3 DEF AnswersTrue
<1> QED BY <1>11, <1>12, <1>13, <1>14 DEF AnswerInv

LEMMA ReadAnswers ==
  ASSUME TypeOK, AnswerInv, MasterReads
  PROVE  AnswerInv'
<1>1. /\ Len(toJetson') = Len(toJetson) - 1 /\ Len(toJetson) \in Nat \ {0}
      /\ \A j \in 1 .. Len(toJetson') : toJetson'[j] = toJetson[j + 1]
  BY HeadTailProperties, EmptySeq DEF MasterReads, TypeOK, LinkTypeOK
<1>2. \A j \in 1 .. Len(toJetson') : j + 1 \in 1 .. Len(toJetson) BY <1>1
<1>3. UNCHANGED <<toArm, sent, command, activeCommand, lastResult, placed, failed>>
  BY DEF MasterReads, armVars
<1>4. AnswersTrue' BY <1>1, <1>2, <1>3 DEF AnswerInv, AnswersTrue
<1>5. FramesKnown' /\ HeldKnown' /\ KeptKnown'
  BY <1>3 DEF AnswerInv, FramesKnown, HeldKnown, KeptKnown, Known
<1> QED BY <1>4, <1>5 DEF AnswerInv

LEMMA AnswerStep ==
  ASSUME Inv, AnswerInv, [Next]_vars
  PROVE  AnswerInv'
<1>1. ASSUME UNCHANGED <<toArm, toJetson, sent, command, activeCommand, lastResult, placed, failed>>
      PROVE  AnswerInv'
  BY <1>1 DEF AnswerInv, FramesKnown, HeldKnown, KeptKnown, AnswersTrue, Known
<1>2. CASE ArmNext /\ UNCHANGED <<sent, command>>
  <2>1. CASE Receive BY <1>2, <2>1, ReceiveAnswers DEF Inv
  <2>2. CASE TakeJob BY <1>1, <1>2, <2>2 DEF TakeJob, linkVars
  <2>3. ASSUME NEW ok \in BOOLEAN, FinishJob(ok) PROVE AnswerInv'
    BY <1>2, <2>3, FinishAnswers DEF Inv
  <2>4. CASE OtherSteps
    BY <1>1, <1>2, <2>4 DEF OtherSteps, Setup, StartHoming, EndSetup, SkipJob,
       DebugNothing, EndManualMotion, Console, DebugAuto, DebugMotion, armIdleVars, linkVars
  <2>5. CASE ResetArm BY <1>2, <2>5, ResetAnswers DEF Inv
  <2> QED BY <1>2, <2>1, <2>2, <2>3, <2>4, <2>5 DEF ArmNext, Loop, OtherSteps
<1>3. CASE LinkFault /\ UNCHANGED <<armVars, sent, command>>
  BY <1>3, FaultAnswers DEF Inv
<1>4. CASE MasterSends BY <1>4, SendAnswers DEF Inv
<1>5. CASE MasterReads BY <1>5, ReadAnswers DEF Inv
<1>6. CASE UNCHANGED vars BY <1>1, <1>6 DEF vars, armVars, linkVars
<1> QED BY <1>2, <1>3, <1>4, <1>5, <1>6 DEF Next

\* A DONE or a FAULT on the line is true: of that command, or of an earlier and
\* equal one whose result is repeated, a motion ended so.
THEOREM TerminalAnswerHolds == Spec => []TerminalAnswerIsTrue
<1>1. Init => AnswerInv
  <2> SUFFICES ASSUME Init PROVE AnswerInv OBVIOUS
  <2>1. toArm = <<>> /\ toJetson = <<>> /\ activeCommand = NoCommand /\ lastResult = NoResult
    BY DEF Init, LinkInit, ArmInit
  <2>2. Len(toArm) = 0 /\ Len(toJetson) = 0 BY <2>1
  <2> QED BY <2>1, <2>2 DEF AnswerInv, FramesKnown, HeldKnown, KeptKnown, AnswersTrue
<1>2. Inv /\ AnswerInv /\ [Next]_vars => AnswerInv'
  BY AnswerStep
<1>3. AnswerInv => TerminalAnswerIsTrue
  BY DEF AnswerInv, AnswersTrue, TrueAnswer, RanIn, TerminalAnswerIsTrue
<1> QED
  BY <1>1, <1>2, <1>3, InvAlways, PTL DEF Spec
=============================================================================

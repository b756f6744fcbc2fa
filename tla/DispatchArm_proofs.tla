------------------------- MODULE DispatchArm_proofs --------------------------
(***************************************************************************)
(* The dispatcher and the arm, for every number of dispatches, identifiers,*)
(* retries, damaged frames, console commands, resets and restarts: types,  *)
(* motions in the order of dispatch, at most one motion per dispatch, true *)
(* reports, and the abstract placement service.                            *)
(***************************************************************************)
EXTENDS DispatchArm, OpenRbArm_proofs

\* A dispatch has a verdict exactly when it is not the one under way.
VerdictsGiven ==
  \A n \in Dispatches :
    report[n] # "none" <=> n < dispatched \/ (n = dispatched /\ phase = "idle")

Inv == TypeOK /\ ArmInv /\ DispatchInv /\ VerdictsGiven
-----------------------------------------------------------------------------
(* How the two lines change.                                               *)

\* What is on the line to the arm was there before, k places further back,
\* with its number, and unaltered if it is whole.
ShiftedBy(k) ==
  /\ Len(toArm') \in Nat /\ Len(toArm') + k <= Len(toArm)
  /\ \A j \in 1 .. Len(toArm') :
       /\ toArm'[j].cmd.n = toArm[j + k].cmd.n
       /\ toArm'[j].kind = "whole" => toArm'[j] = toArm[j + k]

LineKept == \E k \in Nat : ShiftedBy(k)

\* Every answer on the line to the Jetson was there before, or is none that
\* tells the end of a motion.
AnswersKept ==
  \A k \in 1 .. Len(toJetson') :
    \/ \E j \in 1 .. Len(toJetson) : toJetson'[k] = toJetson[j]
    \/ toJetson'[k].status \in {"ACK", "NAK", "BUSY"}

LEMMA TailKept ==
  ASSUME LinkTypeOK, toArm # <<>>, toArm' = Tail(toArm)
  PROVE  LineKept
<1>1. ShiftedBy(1)
  BY HeadFrame DEF ShiftedBy
<1> QED
  BY <1>1 DEF LineKept

LEMMA SameLineKept ==
  ASSUME LinkTypeOK, toArm' = toArm
  PROVE  LineKept
<1>1. ShiftedBy(0)
  BY LenProperties DEF ShiftedBy, LinkTypeOK
<1> QED
  BY <1>1 DEF LineKept

LEMMA SuffixLineKept ==
  ASSUME LinkTypeOK, NEW k \in 0 .. Len(toArm),
         toArm' = SubSeq(toArm, k + 1, Len(toArm))
  PROVE  LineKept
<1>1. Len(toArm) \in Nat
  BY LenProperties DEF LinkTypeOK
<1>2. /\ Len(toArm') = Len(toArm) - k
      /\ \A j \in 1 .. Len(toArm) - k : toArm'[j] = toArm[j + k]
  BY SuffixKeeps DEF LinkTypeOK
<1>3. k \in Nat /\ ShiftedBy(k)
  BY <1>1, <1>2 DEF ShiftedBy
<1> QED
  BY <1>3 DEF LineKept

LEMMA SameAnswersKept ==
  ASSUME LinkTypeOK, toJetson' = toJetson
  PROVE  AnswersKept
BY DEF AnswersKept

LEMMA TailAnswersKept ==
  ASSUME LinkTypeOK, toJetson # <<>>, toJetson' = Tail(toJetson)
  PROVE  /\ AnswersKept
         /\ Head(toJetson) = toJetson[1] /\ 1 \in 1 .. Len(toJetson)
         /\ Head(toJetson) \in Responses
         /\ toJetson' \in Seq(Responses)
<1>1. Len(toJetson) \in Nat \ {0}
  BY EmptySeq DEF LinkTypeOK
<1>2. /\ Len(toJetson') = Len(toJetson) - 1
      /\ \A j \in 1 .. Len(toJetson') : toJetson'[j] = toJetson[j + 1]
      /\ toJetson' \in Seq(Responses) /\ Head(toJetson) \in Responses
  BY HeadTailProperties DEF LinkTypeOK
<1>3. Head(toJetson) = toJetson[1]
  BY <1>1 DEF LinkTypeOK
<1>4. \A j \in 1 .. Len(toJetson') : j + 1 \in 1 .. Len(toJetson)
  BY <1>1, <1>2
<1> QED
  BY <1>1, <1>2, <1>3, <1>4 DEF AnswersKept

LEMMA SuffixAnswersKept ==
  ASSUME LinkTypeOK, NEW k \in 0 .. Len(toJetson),
         toJetson' = SubSeq(toJetson, k + 1, Len(toJetson))
  PROVE  AnswersKept /\ toJetson' \in Seq(Responses)
<1>1. Len(toJetson) \in Nat
  BY LenProperties DEF LinkTypeOK
<1>2. /\ toJetson' \in Seq(Responses)
      /\ Len(toJetson') = Len(toJetson) - k
      /\ \A j \in 1 .. Len(toJetson) - k : toJetson'[j] = toJetson[j + k]
  BY SuffixKeeps DEF LinkTypeOK
<1>3. \A j \in 1 .. Len(toJetson') : j + k \in 1 .. Len(toJetson)
  BY <1>1, <1>2
<1> QED
  BY <1>1, <1>2, <1>3 DEF AnswersKept

LEMMA SendKept ==
  ASSUME LinkTypeOK, NEW c \in Commands, NEW s \in {"ACK", "NAK", "BUSY"},
         sendResponse(c, s)
  PROVE  AnswersKept
<1>1. Len(toJetson) \in Nat
  BY LenProperties DEF LinkTypeOK
<1>2. Response(c, s) \in Responses
  BY AnswerType DEF Statuses
<1>3. /\ Len(toJetson') = Len(toJetson) + 1
      /\ \A j \in 1 .. Len(toJetson) : toJetson'[j] = toJetson[j]
      /\ toJetson'[Len(toJetson) + 1] = Response(c, s)
  BY <1>2, AppendProperties DEF LinkTypeOK, sendResponse
<1>4. toJetson'[Len(toJetson) + 1].status = s
  BY <1>3 DEF Response
<1> QED
  BY <1>1, <1>3, <1>4 DEF AnswersKept

\* The faults of the lines add nothing.
LEMMA LinkFaultKeeps ==
  ASSUME LinkTypeOK, LinkFault
  PROVE  LineKept /\ AnswersKept
<1>1. CASE LoseFrame
  <2>1. /\ Len(toArm') = Len(toArm) - 1 /\ Len(toArm) \in Nat \ {0}
        /\ \A j \in 1 .. Len(toArm) - 1 : toArm'[j] = toArm[j]
    BY <1>1, PrefixKeeps, EmptySeq DEF LoseFrame, LinkTypeOK
  <2>2. ShiftedBy(0)
    BY <2>1 DEF ShiftedBy
  <2> QED
    BY <1>1, <2>2, SameAnswersKept DEF LineKept, LoseFrame
<1>2. CASE DamageFrame
  <2>1. /\ Len(toArm') = Len(toArm) /\ Len(toArm) \in Nat
        /\ \A j \in 1 .. Len(toArm) : toArm'[j].cmd.n = toArm[j].cmd.n
        /\ \A j \in 1 .. Len(toArm) :
             toArm'[j].kind = "whole" => toArm'[j] = toArm[j]
    BY <1>2, DamageKeeps, LenProperties DEF LinkTypeOK
  <2>2. ShiftedBy(0)
    BY <2>1 DEF ShiftedBy
  <2> QED
    BY <1>2, <2>2, SameAnswersKept DEF LineKept, DamageFrame
<1>3. CASE LoseResponse
  <2>1. /\ Len(toJetson') = Len(toJetson) - 1 /\ Len(toJetson) \in Nat \ {0}
        /\ \A j \in 1 .. Len(toJetson) - 1 : toJetson'[j] = toJetson[j]
    BY <1>3, PrefixKeeps, EmptySeq DEF LoseResponse, LinkTypeOK
  <2>2. AnswersKept
    BY <2>1 DEF AnswersKept
  <2> QED
    BY <1>3, <2>2, SameLineKept DEF LoseResponse
<1> QED
  BY <1>1, <1>2, <1>3 DEF LinkFault
-----------------------------------------------------------------------------
(* What a line that adds nothing keeps of the invariant.                   *)

LEMMA LineKeptFacts ==
  ASSUME LinkTypeOK, CommandsKnown, LineInOrder, LineKept,
         UNCHANGED <<dispatched, issued>>
  PROVE  /\ LineKnown'
         /\ \A j, k \in 1 .. Len(toArm') :
              j <= k => toArm'[j].cmd.n <= toArm'[k].cmd.n
         /\ \A x : (\A j \in 1 .. Len(toArm) : x <= toArm[j].cmd.n) =>
                   \A j \in 1 .. Len(toArm') : x <= toArm'[j].cmd.n
<1>1. PICK d \in Nat : ShiftedBy(d)
  BY DEF LineKept
<1>2. Len(toArm) \in Nat
  BY LenProperties DEF LinkTypeOK
<1>3. \A j \in 1 .. Len(toArm') :
        /\ j + d \in 1 .. Len(toArm)
        /\ toArm'[j].cmd.n = toArm[j + d].cmd.n
        /\ toArm'[j].kind = "whole" => toArm'[j] = toArm[j + d]
  BY <1>1, <1>2 DEF ShiftedBy
<1>4. LineKnown
  BY DEF CommandsKnown
<1>5. LineKnown'
  BY <1>3, <1>4 DEF LineKnown, Known
<1>6. \A j, k \in 1 .. Len(toArm') : j <= k => toArm'[j].cmd.n <= toArm'[k].cmd.n
  <2>1. TAKE j, k \in 1 .. Len(toArm')
  <2>2. HAVE j <= k
  <2>3. Len(toArm') \in Nat
    BY <1>1 DEF ShiftedBy
  <2>4. j + d <= k + d
    BY <2>2, <2>3, <1>1
  <2> QED
    BY <1>3, <2>4 DEF LineInOrder
<1> QED
  BY <1>3, <1>5, <1>6

LEMMA CommandsKnownKept ==
  ASSUME LinkTypeOK, CommandsKnown, LineInOrder, LineKept,
         UNCHANGED <<dispatched, issued, starts, activeCommand, robotBusy, lastResult,
                     cmd>>,
         phase' = "idle" <=> phase = "idle"
  PROVE  CommandsKnown'
<1>1. LineKnown'
  BY LineKeptFacts
<1> QED
  BY <1>1 DEF CommandsKnown, Known

LEMMA LineInOrderKept ==
  ASSUME LinkTypeOK, CommandsKnown, LineInOrder, LineKept,
         UNCHANGED <<dispatched, issued, starts>>,
         activeCommand' \in {activeCommand, NoCommand}
  PROVE  LineInOrder'
<1>1. /\ \A j, k \in 1 .. Len(toArm') :
           j <= k => toArm'[j].cmd.n <= toArm'[k].cmd.n
      /\ \A x : (\A j \in 1 .. Len(toArm) : x <= toArm[j].cmd.n) =>
                \A j \in 1 .. Len(toArm') : x <= toArm'[j].cmd.n
  BY LineKeptFacts
<1>2. activeCommand' # NoCommand =>
        \A j \in 1 .. Len(toArm') : activeCommand'.n <= toArm'[j].cmd.n
  BY <1>1 DEF LineInOrder
<1>3. \A m \in Dispatches : starts'[m] > 0 =>
        /\ m <= dispatched'
        /\ activeCommand' # NoCommand => m <= activeCommand'.n
        /\ \A j \in 1 .. Len(toArm') : m <= toArm'[j].cmd.n
  BY <1>1 DEF LineInOrder
<1> QED
  BY <1>1, <1>2, <1>3 DEF LineInOrder

LEMMA StartedKept ==
  ASSUME StartedIsRemembered,
         UNCHANGED <<resets, starts, newTarget, activeCommand, robotBusy, lastResult>>
  PROVE  StartedIsRemembered'
BY DEF StartedIsRemembered

LEMMA AnswersTrueKept ==
  ASSUME AnswersTrue, AnswersKept, UNCHANGED <<dispatched, issued, placed, failed>>
  PROVE  AnswersTrue'
BY DEF AnswersTrue, AnswersKept

LEMMA ResultsKept ==
  ASSUME ResultsAreTrue, AnswersKept,
         UNCHANGED <<restarts, dispatched, issued, firstId, commandId, lastResult,
                     placed, failed>>,
         phase' = "idle" <=> phase = "idle"
  PROVE  ResultsAreTrue'
<1>1. SUFFICES ASSUME NoIdReuse'
               PROVE  IdsCounted' /\ KeptResultTrue' /\ AnswersTrue'
  BY DEF ResultsAreTrue
<1>2. IdsCounted /\ KeptResultTrue /\ AnswersTrue
  BY <1>1 DEF NoIdReuse, ResultsAreTrue
<1>3. AnswersTrue'
  BY <1>2, AnswersTrueKept
<1>4. IdsCounted' /\ KeptResultTrue'
  BY <1>2 DEF IdsCounted, KeptResultTrue, idOf
<1> QED
  BY <1>3, <1>4

\* A step that adds nothing to the lines and changes nothing else the
\* invariant speaks of.
LEMMA QuietStep ==
  ASSUME LinkTypeOK, DispatchInv, LineKept, AnswersKept,
         UNCHANGED <<dispatched, issued, starts, activeCommand, lastResult, cmd,
                     resets, newTarget, robotBusy, restarts, firstId, commandId,
                     placed, failed, report>>,
         phase' = "idle" <=> phase = "idle"
  PROVE  DispatchInv'
<1>1. CommandsKnown' /\ LineInOrder' /\ StartedIsRemembered' /\ ResultsAreTrue'
  BY CommandsKnownKept, LineInOrderKept, StartedKept, ResultsKept DEF DispatchInv
<1>2. ReportIsTrue'
  BY DEF DispatchInv, ReportIsTrue, NoIdReuse
<1> QED
  BY <1>1, <1>2 DEF DispatchInv
-----------------------------------------------------------------------------
(* The steps of the arm.                                                   *)

\* The frame the receiver is at: everything started is of its dispatch or an
\* older one, everything behind it is of its dispatch or a newer one.
LEMMA HeadInOrder ==
  ASSUME LinkTypeOK, CommandsKnown, LineInOrder, toArm # <<>>
  PROVE  /\ Head(toArm).kind = "whole" => Known(Head(toArm).cmd)
         /\ \A m \in Dispatches : starts[m] > 0 => m <= Head(toArm).cmd.n
         /\ \A j \in 1 .. Len(toArm) : Head(toArm).cmd.n <= toArm[j].cmd.n
<1>1. Head(toArm) = toArm[1] /\ Len(toArm) \in Nat \ {0}
  BY HeadFrame
<1>2. 1 \in 1 .. Len(toArm)
  BY <1>1
<1> QED
  BY <1>1, <1>2 DEF CommandsKnown, LineKnown, LineInOrder

\* A repeated command is the command of the kept result, if identifiers do not
\* repeat.
LEMMA IdsDiffer ==
  ASSUME TypeOK, CommandsKnown, NoIdReuse, IdsCounted,
         NEW m \in 1 .. dispatched, NEW n \in 1 .. dispatched,
         issued[m].id = issued[n].id
  PROVE  m = n
<1>1. idOf(m) = idOf(n)
  BY DEF IdsCounted
<1>2. /\ dispatched \in Nat /\ dispatched <= IdMod /\ IdMod \in Nat
      /\ firstId \in 0 .. IdMod - 1
  BY DispatchBound, IdModAssumption DEF TypeOK, TransportTypeOK, NoIdReuse, Ids
<1> QED
  BY <1>1, <1>2 DEF idOf

LEMMA RepeatedResultStep ==
  ASSUME TypeOK, DispatchInv, toArm # <<>>, toArm' = Tail(toArm),
         NEW c, c = Head(toArm).cmd, Known(c), c \in Commands,
         isDuplicateOfResult(c),
         toJetson' = toJetson \o <<Response(c, "ACK"), Response(c, lastResult.status)>>,
         UNCHANGED <<armVars, transportVars>>
  PROVE  DispatchInv'
<1> USE DEF armVars, transportVars
<1>1. LineKept
  BY TailKept DEF TypeOK
<1>2. CommandsKnown' /\ LineInOrder' /\ StartedIsRemembered' /\ ReportIsTrue'
  BY <1>1, CommandsKnownKept, LineInOrderKept, StartedKept
     DEF DispatchInv, TypeOK, ReportIsTrue, NoIdReuse
<1>3. ASSUME NoIdReuse'
      PROVE  IdsCounted' /\ KeptResultTrue' /\ AnswersTrue'
  <2>1. NoIdReuse /\ IdsCounted /\ KeptResultTrue /\ AnswersTrue
    BY <1>3 DEF NoIdReuse, ResultsAreTrue, DispatchInv
  <2>2. IdsCounted' /\ KeptResultTrue'
    BY <2>1 DEF IdsCounted, KeptResultTrue, idOf
  <2>3. /\ lastResult # NoResult /\ lastResult.cmd \in Commands
        /\ lastResult.status \in {"DONE", "FAULT"} /\ Known(lastResult.cmd)
        /\ c.id = lastResult.cmd.id
    BY DEF isDuplicateOfResult, matches, DispatchInv, CommandsKnown, TypeOK, ArmTypeOK
  <2>4. c.n \in 1 .. dispatched /\ lastResult.cmd.n \in 1 .. dispatched
    BY <2>3, CommandFields, DispatchBound DEF Known, Dispatches, TypeOK,
       TransportTypeOK
  <2>5. c.n = lastResult.cmd.n
    BY <2>1, <2>3, <2>4, IdsDiffer DEF Known, DispatchInv
  <2> DEFINE a == Response(c, "ACK")
             t == Response(c, lastResult.status)
  <2>6. a \in Responses /\ t \in Responses
    BY <2>3, AnswerType DEF Statuses
  <2>7. a.status = "ACK" /\ t.status = lastResult.status /\ t.n = c.n /\ t.id = c.id
    BY DEF Response
  <2> HIDE DEF a, t
  <2>8. Len(toJetson) \in Nat /\ toJetson \in Seq(Responses)
    BY LenProperties DEF TypeOK, LinkTypeOK
  <2>9. toJetson' = toJetson \o <<a, t>>
    BY DEF a, t
  <2>10. <<a, t>> \in Seq(Responses) /\ Len(<<a, t>>) = 2
         /\ <<a, t>>[1] = a /\ <<a, t>>[2] = t
    BY <2>6
  <2>11. \A k \in 1 .. Len(toJetson') :
           \/ k \in 1 .. Len(toJetson) /\ toJetson'[k] = toJetson[k]
           \/ toJetson'[k] \in {a, t}
    <3>1. /\ Len(toJetson') = Len(toJetson) + 2
          /\ \A k \in 1 .. Len(toJetson) + 2 :
               toJetson'[k] = IF k <= Len(toJetson) THEN toJetson[k]
                              ELSE <<a, t>>[k - Len(toJetson)]
      BY <2>8, <2>9, <2>10, ConcatProperties
    <3>2. TAKE k \in 1 .. Len(toJetson')
    <3>3. CASE k <= Len(toJetson)
      BY <2>8, <3>1, <3>3
    <3>4. CASE k > Len(toJetson)
      <4>1. k - Len(toJetson) \in {1, 2}
        BY <2>8, <3>1, <3>4
      <4> QED
        BY <2>8, <2>10, <3>1, <3>4, <4>1
    <3> QED
      BY <2>8, <3>1, <3>3, <3>4
  <2>12. /\ t.n \in 1 .. dispatched /\ t.id = issued[t.n].id
         /\ t.status = "DONE" => t.n \in placed
         /\ t.status = "FAULT" => t.n \in failed
    BY <2>1, <2>3, <2>4, <2>5, <2>7 DEF Known, KeptResultTrue
  <2>13. AnswersTrue'
    <3>1. UNCHANGED <<dispatched, issued, placed, failed>>
      OBVIOUS
    <3>2. ASSUME NEW k \in 1 .. Len(toJetson'), toJetson'[k].status \in {"DONE", "FAULT"}
          PROVE  /\ toJetson'[k].n \in 1 .. dispatched
                 /\ toJetson'[k].id = issued[toJetson'[k].n].id
                 /\ toJetson'[k].status = "DONE" => toJetson'[k].n \in placed
                 /\ toJetson'[k].status = "FAULT" => toJetson'[k].n \in failed
      <4>1. CASE k \in 1 .. Len(toJetson) /\ toJetson'[k] = toJetson[k]
        BY <2>1, <3>2, <4>1 DEF AnswersTrue
      <4>2. CASE toJetson'[k] = t
        BY <2>12, <4>2
      <4>3. CASE toJetson'[k] = a
        BY <2>7, <3>2, <4>3
      <4> QED
        BY <2>11, <4>1, <4>2, <4>3
    <3> QED
      BY <3>1, <3>2 DEF AnswersTrue
  <2> QED
    BY <2>2, <2>13
<1> QED
  BY <1>2, <1>3 DEF DispatchInv, ResultsAreTrue

\* Accepting a command: had it been started before, it would be the one of the
\* kept result, which is not accepted.
LEMMA AcceptNewStep ==
  ASSUME TypeOK, ArmInv, DispatchInv, toArm # <<>>, toArm' = Tail(toArm),
         NEW c, c = Head(toArm).cmd, Known(c), c \in Commands,
         ~isDuplicateOfResult(c), ~robotBusy, ~newTarget,
         activeCommand' = c, newTarget' = TRUE, sendResponse(c, "ACK"),
         armKeeps, UNCHANGED transportVars
  PROVE  DispatchInv'
<1> USE DEF armKeeps, transportVars
<1>1. LineKept /\ AnswersKept
  BY TailKept, SendKept DEF TypeOK
<1>2. c # NoCommand /\ activeCommand = NoCommand
  BY NoCommandAssumption DEF ArmInv, CommandSlotInStep
<1>3. /\ LineKnown'
      /\ \A j, k \in 1 .. Len(toArm') :
           j <= k => toArm'[j].cmd.n <= toArm'[k].cmd.n
      /\ \A x : (\A j \in 1 .. Len(toArm) : x <= toArm[j].cmd.n) =>
                \A j \in 1 .. Len(toArm') : x <= toArm'[j].cmd.n
  BY <1>1, LineKeptFacts DEF TypeOK, DispatchInv
<1>4. /\ \A m \in Dispatches : starts[m] > 0 => m <= c.n
      /\ \A j \in 1 .. Len(toArm) : c.n <= toArm[j].cmd.n
  BY HeadInOrder DEF TypeOK, DispatchInv
<1>5. CommandsKnown'
  BY <1>3 DEF DispatchInv, CommandsKnown, Known
<1>6. LineInOrder'
  <2>1. \A j \in 1 .. Len(toArm') : c.n <= toArm'[j].cmd.n
    BY <1>3, <1>4
  <2>2. \A m \in Dispatches : starts'[m] > 0 =>
          /\ m <= dispatched'
          /\ m <= activeCommand'.n
          /\ \A j \in 1 .. Len(toArm') : m <= toArm'[j].cmd.n
    BY <1>3, <1>4 DEF DispatchInv, LineInOrder
  <2> QED
    BY <1>3, <2>1, <2>2 DEF LineInOrder
<1>7. StartedIsRemembered'
  <2>1. SUFFICES ASSUME resets = 0
                 PROVE  /\ \A m \in Dispatches : starts[m] <= 1
                        /\ starts[c.n] = 0
                        /\ \A m \in Dispatches : starts[m] > 0 =>
                             lastResult # NoResult /\ m <= lastResult.cmd.n
    BY DEF StartedIsRemembered
  <2>2. /\ \A m \in Dispatches : starts[m] <= 1
        /\ \A m \in Dispatches : starts[m] > 0 =>
             lastResult # NoResult /\ m <= lastResult.cmd.n
    BY <2>1 DEF DispatchInv, StartedIsRemembered
  <2>3. ASSUME starts[c.n] > 0 PROVE FALSE
    <3>1. lastResult # NoResult /\ c.n <= lastResult.cmd.n /\ c.n \in Dispatches
      BY <2>2, <2>3, CommandFields
    <3>2. lastResult.cmd \in Commands /\ lastResult.cmd.n \in Dispatches
      BY <3>1, CommandFields DEF TypeOK, ArmTypeOK
    <3>3. starts[lastResult.cmd.n] > 0 /\ Known(lastResult.cmd)
      BY <3>1 DEF DispatchInv, CommandsKnown
    <3>4. lastResult.cmd.n <= c.n
      BY <1>4, <3>2, <3>3
    <3>5. c.n = lastResult.cmd.n
      BY <3>1, <3>2, <3>4 DEF Dispatches
    <3>6. c = lastResult.cmd
      BY <3>3, <3>5 DEF Known
    <3> QED
      BY <3>1, <3>6 DEF isDuplicateOfResult, matches
  <2>4. starts[c.n] \in Nat
    BY CommandFields DEF TypeOK, ArmTypeOK
  <2> QED
    BY <2>2, <2>3, <2>4
<1>8. ResultsAreTrue'
  BY <1>1, ResultsKept DEF DispatchInv
<1>9. ReportIsTrue'
  BY DEF DispatchInv, ReportIsTrue, NoIdReuse
<1> QED
  BY <1>5, <1>6, <1>7, <1>8, <1>9 DEF DispatchInv

LEMMA ReceiveStep ==
  ASSUME TypeOK, ArmInv, DispatchInv, Receive, UNCHANGED transportVars
  PROVE  DispatchInv'
<1>1. toArm # <<>> /\ toArm' = Tail(toArm) /\ armKeeps
  BY DEF Receive, ParseCutFrame, ParseMergedFrame, ParseFrame
<1>2. LineKept
  BY <1>1, TailKept DEF TypeOK
<1>3. CASE UNCHANGED <<newTarget, activeCommand, target>> /\ AnswersKept
  BY <1>1, <1>2, <1>3, QuietStep DEF TypeOK, armKeeps, transportVars
<1>4. Head(toArm).cmd \in Commands
  BY <1>1, HeadFrame DEF TypeOK
<1>5. CASE ParseCutFrame
  BY <1>3, <1>5, SameAnswersKept DEF ParseCutFrame, TypeOK
<1>6. CASE ParseMergedFrame
  <2>1. PICK i \in Ids : refuse([Head(toArm).cmd EXCEPT !.id = i])
    BY <1>6 DEF ParseMergedFrame
  <2>2. [Head(toArm).cmd EXCEPT !.id = i] \in Commands
    BY <1>4, CommandMisread
  <2> QED
    BY <1>3, <2>1, <2>2, SendKept DEF refuse, TypeOK
<1>7. CASE ParseFrame /\ refuse(Head(toArm).cmd)
  BY <1>3, <1>4, <1>7, SendKept DEF refuse, TypeOK
<1>8. CASE ParseFrame /\ ~refuse(Head(toArm).cmd)
  <2> DEFINE c == Head(toArm).cmd
  <2>1. Head(toArm).kind # "badCrc" /\ Head(toArm).kind # "cut" /\ acceptTarget(c)
    BY <1>8 DEF ParseFrame
  <2>2. Head(toArm).kind = "whole"
    BY <1>1, <2>1, HeadFrame DEF Frames, TypeOK
  <2>3. Known(c)
    BY <1>1, <2>2, HeadInOrder DEF TypeOK, DispatchInv
  <2>4. rxCut' = rxCut
    BY <1>8 DEF ParseFrame
  <2> HIDE DEF c
  <2>5. c \in Commands /\ c = Head(toArm).cmd
    BY <1>4 DEF c
  <2>6. CASE isDuplicateOfResult(c)
    <3>1. UNCHANGED armVars
      BY <1>1, <2>1, <2>4, <2>6 DEF acceptTarget, repeatResult, takeCommand,
         turnAway, armKeeps, armVars
    <3> QED
      BY <1>1, <2>1, <2>3, <2>5, <2>6, <3>1, RepeatedResultStep
         DEF acceptTarget, repeatResult, takeCommand, turnAway
  <2>7. CASE ~isDuplicateOfResult(c) /\ autoMode /\ ~robotBusy /\ ~newTarget
    <3>1. /\ activeCommand' = c /\ newTarget' = TRUE /\ sendResponse(c, "ACK")
      BY <2>1, <2>7 DEF acceptTarget, repeatResult, takeCommand, turnAway
    <3> QED
      BY <1>1, <2>3, <2>5, <2>7, <3>1, AcceptNewStep
  <2>8. CASE ~isDuplicateOfResult(c) /\ ~(autoMode /\ ~robotBusy /\ ~newTarget)
    <3>1. PICK s \in {"ACK", "BUSY"} : sendResponse(c, s)
      BY <2>1, <2>8 DEF acceptTarget, repeatResult, takeCommand, turnAway
    <3>2. UNCHANGED <<newTarget, activeCommand, target>>
      BY <2>1, <2>8 DEF acceptTarget, repeatResult, takeCommand, turnAway
    <3> QED
      BY <1>3, <2>5, <3>1, <3>2, SendKept DEF TypeOK
  <2> QED
    BY <2>6, <2>7, <2>8
<1> QED
  BY <1>5, <1>6, <1>7, <1>8 DEF Receive

\* Starting the accepted command: nothing newer has been started, and it has not
\* been started itself unless a reset made the arm forget.
LEMMA TakeJobStep ==
  ASSUME TypeOK, ArmInv, DispatchInv, TakeJob, UNCHANGED transportVars
  PROVE  DispatchInv'
<1> DEFINE n == target.n
<1>1. /\ activeCommand = target /\ target \in Commands /\ target # NoCommand
      /\ n \in Dispatches /\ starts[n] \in Nat
  BY TakeJobType, NoCommandAssumption DEF TypeOK, ArmInv
<1>2. /\ UNCHANGED <<activeCommand, lastResult, resets, placed, failed, toArm, toJetson>>
      /\ starts' = [starts EXCEPT ![n] = @ + 1]
      /\ newTarget /\ newTarget' = FALSE /\ robotBusy' = TRUE
  BY DEF TakeJob, linkVars
<1>3. /\ starts'[n] = starts[n] + 1
      /\ \A m \in Dispatches : m # n => starts'[m] = starts[m]
      /\ \A m \in Dispatches : starts[m] \in Nat
  BY <1>1, <1>2 DEF TypeOK, ArmTypeOK
<1>4. LineKept /\ AnswersKept
  BY <1>2, SameLineKept, SameAnswersKept DEF TypeOK
<1>5. Known(activeCommand)
  BY <1>1 DEF DispatchInv, CommandsKnown
<1> HIDE DEF n
<1>6. CommandsKnown'
  <2>1. lastResult # NoResult => lastResult.cmd.n \in Dispatches
    BY CommandFields DEF TypeOK, ArmTypeOK
  <2>2. lastResult # NoResult => starts'[lastResult.cmd.n] > 0
    BY <1>1, <1>3, <2>1 DEF DispatchInv, CommandsKnown
  <2>3. starts'[activeCommand.n] > 0
    BY <1>1, <1>3 DEF n
  <2> QED
    BY <1>2, <2>2, <2>3 DEF DispatchInv, CommandsKnown, LineKnown, Known,
       transportVars
<1>7. activeCommand.n = n /\ n <= dispatched
  BY <1>1, <1>5 DEF n, Known
<1>8. LineInOrder'
  <2>1. \A m \in Dispatches : starts'[m] > 0 =>
          /\ m <= dispatched
          /\ m <= activeCommand.n
          /\ \A j \in 1 .. Len(toArm) : m <= toArm[j].cmd.n
    <3>1. TAKE m \in Dispatches
    <3>2. CASE m = n
      BY <1>1, <1>7, <3>2 DEF DispatchInv, LineInOrder, Dispatches
    <3>3. CASE m # n
      BY <1>1, <1>3, <3>3 DEF DispatchInv, LineInOrder
    <3> QED
      BY <3>2, <3>3
  <2> QED
    BY <1>1, <1>2, <2>1 DEF DispatchInv, LineInOrder, transportVars
<1>9. StartedIsRemembered'
  <2>1. SUFFICES ASSUME resets = 0
                 PROVE  /\ \A m \in Dispatches : starts'[m] <= 1
                        /\ \A m \in Dispatches : starts'[m] > 0 /\ m # n =>
                             lastResult # NoResult /\ m <= lastResult.cmd.n
    BY <1>2, <1>7 DEF StartedIsRemembered
  <2>2. /\ starts[n] = 0
        /\ \A m \in Dispatches : starts[m] <= 1
        /\ \A m \in Dispatches : starts[m] > 0 =>
             lastResult # NoResult /\ m <= lastResult.cmd.n
    BY <1>2, <1>7, <2>1 DEF DispatchInv, StartedIsRemembered, ArmInv,
       CommandSlotInStep
  <2> QED
    BY <1>3, <2>2
<1>10. ResultsAreTrue' /\ ReportIsTrue'
  BY <1>2, <1>4, ResultsKept DEF DispatchInv, transportVars, ReportIsTrue, NoIdReuse
<1> QED
  BY <1>6, <1>8, <1>9, <1>10 DEF DispatchInv

\* The end of a motion: its command becomes the kept result, and its answer is
\* true of it.
LEMMA FinishJobStep ==
  ASSUME TypeOK, ArmInv, DispatchInv, NEW ok \in BOOLEAN, FinishJob(ok),
         UNCHANGED transportVars
  PROVE  DispatchInv'
<1> DEFINE c == activeCommand
           st == IF ok THEN "DONE" ELSE "FAULT"
           r == Response(c, st)
<1>1. job # NoJob /\ robotBusy /\ ~newTarget
  BY DEF FinishJob, jobOver, ArmInv, CommandSlotInStep
<1>2. job.cmd = c /\ job.target = c /\ c # NoCommand /\ c \in Commands
  BY <1>1 DEF ArmInv, JobAnswersItsCommand, CommandSlotInStep, TypeOK, ArmTypeOK
<1>3. Known(c) /\ c.n \in Dispatches /\ c.n \in 1 .. dispatched
  BY <1>2, CommandFields, DispatchBound
     DEF DispatchInv, CommandsKnown, Known, Dispatches, TypeOK, TransportTypeOK
<1>0. lastResult' # NoResult
  BY <1>1, FinishJobType DEF TypeOK
<1>4. /\ lastResult' = [cmd |-> c, status |-> st] /\ sendResponse(c, st)
      /\ lastResult' # NoResult
      /\ activeCommand' = NoCommand /\ robotBusy' = FALSE /\ newTarget' = FALSE
      /\ placed' = IF ok THEN placed \cup {c.n} ELSE placed
      /\ failed' = IF ok THEN failed ELSE failed \cup {c.n}
      /\ UNCHANGED <<resets, starts, toArm>>
  BY <1>0, <1>1, <1>2 DEF FinishJob, jobOver
<1>5. LineKept
  BY <1>4, SameLineKept DEF TypeOK
<1>6. lastResult'.cmd = c /\ lastResult'.status = st
  BY <1>4
<1>7. st \in Statuses /\ r \in Responses
  BY <1>2, AnswerType DEF Statuses
<1>8. r.status = st /\ r.id = c.id /\ r.n = c.n
  BY DEF Response
<1>9. /\ Len(toJetson) \in Nat
      /\ Len(toJetson') = Len(toJetson) + 1
      /\ \A j \in 1 .. Len(toJetson) : toJetson'[j] = toJetson[j]
      /\ toJetson'[Len(toJetson) + 1] = r
  BY <1>4, <1>7, AppendProperties, LenProperties DEF TypeOK, LinkTypeOK, sendResponse
<1>10. st = "DONE" <=> ok
  OBVIOUS
<1>11. st = "FAULT" <=> ~ok
  OBVIOUS
<1> HIDE DEF c, st, r
<1>12. c = activeCommand
  BY DEF c
<1>13. CommandsKnown'
  <2>1. starts[c.n] > 0
    BY <1>1, <1>12 DEF DispatchInv, CommandsKnown
  <2> QED
    BY <1>3, <1>4, <1>6, <2>1 DEF DispatchInv, CommandsKnown, LineKnown, Known,
       transportVars
<1>14. LineInOrder'
  BY <1>4, <1>5, LineInOrderKept DEF TypeOK, DispatchInv, transportVars
<1>15. StartedIsRemembered'
  <2>1. SUFFICES ASSUME resets = 0
                 PROVE  /\ \A m \in Dispatches : starts[m] <= 1
                        /\ \A m \in Dispatches : starts[m] > 0 => m <= c.n
    BY <1>4, <1>6 DEF StartedIsRemembered
  <2> QED
    BY <1>2, <1>12, <2>1 DEF DispatchInv, StartedIsRemembered, LineInOrder
<1>16. ResultsAreTrue'
  <2>1. SUFFICES ASSUME NoIdReuse
                 PROVE  IdsCounted' /\ KeptResultTrue' /\ AnswersTrue'
    BY DEF ResultsAreTrue, NoIdReuse, transportVars
  <2>2. IdsCounted /\ KeptResultTrue /\ AnswersTrue
    BY <2>1 DEF DispatchInv, ResultsAreTrue
  <2>3. IdsCounted'
    BY <2>2 DEF IdsCounted, idOf, transportVars
  <2>4. KeptResultTrue'
    BY <1>4, <1>6, <1>10, <1>11 DEF KeptResultTrue
  <2>5. /\ r.n \in 1 .. dispatched /\ r.id = issued[r.n].id
        /\ r.status = "DONE" => r.n \in placed'
        /\ r.status = "FAULT" => r.n \in failed'
    BY <1>3, <1>4, <1>8, <1>10, <1>11 DEF Known
  <2>6. placed \subseteq placed' /\ failed \subseteq failed'
    BY <1>4
  <2>7. ASSUME NEW k \in 1 .. Len(toJetson'), toJetson'[k].status \in {"DONE", "FAULT"}
        PROVE  /\ toJetson'[k].n \in 1 .. dispatched
               /\ toJetson'[k].id = issued[toJetson'[k].n].id
               /\ toJetson'[k].status = "DONE" => toJetson'[k].n \in placed'
               /\ toJetson'[k].status = "FAULT" => toJetson'[k].n \in failed'
    <3>1. CASE k \in 1 .. Len(toJetson)
      BY <1>9, <2>2, <2>6, <2>7, <3>1 DEF AnswersTrue
    <3>2. CASE k = Len(toJetson) + 1
      BY <1>9, <2>5, <3>2
    <3> QED
      BY <1>9, <3>1, <3>2
  <2>8. AnswersTrue'
    BY <2>7 DEF AnswersTrue, transportVars
  <2> QED
    BY <2>3, <2>4, <2>8
<1>17. ReportIsTrue'
  BY <1>4 DEF DispatchInv, ReportIsTrue, NoIdReuse, transportVars
<1> QED
  BY <1>13, <1>14, <1>15, <1>16, <1>17 DEF DispatchInv

LEMMA ResetStep ==
  ASSUME TypeOK, DispatchInv, ResetArm, UNCHANGED transportVars
  PROVE  DispatchInv'
<1>1. PICK k \in 0 .. Len(toArm) : toArm' = SubSeq(toArm, k + 1, Len(toArm))
  BY DEF ResetArm
<1>2. LineKept /\ AnswersKept
  BY <1>1, SuffixLineKept, SameAnswersKept DEF TypeOK, ResetArm
<1>3. LineKnown'
  BY <1>2, LineKeptFacts DEF TypeOK, DispatchInv, transportVars
<1>4. CommandsKnown'
  BY <1>3 DEF DispatchInv, CommandsKnown, Known, ResetArm, transportVars
<1>5. LineInOrder'
  BY <1>2, LineInOrderKept DEF TypeOK, DispatchInv, ResetArm, transportVars
<1>6. StartedIsRemembered'
  <2>1. resets' # 0
    BY DEF ResetArm, TypeOK, ArmTypeOK
  <2> QED
    BY <2>1 DEF StartedIsRemembered
<1>7. ResultsAreTrue'
  <2>1. SUFFICES ASSUME NoIdReuse
                 PROVE  IdsCounted' /\ KeptResultTrue' /\ AnswersTrue'
    BY DEF ResultsAreTrue, NoIdReuse, transportVars
  <2>2. IdsCounted /\ AnswersTrue
    BY <2>1 DEF DispatchInv, ResultsAreTrue
  <2>3. IdsCounted' /\ KeptResultTrue'
    BY <2>2 DEF IdsCounted, KeptResultTrue, idOf, transportVars, ResetArm
  <2>4. AnswersTrue'
    BY <1>2, <2>2, AnswersTrueKept DEF ResetArm, transportVars
  <2> QED
    BY <2>3, <2>4
<1>8. ReportIsTrue'
  BY DEF DispatchInv, ReportIsTrue, NoIdReuse, ResetArm, transportVars
<1> QED
  BY <1>4, <1>5, <1>6, <1>7, <1>8 DEF DispatchInv

LEMMA OtherArmStep ==
  ASSUME TypeOK, DispatchInv, OtherSteps, UNCHANGED transportVars
  PROVE  DispatchInv'
<1>1. UNCHANGED <<robotBusy, newTarget, activeCommand, lastResult, resets, starts,
                  placed, failed, linkVars>>
  BY DEF OtherSteps, Setup, StartHoming, EndSetup, SkipJob, DebugNothing,
     EndManualMotion, Console, DebugAuto, DebugMotion, armIdleVars
<1>2. LineKept /\ AnswersKept
  BY <1>1, SameLineKept, SameAnswersKept DEF TypeOK, linkVars
<1> QED
  BY <1>1, <1>2, QuietStep DEF TypeOK, transportVars

LEMMA ArmKeepsDispatchInv ==
  ASSUME TypeOK, ArmInv, DispatchInv, ArmNext, UNCHANGED transportVars
  PROVE  DispatchInv'
<1>1. ASSUME NEW ok \in BOOLEAN, FinishJob(ok)
      PROVE  DispatchInv'
  BY <1>1, FinishJobStep
<1> QED
  BY <1>1, ReceiveStep, TakeJobStep, ResetStep, OtherArmStep
     DEF ArmNext, Loop, OtherSteps
-----------------------------------------------------------------------------
(* The steps of the transport.                                             *)

\* The history of dispatches is a sequence with one entry per dispatch.
LEMMA IssuedSeq ==
  ASSUME TypeOK
  PROVE  issued \in Seq(Commands) /\ Len(issued) = dispatched /\ dispatched \in Nat
<1>1. dispatched \in Nat /\ issued \in [1 .. dispatched -> Commands]
  BY DispatchBound DEF TypeOK, TransportTypeOK
<1> QED
  BY <1>1, NumberedSeq

\* A new command and a new frame, behind all the others.
LEMMA DispatchFacts ==
  ASSUME TypeOK, NEW s \in Slots, NEW p \in Points, Dispatch(s, p)
  PROVE  /\ cmd' = [id |-> commandId, slot |-> s, pt |-> p, n |-> dispatched + 1]
         /\ cmd' \in Commands /\ cmd' # NoCommand
         /\ dispatched' = dispatched + 1 /\ dispatched' \in 1 .. MaxDispatches
         /\ issued' \in [1 .. dispatched' -> Commands]
         /\ \A n \in 1 .. dispatched : issued'[n] = issued[n]
         /\ issued'[dispatched + 1] = cmd'
<1> DEFINE c == [id |-> commandId, slot |-> s, pt |-> p, n |-> dispatched + 1]
<1>1. dispatched' = dispatched + 1 /\ dispatched' \in 1 .. MaxDispatches
  BY DispatchBound DEF Dispatch, TypeOK, TransportTypeOK
<1>2. c \in Commands
  BY <1>1 DEF Dispatch, TypeOK, TransportTypeOK, Commands, Dispatches
<1>3. cmd' = c /\ issued' = Append(issued, c)
  BY DEF Dispatch
<1> HIDE DEF c
<1>4. /\ issued' \in Seq(Commands) /\ Len(issued') = dispatched + 1
      /\ \A n \in 1 .. dispatched : issued'[n] = issued[n]
      /\ issued'[dispatched + 1] = c
  BY <1>2, <1>3, IssuedSeq, AppendProperties
<1>5. issued' \in [1 .. dispatched' -> Commands]
  BY <1>1, <1>4, LenProperties
<1>6. c = [id |-> commandId, slot |-> s, pt |-> p, n |-> dispatched + 1]
  BY DEF c
<1> QED
  BY <1>1, <1>2, <1>3, <1>4, <1>5, <1>6, NoCommandAssumption

\* Writing a command puts one whole frame behind the others.
LEMMA WriteFacts ==
  ASSUME LinkTypeOK, NEW c \in Commands, write(c)
  PROVE  /\ toArm' \in Seq(Frames) /\ Len(toArm) \in Nat
         /\ Len(toArm') = Len(toArm) + 1
         /\ \A j \in 1 .. Len(toArm) : toArm'[j] = toArm[j]
         /\ toArm'[Len(toArm) + 1].cmd = c
         /\ toArm'[Len(toArm) + 1].kind = "whole"
<1> DEFINE f == [kind |-> "whole", cmd |-> c]
<1>1. f \in Frames /\ f.cmd = c /\ f.kind = "whole"
  BY DEF Frames
<1>2. toArm' = Append(toArm, f)
  BY DEF write
<1> HIDE DEF f
<1>3. toArm \in Seq(Frames)
  BY DEF LinkTypeOK
<1> QED
  BY <1>1, <1>2, <1>3, AppendProperties, LenProperties

LEMMA SettleType ==
  ASSUME TypeOK, CommandsKnown, phase # "idle", NEW why \in Reports, settle(why)
  PROVE  /\ phase' = "idle" /\ attempt' = 1 /\ cmd' = NoCommand
         /\ commandId' \in Ids
         /\ report' \in [Dispatches -> Reports]
         /\ tries' \in [Dispatches -> 0 .. Retries + 1]
         /\ cmd \in Commands /\ cmd.n \in Dispatches
<1>1. cmd \in Commands /\ cmd.n \in Dispatches
  BY CommandFields DEF CommandsKnown, TypeOK, TransportTypeOK
<1>2. commandId' \in Ids
  BY IdModAssumption DEF settle, nextId, Ids, TypeOK, TransportTypeOK
<1>3. attempt \in 0 .. Retries + 1
  BY TransportBounds DEF TypeOK, TransportTypeOK
<1> QED
  BY <1>1, <1>2, <1>3 DEF settle, TypeOK, TransportTypeOK

LEMMA ReadResponseType ==
  ASSUME TypeOK, CommandsKnown, ReadResponse
  PROVE  TransportTypeOK' /\ LinkTypeOK'
<1>1. Head(toJetson) \in Responses /\ toJetson' \in Seq(Responses)
  BY TailAnswersKept DEF ReadResponse, TypeOK
<1>2. LinkTypeOK'
  BY <1>1 DEF ReadResponse, TypeOK, LinkTypeOK
<1>3. Head(toJetson).status \in Reports
  BY <1>1 DEF Responses, Reports
<1> DEFINE why == Head(toJetson).status
<1>4. UNCHANGED <<restarts, dispatched, firstId, issued>> /\ phase # "idle"
  BY DEF ReadResponse
<1>5. \/ settle(why)
      \/ UNCHANGED <<attempt, cmd, commandId, report, tries>> /\ phase' \in {phase, "doneWait"}
  BY DEF ReadResponse
<1> HIDE DEF why
<1>6. CASE settle(why)
  <2>1. why \in Reports
    BY <1>3 DEF why
  <2> QED
    BY <1>2, <1>4, <1>6, <2>1, SettleType, TransportBounds DEF TypeOK, TransportTypeOK
<1>7. CASE UNCHANGED <<attempt, cmd, commandId, report, tries>> /\
           phase' \in {phase, "doneWait"}
  BY <1>2, <1>4, <1>7 DEF TypeOK, TransportTypeOK
<1> QED
  BY <1>5, <1>6, <1>7

LEMMA TransportType ==
  ASSUME TypeOK, CommandsKnown, TransportNext
  PROVE  TransportTypeOK' /\ LinkTypeOK'
<1>1. ASSUME NEW s \in Slots, NEW p \in Points, Dispatch(s, p)
      PROVE  TransportTypeOK' /\ LinkTypeOK'
  <2>1. /\ cmd' \in Commands /\ dispatched' \in 0 .. MaxDispatches
        /\ issued' \in [1 .. dispatched' -> Commands]
    BY <1>1, DispatchFacts
  <2>2. write(cmd')
    BY <1>1 DEF Dispatch
  <2>3. LinkTypeOK'
    BY <1>1, <2>1, <2>2, WriteFacts DEF Dispatch, TypeOK, LinkTypeOK
  <2> QED
    BY <1>1, <2>1, <2>3, TransportBounds DEF Dispatch, TypeOK, TransportTypeOK
<1>2. CASE ResendAfterTimeout
  <2>1. cmd \in Commands
    BY <1>2 DEF ResendAfterTimeout, CommandsKnown, TypeOK, TransportTypeOK
  <2>2. LinkTypeOK'
    BY <1>2, <2>1, WriteFacts DEF ResendAfterTimeout, TypeOK, LinkTypeOK
  <2>3. attempt' \in 1 .. Retries + 1
    BY <1>2, TransportBounds DEF ResendAfterTimeout, TypeOK, TransportTypeOK
  <2> QED
    BY <1>2, <2>2, <2>3 DEF ResendAfterTimeout, TypeOK, TransportTypeOK
<1>3. CASE EndCall
  <2>1. PICK why \in Reports : settle(why)
    BY <1>3 DEF EndCall, GiveUp, PortFails, Reports
  <2>2. phase # "idle" /\ UNCHANGED <<restarts, dispatched, firstId, issued, linkVars>>
    BY <1>3 DEF EndCall, GiveUp, PortFails
  <2> QED
    BY <2>1, <2>2, SettleType, TransportBounds
       DEF TypeOK, TransportTypeOK, LinkTypeOK, linkVars
<1>4. CASE RestartJetson
  <2>1. toJetson' \in Seq(Responses)
    <3>1. PICK k \in 0 .. Len(toJetson) :
            toJetson' = SubSeq(toJetson, k + 1, Len(toJetson))
      BY <1>4 DEF RestartJetson
    <3> QED
      BY <3>1, SuffixAnswersKept DEF TypeOK
  <2>2. report' \in [Dispatches -> Reports]
    <3>1. cmd # NoCommand => cmd.n \in Dispatches
      BY CommandFields DEF TypeOK, TransportTypeOK
    <3> QED
      BY <1>4, <3>1 DEF RestartJetson, TypeOK, TransportTypeOK, Reports
  <2>3. restarts' \in 0 .. MaxRestarts
    BY <1>4, TransportBounds DEF RestartJetson, TypeOK, TransportTypeOK
  <2> QED
    BY <1>4, <2>1, <2>2, <2>3, TransportBounds
       DEF RestartJetson, TypeOK, TransportTypeOK, LinkTypeOK
<1> QED
  BY <1>1, <1>2, <1>3, <1>4, ReadResponseType DEF TransportNext

\* A known command stays one when a dispatch is added.
LEMMA KnownStays ==
  ASSUME TypeOK, NEW s \in Slots, NEW p \in Points, Dispatch(s, p),
         NEW c \in Commands, Known(c)
  PROVE  c.n \in 1 .. dispatched /\ c.n <= dispatched' /\ c = issued'[c.n]
<1>1. c.n \in 1 .. dispatched
  BY CommandFields, DispatchBound DEF Known, Dispatches, TypeOK, TransportTypeOK
<1> QED
  BY <1>1, DispatchFacts DEF Known, TypeOK, TransportTypeOK

\* Writing the worker's command, the newest there is, keeps the line known and
\* in order.
LEMMA WriteInOrder ==
  ASSUME TypeOK, NEW c \in Commands, write(c),
         dispatched' \in Nat, c.n = dispatched', c = issued'[c.n],
         \A j \in 1 .. Len(toArm) :
           /\ toArm[j].cmd.n <= dispatched'
           /\ toArm[j].kind = "whole" =>
                toArm[j].cmd.n <= dispatched' /\ toArm[j].cmd = issued'[toArm[j].cmd.n],
         \A m \in Dispatches : starts[m] > 0 => m <= dispatched',
         activeCommand # NoCommand => activeCommand.n <= dispatched',
         LineInOrder, UNCHANGED <<starts, activeCommand>>
  PROVE  LineKnown' /\ LineInOrder'
<1>1. /\ Len(toArm) \in Nat /\ Len(toArm') = Len(toArm) + 1
      /\ \A j \in 1 .. Len(toArm) : toArm'[j] = toArm[j]
      /\ toArm'[Len(toArm) + 1].cmd = c
      /\ toArm'[Len(toArm) + 1].kind = "whole"
  BY WriteFacts DEF TypeOK
<1>2. \A j \in 1 .. Len(toArm') :
        \/ j \in 1 .. Len(toArm) /\ toArm'[j] = toArm[j]
        \/ j = Len(toArm) + 1 /\ toArm'[j].cmd = c
  <2>1. \A j \in 1 .. Len(toArm') : j \in 1 .. Len(toArm) \/ j = Len(toArm) + 1
    BY <1>1
  <2> QED
    BY <1>1, <2>1
<1>3. LineKnown'
  BY <1>2 DEF LineKnown, Known
<1>4. \A j \in 1 .. Len(toArm') : toArm'[j].cmd.n <= c.n
  BY <1>2
<1>5. ASSUME NEW j \in 1 .. Len(toArm'), NEW k \in 1 .. Len(toArm'), j <= k
      PROVE  toArm'[j].cmd.n <= toArm'[k].cmd.n
  <2>1. CASE k = Len(toArm) + 1
    BY <1>2, <1>4, <2>1
  <2>2. CASE k \in 1 .. Len(toArm)
    <3>1. j \in 1 .. Len(toArm)
      BY <1>1, <1>5, <2>2
    <3> QED
      BY <1>1, <1>5, <2>2, <3>1 DEF LineInOrder
  <2> QED
    BY <1>2, <2>1, <2>2
<1>6. activeCommand # NoCommand =>
        \A j \in 1 .. Len(toArm') : activeCommand.n <= toArm'[j].cmd.n
  BY <1>2 DEF LineInOrder
<1>7. \A m \in Dispatches : starts[m] > 0 =>
        \A j \in 1 .. Len(toArm') : m <= toArm'[j].cmd.n
  BY <1>2 DEF LineInOrder
<1>8. LineInOrder'
  BY <1>5, <1>6, <1>7 DEF LineInOrder
<1> QED
  BY <1>3, <1>8

LEMMA ResendStep ==
  ASSUME TypeOK, DispatchInv, ResendAfterTimeout, UNCHANGED armVars
  PROVE  DispatchInv'
<1>1. /\ cmd # NoCommand /\ cmd \in Commands /\ Known(cmd) /\ cmd.n = dispatched
      /\ write(cmd) /\ phase # "idle" /\ phase' # "idle"
      /\ UNCHANGED <<cmd, commandId, restarts, dispatched, firstId, issued, report,
                     toJetson>>
  BY DEF ResendAfterTimeout, DispatchInv, CommandsKnown, TypeOK, TransportTypeOK
<1>2. dispatched' \in Nat
  BY <1>1, DispatchBound DEF TypeOK, TransportTypeOK
<1>3. LineKnown' /\ LineInOrder'
  BY <1>1, <1>2, WriteInOrder
     DEF DispatchInv, CommandsKnown, LineKnown, LineInOrder, Known, armVars
<1>4. CommandsKnown'
  BY <1>1, <1>3 DEF DispatchInv, CommandsKnown, Known, armVars
<1>5. StartedIsRemembered'
  BY StartedKept DEF DispatchInv, armVars
<1>6. ResultsAreTrue'
  BY <1>1, SameAnswersKept, ResultsKept DEF DispatchInv, armVars, TypeOK
<1>7. ReportIsTrue'
  BY <1>1 DEF DispatchInv, ReportIsTrue, NoIdReuse, armVars
<1> QED
  BY <1>3, <1>4, <1>5, <1>6, <1>7 DEF DispatchInv

LEMMA DispatchStep ==
  ASSUME TypeOK, DispatchInv, NEW s \in Slots, NEW p \in Points, Dispatch(s, p),
         UNCHANGED armVars
  PROVE  DispatchInv'
<1> DEFINE c == [id |-> commandId, slot |-> s, pt |-> p, n |-> dispatched + 1]
<1>1. /\ cmd' = c /\ c \in Commands /\ c # NoCommand
      /\ c.n = dispatched + 1 /\ c.id = commandId
      /\ dispatched' = dispatched + 1 /\ dispatched \in Nat /\ dispatched' <= MaxDispatches
      /\ \A n \in 1 .. dispatched : issued'[n] = issued[n]
      /\ issued'[dispatched + 1] = c
  BY DispatchFacts, IssuedSeq
<1>2. /\ phase = "idle" /\ phase' = "ackWait" /\ write(c) /\ cmd = NoCommand
      /\ UNCHANGED <<commandId, restarts, firstId, report, toJetson>>
  BY DEF Dispatch, DispatchInv, CommandsKnown
<1> HIDE DEF c
<1>3. ASSUME NEW d \in Commands, Known(d)
      PROVE  d.n <= dispatched' /\ d = issued'[d.n] /\ Known(d)'
  BY <1>3, KnownStays DEF Known
<1>4. \A j \in 1 .. Len(toArm) :
        /\ toArm[j].cmd.n <= dispatched'
        /\ toArm[j].kind = "whole" =>
             toArm[j].cmd.n <= dispatched' /\ toArm[j].cmd = issued'[toArm[j].cmd.n]
  <2>1. TAKE j \in 1 .. Len(toArm)
  <2>2. toArm[j].cmd \in Commands
    <3>1. toArm[j] \in Frames
      BY ElementOfSeq DEF TypeOK, LinkTypeOK
    <3> QED
      BY <3>1 DEF Frames
  <2>3. toArm[j].cmd.n <= dispatched /\ toArm[j].cmd.n \in Int
    BY <2>2, CommandFields DEF DispatchInv, CommandsKnown, LineKnown, Dispatches
  <2> QED
    BY <1>1, <1>3, <2>2, <2>3 DEF DispatchInv, CommandsKnown, LineKnown
<1>5. activeCommand # NoCommand => activeCommand \in Commands /\ Known(activeCommand)
  BY DEF DispatchInv, CommandsKnown, TypeOK, ArmTypeOK
<1>6. LineKnown' /\ LineInOrder'
  <2>1. \A m \in Dispatches : starts[m] > 0 => m <= dispatched'
    BY <1>1 DEF DispatchInv, LineInOrder, Dispatches
  <2>2. LineInOrder /\ UNCHANGED <<starts, activeCommand>>
    BY DEF DispatchInv, armVars
  <2> QED
    BY <1>1, <1>2, <1>3, <1>4, <1>5, <2>1, <2>2, WriteInOrder
<1>7. CommandsKnown'
  <2>1. \A n \in 1 .. dispatched' : issued'[n].n = n
    BY <1>1 DEF DispatchInv, CommandsKnown
  <2>2. lastResult # NoResult => lastResult.cmd \in Commands /\ Known(lastResult.cmd)
    BY DEF DispatchInv, CommandsKnown, TypeOK, ArmTypeOK
  <2>3. cmd' # NoCommand => Known(cmd)' /\ cmd'.n = dispatched'
    BY <1>1 DEF Known
  <2> QED
    BY <1>1, <1>2, <1>3, <1>5, <1>6, <2>1, <2>2, <2>3
       DEF DispatchInv, CommandsKnown, armVars
<1>8. StartedIsRemembered'
  BY StartedKept DEF DispatchInv, armVars
<1>9. ResultsAreTrue'
  <2>1. SUFFICES ASSUME NoIdReuse
                 PROVE  IdsCounted' /\ KeptResultTrue' /\ AnswersTrue'
    BY <1>2 DEF ResultsAreTrue, NoIdReuse
  <2>2. IdsCounted /\ KeptResultTrue /\ AnswersTrue
    BY <2>1 DEF DispatchInv, ResultsAreTrue
  <2>3. commandId = idOf(dispatched + 1)
    BY <1>2, <2>2 DEF IdsCounted
  <2>4. IdsCounted'
    <3>1. \A n \in 1 .. dispatched' : issued'[n].id = idOf(n)
      BY <1>1, <2>2, <2>3 DEF IdsCounted
    <3>2. commandId' = idOf(IF phase' = "idle" THEN dispatched' + 1 ELSE dispatched')
      BY <1>1, <1>2, <2>3
    <3> QED
      BY <1>2, <3>1, <3>2 DEF IdsCounted, idOf
  <2>5. KeptResultTrue'
    BY <2>2 DEF KeptResultTrue, armVars
  <2>6. AnswersTrue'
    BY <1>1, <1>2, <2>2 DEF AnswersTrue, armVars
  <2> QED
    BY <2>4, <2>5, <2>6
<1>10. ReportIsTrue'
  BY <1>2 DEF DispatchInv, ReportIsTrue, NoIdReuse, armVars
<1> QED
  BY <1>6, <1>7, <1>8, <1>9, <1>10 DEF DispatchInv

\* The next identifier of the worker is the one of the next dispatch.
LEMMA NextIdCounted ==
  ASSUME TypeOK, NoIdReuse, dispatched # 0
  PROVE  nextId(idOf(dispatched)) = idOf(dispatched + 1)
<1>1. /\ dispatched \in Nat \ {0} /\ dispatched <= IdMod /\ IdMod \in Nat
      /\ firstId \in 0 .. IdMod - 1
  BY DispatchBound, IdModAssumption DEF TypeOK, TransportTypeOK, NoIdReuse, Ids
<1>2. CASE firstId + dispatched - 1 < IdMod
  BY <1>1, <1>2 DEF nextId, idOf
<1>3. CASE firstId + dispatched - 1 >= IdMod
  BY <1>1, <1>3 DEF nextId, idOf
<1> QED
  BY <1>1, <1>2, <1>3

\* A call that returns: the worker is idle with the next identifier, and what
\* it reports of the end of a motion is true.
LEMMA SettleStep ==
  ASSUME TypeOK, DispatchInv, phase # "idle", NEW why \in Reports, settle(why),
         UNCHANGED <<armVars, restarts, dispatched, firstId, issued, toArm>>,
         AnswersKept,
         NoIdReuse => /\ why = "DONE" => cmd.n \in placed
                      /\ why = "FAULT" => cmd.n \in failed
  PROVE  DispatchInv'
<1>1. /\ phase' = "idle" /\ cmd' = NoCommand
      /\ commandId' = nextId(commandId)
      /\ report' = [report EXCEPT ![cmd.n] = why]
      /\ cmd.n \in Dispatches /\ cmd.n = dispatched /\ dispatched # 0
  <2>1. cmd # NoCommand /\ cmd.n = dispatched
    BY DEF DispatchInv, CommandsKnown
  <2>2. cmd.n \in Dispatches /\ cmd.n # 0
    BY <2>1, CommandFields DEF TypeOK, TransportTypeOK, Dispatches
  <2> QED
    BY <2>1, <2>2 DEF settle
<1>2. LineKept
  BY SameLineKept DEF TypeOK
<1>3. CommandsKnown'
  <2>1. LineKnown'
    BY <1>2, LineKeptFacts DEF TypeOK, DispatchInv
  <2> QED
    BY <1>1, <2>1 DEF DispatchInv, CommandsKnown, Known, armVars
<1>4. LineInOrder' /\ StartedIsRemembered'
  BY <1>2, LineInOrderKept, StartedKept DEF TypeOK, DispatchInv, armVars
<1>5. ResultsAreTrue'
  <2>1. SUFFICES ASSUME NoIdReuse
                 PROVE  IdsCounted' /\ KeptResultTrue' /\ AnswersTrue'
    BY DEF ResultsAreTrue, NoIdReuse
  <2>2. IdsCounted /\ KeptResultTrue /\ AnswersTrue
    BY <2>1 DEF DispatchInv, ResultsAreTrue
  <2>3. commandId = idOf(dispatched)
    BY <2>2 DEF IdsCounted
  <2>4. commandId' = idOf(dispatched + 1)
    BY <1>1, <2>1, <2>3, NextIdCounted
  <2>5. IdsCounted'
    BY <1>1, <2>2, <2>4 DEF IdsCounted, idOf
  <2>6. KeptResultTrue' /\ AnswersTrue'
    BY <2>2, AnswersTrueKept DEF KeptResultTrue, armVars
  <2> QED
    BY <2>5, <2>6
<1>6. ReportIsTrue'
  <2>1. SUFFICES ASSUME NoIdReuse, NEW n \in Dispatches
                 PROVE  /\ report'[n] = "DONE" => n \in placed
                        /\ report'[n] = "FAULT" => n \in failed
    BY DEF ReportIsTrue, NoIdReuse, armVars
  <2>2. CASE n = cmd.n
    <3>1. report'[n] = why
      BY <1>1, <2>2 DEF TypeOK, TransportTypeOK
    <3> QED
      BY <2>1, <2>2, <3>1
  <2>3. CASE n # cmd.n
    <3>1. report'[n] = report[n]
      BY <1>1, <2>3 DEF TypeOK, TransportTypeOK
    <3> QED
      BY <2>1, <3>1 DEF DispatchInv, ReportIsTrue
  <2> QED
    BY <2>2, <2>3
<1> QED
  BY <1>3, <1>4, <1>5, <1>6 DEF DispatchInv

LEMMA ReadStep ==
  ASSUME TypeOK, DispatchInv, ReadResponse, UNCHANGED armVars
  PROVE  DispatchInv'
<1> DEFINE r == Head(toJetson)
<1>1. /\ AnswersKept /\ r = toJetson[1] /\ 1 \in 1 .. Len(toJetson)
      /\ r \in Responses
  BY TailAnswersKept DEF ReadResponse, TypeOK
<1>2. /\ phase # "idle"
      /\ UNCHANGED <<restarts, dispatched, firstId, issued, toArm>>
  BY DEF ReadResponse
<1>3. \/ UNCHANGED <<cmd, commandId, report>> /\ phase' \in {phase, "doneWait"}
      \/ r.id = cmd.id /\ settle(r.status)
  BY DEF ReadResponse
<1> HIDE DEF r
<1>4. CASE UNCHANGED <<cmd, commandId, report>> /\ phase' \in {phase, "doneWait"}
  <2>1. LineKept
    BY <1>2, SameLineKept DEF TypeOK
  <2> QED
    BY <1>1, <1>2, <1>4, <2>1, QuietStep DEF TypeOK, armVars
<1>5. CASE r.id = cmd.id /\ settle(r.status)
  <2>1. r.status \in Reports
    BY <1>1 DEF Responses, Reports
  <2>2. ASSUME NoIdReuse, r.status \in {"DONE", "FAULT"}
        PROVE  /\ r.status = "DONE" => cmd.n \in placed
               /\ r.status = "FAULT" => cmd.n \in failed
    <3>1. IdsCounted /\ AnswersTrue
      BY <2>2 DEF DispatchInv, ResultsAreTrue
    <3>2. /\ r.n \in 1 .. dispatched /\ r.id = issued[r.n].id
          /\ r.status = "DONE" => r.n \in placed
          /\ r.status = "FAULT" => r.n \in failed
      BY <1>1, <2>2, <3>1 DEF AnswersTrue
    <3>3. cmd \in Commands /\ Known(cmd)
      BY <1>2 DEF DispatchInv, CommandsKnown, TypeOK, TransportTypeOK
    <3>4. cmd.n \in 1 .. dispatched /\ issued[cmd.n].id = cmd.id
      BY <3>3, CommandFields, DispatchBound
         DEF Known, Dispatches, TypeOK, TransportTypeOK
    <3>5. r.n = cmd.n
      BY <1>5, <2>2, <3>1, <3>2, <3>4, IdsDiffer DEF DispatchInv
    <3> QED
      BY <3>2, <3>5
  <2> QED
    BY <1>1, <1>2, <1>5, <2>1, <2>2, SettleStep
<1> QED
  BY <1>3, <1>4, <1>5

LEMMA EndCallStep ==
  ASSUME TypeOK, DispatchInv, EndCall, UNCHANGED armVars
  PROVE  DispatchInv'
<1>1. PICK why \in {"RESPONSE_TIMEOUT", "UART_FAILED"} : settle(why)
  BY DEF EndCall, GiveUp, PortFails
<1>2. phase # "idle" /\ UNCHANGED <<restarts, dispatched, firstId, issued, linkVars>>
  BY DEF EndCall, GiveUp, PortFails
<1>3. why \in Reports /\ why \notin {"DONE", "FAULT"}
  BY DEF Reports
<1>4. AnswersKept /\ toArm' = toArm
  BY <1>2, SameAnswersKept DEF TypeOK, linkVars
<1> QED
  BY <1>1, <1>2, <1>3, <1>4, SettleStep

LEMMA RestartStep ==
  ASSUME TypeOK, DispatchInv, RestartJetson, UNCHANGED armVars
  PROVE  DispatchInv'
<1>1. /\ phase' = "idle" /\ cmd' = NoCommand /\ toArm' = toArm
      /\ restarts' = restarts + 1 /\ restarts \in Nat
      /\ UNCHANGED <<dispatched, issued>>
  BY TransportBounds DEF RestartJetson, TypeOK, TransportTypeOK
<1>2. LineKept
  BY <1>1, SameLineKept DEF TypeOK
<1>3. CommandsKnown'
  <2>1. LineKnown'
    BY <1>1, <1>2, LineKeptFacts DEF TypeOK, DispatchInv
  <2> QED
    BY <1>1, <2>1 DEF DispatchInv, CommandsKnown, Known, armVars
<1>4. LineInOrder' /\ StartedIsRemembered'
  BY <1>1, <1>2, LineInOrderKept, StartedKept DEF TypeOK, DispatchInv, armVars
<1>5. ~NoIdReuse'
  BY <1>1 DEF NoIdReuse
<1>6. ResultsAreTrue' /\ ReportIsTrue'
  BY <1>5 DEF ResultsAreTrue, ReportIsTrue
<1> QED
  BY <1>3, <1>4, <1>6 DEF DispatchInv

LEMMA TransportKeepsDispatchInv ==
  ASSUME TypeOK, DispatchInv, TransportNext, UNCHANGED armVars
  PROVE  DispatchInv'
BY DispatchStep, ReadStep, ResendStep, EndCallStep, RestartStep DEF TransportNext
-----------------------------------------------------------------------------
(* Verdicts.                                                               *)

\* A call that returns with a verdict gives it to the newest dispatch.
LEMMA SettleVerdict ==
  ASSUME TypeOK, CommandsKnown, VerdictsGiven, phase # "idle", phase' = "idle",
         UNCHANGED dispatched, NEW why \in Reports \ {"none"},
         report' = [report EXCEPT ![cmd.n] = why]
  PROVE  VerdictsGiven'
<1>1. cmd.n = dispatched
  BY DEF CommandsKnown
<1>2. \A n \in Dispatches :
        report'[n] = IF n = dispatched THEN why ELSE report[n]
  BY <1>1 DEF TypeOK, TransportTypeOK
<1> QED
  BY <1>2 DEF VerdictsGiven

LEMMA VerdictStep ==
  ASSUME TypeOK, DispatchInv, VerdictsGiven, TransportNext
  PROVE  VerdictsGiven'
<1>1. ASSUME NEW s \in Slots, NEW p \in Points, Dispatch(s, p)
      PROVE  VerdictsGiven'
  <2>1. /\ dispatched' = dispatched + 1 /\ phase = "idle" /\ phase' # "idle"
        /\ report' = report /\ dispatched \in Nat
    BY <1>1, IssuedSeq DEF Dispatch
  <2>2. \A n \in Dispatches : n < dispatched' <=> n < dispatched \/ n = dispatched
    BY <2>1 DEF Dispatches
  <2> QED
    BY <2>1, <2>2 DEF VerdictsGiven
<1>2. CASE ResendAfterTimeout
  BY <1>2 DEF ResendAfterTimeout, VerdictsGiven
<1>3. ASSUME NEW why \in Reports \ {"none"}, settle(why), phase # "idle",
             UNCHANGED dispatched
      PROVE  VerdictsGiven'
  BY <1>3, SettleVerdict DEF settle, DispatchInv
<1>4. CASE ReadResponse
  <2>1. Head(toJetson) \in Responses
    BY <1>4, TailAnswersKept DEF ReadResponse, TypeOK
  <2>2. Head(toJetson).status \in Reports \ {"none"}
    BY <2>1 DEF Responses, Statuses, Reports
  <2>3. /\ phase # "idle" /\ UNCHANGED dispatched
        /\ \/ settle(Head(toJetson).status)
           \/ UNCHANGED report /\ phase' \in {phase, "doneWait"}
    BY <1>4 DEF ReadResponse
  <2>4. CASE UNCHANGED report /\ phase' \in {phase, "doneWait"}
    BY <2>3, <2>4 DEF VerdictsGiven
  <2> QED
    BY <1>3, <2>2, <2>3, <2>4
<1>5. CASE EndCall
  <2>1. PICK why \in {"RESPONSE_TIMEOUT", "UART_FAILED"} : settle(why)
    BY <1>5 DEF EndCall, GiveUp, PortFails
  <2>2. why \in Reports \ {"none"}
    BY DEF Reports
  <2>3. phase # "idle" /\ UNCHANGED dispatched
    BY <1>5 DEF EndCall, GiveUp, PortFails
  <2> QED
    BY <1>3, <2>1, <2>2, <2>3
<1>6. CASE RestartJetson
  <2>1. /\ phase' = "idle" /\ UNCHANGED dispatched
        /\ report' = IF cmd = NoCommand THEN report
                     ELSE [report EXCEPT ![cmd.n] = "lost"]
    BY <1>6 DEF RestartJetson
  <2>2. CASE cmd = NoCommand
    BY <2>1, <2>2 DEF VerdictsGiven, DispatchInv, CommandsKnown
  <2>3. CASE cmd # NoCommand
    <3>1. "lost" \in Reports \ {"none"} /\ phase # "idle"
      BY <2>3 DEF Reports, DispatchInv, CommandsKnown
    <3> QED
      BY <2>1, <2>3, <3>1, SettleVerdict DEF DispatchInv
  <2> QED
    BY <2>2, <2>3
<1> QED
  BY <1>1, <1>2, <1>4, <1>5, <1>6 DEF TransportNext
-----------------------------------------------------------------------------
(* The invariant.                                                          *)

LEMMA InvInit ==
  ASSUME Init
  PROVE  Inv
<1> USE DEF Init, LinkInit, ArmInit, TransportInit
<1>1. LinkTypeOK
  <2>1. toArm \in Seq(Frames) /\ toJetson \in Seq(Responses)
    OBVIOUS
  <2> QED
    BY <2>1, DamageBound DEF LinkTypeOK
<1>2. ArmTypeOK
  BY ArmTypeInit
<1>3. TransportTypeOK
  <2>1. report \in [Dispatches -> Reports]
    BY DEF Reports
  <2>2. tries \in [Dispatches -> 0 .. Retries + 1] /\ attempt \in 1 .. Retries + 1
    BY TransportBounds
  <2>3. issued \in [1 .. dispatched -> Commands] /\ dispatched \in 0 .. MaxDispatches
    BY DispatchBound
  <2> QED
    BY <2>1, <2>2, <2>3, TransportBounds DEF TransportTypeOK
<1>4. ArmInv
  BY ArmInvInit
<1>5. Len(toArm) = 0 /\ Len(toJetson) = 0 /\ dispatched = 0
  OBVIOUS
<1>6. CommandsKnown
  BY <1>5 DEF CommandsKnown, LineKnown
<1>7. LineInOrder
  BY <1>5 DEF LineInOrder
<1>8. StartedIsRemembered
  BY DEF StartedIsRemembered
<1>9. ResultsAreTrue
  <2>1. commandId = idOf(dispatched + 1)
    BY <1>5, IdModAssumption DEF idOf, Ids
  <2> QED
    BY <1>5, <2>1 DEF ResultsAreTrue, IdsCounted, KeptResultTrue, AnswersTrue
<1>10. ReportIsTrue /\ VerdictsGiven
  <2>1. \A n \in Dispatches : report[n] = "none" /\ ~(n < dispatched) /\ n # dispatched
    BY <1>5 DEF Dispatches
  <2> QED
    BY <2>1 DEF ReportIsTrue, VerdictsGiven
<1> QED
  BY <1>1, <1>2, <1>3, <1>4, <1>6, <1>7, <1>8, <1>9, <1>10
     DEF Inv, TypeOK, DispatchInv

LEMMA InvStep ==
  ASSUME Inv, [Next]_vars
  PROVE  Inv'
<1> USE DEF Inv
<1>1. CASE ArmNext /\ UNCHANGED transportVars
  <2>1. LinkTypeOK' /\ ArmTypeOK' /\ ArmInv'
    BY <1>1, ArmStep DEF TypeOK
  <2>2. TransportTypeOK'
    BY <1>1 DEF TypeOK, TransportTypeOK, transportVars
  <2>3. DispatchInv'
    BY <1>1, ArmKeepsDispatchInv
  <2>4. VerdictsGiven'
    BY <1>1 DEF VerdictsGiven, transportVars
  <2> QED
    BY <2>1, <2>2, <2>3, <2>4 DEF TypeOK
<1>2. CASE TransportNext /\ UNCHANGED armVars
  <2>1. TransportTypeOK' /\ LinkTypeOK'
    BY <1>2, TransportType DEF DispatchInv
  <2>2. ArmTypeOK'
    BY <1>2 DEF TypeOK, ArmTypeOK, armVars
  <2>3. ArmInv'
    BY <1>2, ArmInvUnchanged
  <2>4. DispatchInv' /\ VerdictsGiven'
    BY <1>2, TransportKeepsDispatchInv, VerdictStep
  <2> QED
    BY <2>1, <2>2, <2>3, <2>4 DEF TypeOK
<1>3. CASE LinkFault /\ UNCHANGED <<armVars, transportVars>>
  <2>1. LinkTypeOK'
    BY <1>3, LinkFaultType DEF TypeOK
  <2>2. ArmTypeOK' /\ TransportTypeOK'
    BY <1>3 DEF TypeOK, ArmTypeOK, TransportTypeOK, armVars, transportVars
  <2>3. ArmInv'
    BY <1>3, ArmInvUnchanged
  <2>4. LineKept /\ AnswersKept
    BY <1>3, LinkFaultKeeps DEF TypeOK
  <2>5. DispatchInv'
    BY <1>3, <2>4, QuietStep DEF TypeOK, armVars, transportVars
  <2>6. VerdictsGiven'
    BY <1>3 DEF VerdictsGiven, transportVars
  <2> QED
    BY <2>1, <2>2, <2>3, <2>5, <2>6 DEF TypeOK
<1>4. CASE UNCHANGED vars
  <2>1. UNCHANGED armVars /\ UNCHANGED transportVars /\ UNCHANGED linkVars
    BY <1>4 DEF vars
  <2>2. TypeOK'
    BY <2>1 DEF TypeOK, LinkTypeOK, ArmTypeOK, TransportTypeOK, linkVars, armVars,
       transportVars
  <2>3. ArmInv'
    BY <2>1, ArmInvUnchanged
  <2>4. LineKept /\ AnswersKept
    BY <2>1, SameLineKept, SameAnswersKept DEF TypeOK, linkVars
  <2>5. DispatchInv'
    BY <2>1, <2>4, QuietStep DEF TypeOK, armVars, transportVars
  <2>6. VerdictsGiven'
    BY <2>1 DEF VerdictsGiven, transportVars
  <2> QED
    BY <2>2, <2>3, <2>5, <2>6
<1> QED
  BY <1>1, <1>2, <1>3, <1>4 DEF Next

LEMMA InvAlways == Spec => []Inv
<1>1. Init => Inv
  BY InvInit
<1>2. Inv /\ [Next]_vars => Inv'
  BY InvStep
<1> QED
  BY <1>1, <1>2, PTL DEF Spec
-----------------------------------------------------------------------------
(* The theorems.                                                           *)

\* Types, for every number of identifiers, dispatches, retries and faults.
THEOREM TypesAreKept == Spec => []TypeOK
<1>1. Inv => TypeOK
  BY DEF Inv
<1> QED
  BY <1>1, InvAlways, PTL

\* The inductive invariant holds: every command held anywhere is one that was
\* dispatched, frames lie on the line in the order of dispatch, what was moved
\* is remembered, and every answer on its way is true.
THEOREM DispatchInvHolds == Spec => []DispatchInv
<1>1. Inv => DispatchInv
  BY DEF Inv
<1> QED
  BY <1>1, InvAlways, PTL

\* However often the transport resends and whatever the line does to the
\* frames, an arm that is not reset moves at most once for one dispatch.
THEOREM AtMostOnceHolds == Spec => []AtMostOnce
<1>1. Inv => AtMostOnce
  BY DEF Inv, DispatchInv, StartedIsRemembered, AtMostOnce
<1> QED
  BY <1>1, InvAlways, PTL

\* What send_target_command returns of a motion's end is true of that very
\* dispatch while identifiers do not repeat, whatever old answers it reads.
THEOREM ReportIsTrueHolds == Spec => []ReportIsTrue
<1>1. Inv => ReportIsTrue
  BY DEF Inv, DispatchInv
<1> QED
  BY <1>1, InvAlways, PTL

\* The step that starts a motion starts it for the accepted command, which is
\* not older than anything started before.
LEMMA StartIsNewest ==
  ASSUME Inv, TakeJob
  PROVE  /\ target = activeCommand /\ target \in Commands /\ target.n \in Dispatches
         /\ \A n \in Dispatches :
              starts'[n] = IF n = target.n THEN starts[n] + 1 ELSE starts[n]
         /\ \A m \in Dispatches : starts[m] > 0 => m <= target.n
         /\ target.n \in 1 .. dispatched
<1>1. target = activeCommand /\ activeCommand # NoCommand
  BY DEF Inv, ArmInv, AcceptedCanRun, CommandSlotInStep, TakeJob
<1>2. target \in Commands /\ target.n \in Dispatches
  BY <1>1, CommandFields DEF Inv, TypeOK, ArmTypeOK
<1>3. \A n \in Dispatches :
        starts'[n] = IF n = target.n THEN starts[n] + 1 ELSE starts[n]
  BY <1>2 DEF TakeJob, Inv, TypeOK, ArmTypeOK
<1>4. \A m \in Dispatches : starts[m] > 0 => m <= target.n
  BY <1>1 DEF Inv, DispatchInv, LineInOrder
<1>5. target.n \in 1 .. dispatched
  BY <1>1, <1>2, DispatchBound
     DEF Inv, DispatchInv, CommandsKnown, Known, Dispatches, TypeOK, TransportTypeOK
<1> QED
  BY <1>1, <1>2, <1>3, <1>4, <1>5

\* Only loop() taking a command starts a motion.
LEMMA OnlyTakeJobStarts ==
  ASSUME [Next]_vars, ~TakeJob
  PROVE  starts' = starts
<1>1. CASE ArmNext
  BY <1>1 DEF ArmNext, Receive, ParseCutFrame, ParseMergedFrame, ParseFrame, armKeeps,
     Setup, StartHoming, EndSetup, Loop, SkipJob, FinishJob, jobOver, DebugNothing,
     EndManualMotion, Console, DebugAuto, DebugMotion, ResetArm, armIdleVars
<1> QED
  BY <1>1 DEF Next, vars, armVars

\* Frames left on the line, in the arm's buffer or in its memory never make
\* the arm move for a dispatch after it moved for a later one, resets of the
\* arm and restarts of the dispatcher included.
THEOREM NoStaleMotionHolds == Spec => NoStaleMotion
<1>1. ASSUME Inv, [Next]_vars
      PROVE  [\A n \in Dispatches :
                starts'[n] > starts[n] =>
                  \A m \in Dispatches : m > n => starts[m] = 0]_vars
  <2>1. SUFFICES ASSUME NEW n \in Dispatches, starts'[n] > starts[n],
                        NEW m \in Dispatches, m > n
                 PROVE  starts[m] = 0
    OBVIOUS
  <2>2. starts[n] \in Nat /\ starts[m] \in Nat /\ n \in Nat /\ m \in Nat
    BY <1>1 DEF Inv, TypeOK, ArmTypeOK, Dispatches
  <2>3. TakeJob
    BY <1>1, <2>1, <2>2, OnlyTakeJobStarts
  <2>4. n = target.n
    BY <1>1, <2>1, <2>2, <2>3, StartIsNewest
  <2>5. starts[m] > 0 => m <= n
    BY <1>1, <2>3, <2>4, StartIsNewest
  <2> QED
    BY <2>1, <2>2, <2>5
<1> QED
  BY <1>1, InvAlways, PTL DEF Spec, NoStaleMotion
-----------------------------------------------------------------------------
(* Refusals that are final.                                                *)

Lossless == NoIdReuse /\ damage = 0

\* The n-th dispatch has been written once so far.
Single(n) ==
  /\ n <= dispatched
  /\ IF n = dispatched /\ phase # "idle" THEN attempt = 1 ELSE tries[n] = 1

Waits(n) == \E j \in 1 .. Len(toArm) : toArm[j].cmd.n = n
OnceOnly(n) ==
  \A j, k \in 1 .. Len(toArm) : toArm[j].cmd.n = n /\ toArm[k].cmd.n = n => j = k
Refused(n) ==
  \/ \E k \in 1 .. Len(toJetson) : toJetson[k].n = n /\ toJetson[k].status \in {"BUSY", "NAK"}
  \/ report[n] \in {"BUSY", "NAK"}
Untouched(n) == starts[n] = 0 /\ (activeCommand # NoCommand => activeCommand.n # n)

\* Its one frame waits, or was refused, or was accepted: never two of them.
Decided(n) ==
  /\ OnceOnly(n)
  /\ Waits(n) => Untouched(n) /\ ~Refused(n)
  /\ Refused(n) => Untouched(n)

AllWhole == rxCut = FALSE /\ \A j \in 1 .. Len(toArm) : toArm[j].kind = "whole"
Named(r) == r.n \in 1 .. dispatched /\ r.id = issued[r.n].id
AnswersNamed == \A k \in 1 .. Len(toJetson) : Named(toJetson[k])

RefusalInv ==
  Lossless => /\ AllWhole /\ AnswersNamed
              /\ \A n \in Dispatches : Single(n) => Decided(n)

\* The line gets no longer: what is left lay d places further back.
Shrunk(d) ==
  /\ d \in Nat /\ Len(toArm) \in Nat /\ Len(toArm') \in Nat /\ Len(toArm') + d <= Len(toArm)
  /\ \A j \in 1 .. Len(toArm') : toArm'[j] = toArm[j + d]

LEMMA ShrunkFacts ==
  ASSUME NEW d, Shrunk(d)
  PROVE  /\ \A j \in 1 .. Len(toArm') : j + d \in 1 .. Len(toArm)
         /\ \A n \in Dispatches : OnceOnly(n) => OnceOnly(n)'
         /\ \A n \in Dispatches : Waits(n)' => Waits(n)
         /\ AllWhole /\ rxCut' = FALSE => AllWhole'
<1>1. \A j \in 1 .. Len(toArm') : j + d \in 1 .. Len(toArm)
  BY DEF Shrunk
<1>2. ASSUME NEW n \in Dispatches, OnceOnly(n) PROVE OnceOnly(n)'
  <2>1. SUFFICES ASSUME NEW j \in 1 .. Len(toArm'), NEW k \in 1 .. Len(toArm'),
                        toArm'[j].cmd.n = n, toArm'[k].cmd.n = n
                 PROVE  j = k
    BY DEF OnceOnly
  <2>2. j + d = k + d BY <1>1, <1>2, <2>1 DEF Shrunk, OnceOnly
  <2> QED BY <2>2 DEF Shrunk
<1>3. ASSUME NEW n \in Dispatches, Waits(n)' PROVE Waits(n)
  BY <1>1, <1>3 DEF Shrunk, Waits
<1>4. AllWhole /\ rxCut' = FALSE => AllWhole'
  BY <1>1 DEF Shrunk, AllWhole
<1> QED BY <1>1, <1>2, <1>3, <1>4

\* A step that writes no frame keeps the invariant when the answers it adds are
\* named right, a refusal it adds is of a frame it takes, and it touches no
\* dispatch that waits or was refused.
LEMMA RefusalCore ==
  ASSUME RefusalInv, Lossless, NEW d, Shrunk(d), rxCut' = FALSE, AnswersNamed',
         \A n \in Dispatches : Single(n)' => Single(n),
         \A n \in Dispatches : Single(n) /\ Refused(n)' =>
            Refused(n) \/ (Untouched(n) /\ ~Waits(n)'),
         \A n \in Dispatches : Single(n) /\ (Waits(n)' \/ Refused(n)') /\ Untouched(n) => Untouched(n)'
  PROVE  RefusalInv'
<1>1. /\ AllWhole /\ AnswersNamed
      /\ \A n \in Dispatches : Single(n) => Decided(n)
  BY DEF RefusalInv
<1>2. AllWhole' BY <1>1, ShrunkFacts
<1>3. ASSUME NEW n \in Dispatches, Single(n)' PROVE Decided(n)'
  <2>1. Single(n) /\ Decided(n) BY <1>1, <1>3
  <2>2. OnceOnly(n)' /\ (Waits(n)' => Waits(n)) BY <2>1, ShrunkFacts DEF Decided
  <2>3. Waits(n)' => Untouched(n)' /\ ~Refused(n)' BY <2>1, <2>2 DEF Decided
  <2>4. Refused(n)' => Untouched(n)' BY <2>1 DEF Decided
  <2> QED BY <2>2, <2>3, <2>4 DEF Decided
<1> QED BY <1>2, <1>3 DEF RefusalInv

LEMMA SameShrunk ==
  ASSUME LinkTypeOK, toArm' = toArm
  PROVE  Shrunk(0)
BY LenProperties DEF LinkTypeOK, Shrunk

LEMMA TailShrunk ==
  ASSUME LinkTypeOK, toArm # <<>>, toArm' = Tail(toArm)
  PROVE  Shrunk(1)
BY HeadFrame DEF Shrunk

\* Steps that neither answer nor report, start nothing and accept nothing.
LEMMA RefusalQuiet ==
  ASSUME RefusalInv, NEW d, Shrunk(d), rxCut' \in {rxCut, FALSE},
         UNCHANGED <<dispatched, issued, phase, attempt, tries, report, toJetson, starts,
                     restarts, damage>>,
         activeCommand' \in {activeCommand, NoCommand}
  PROVE  RefusalInv'
<1>1. SUFFICES ASSUME Lossless PROVE RefusalInv'
  BY DEF RefusalInv, Lossless, NoIdReuse
<1>2. AllWhole /\ AnswersNamed BY <1>1 DEF RefusalInv
<1>3. rxCut' = FALSE BY <1>2 DEF AllWhole
<1>4. AnswersNamed' BY <1>2 DEF AnswersNamed, Named
<1>5. \A n \in Dispatches : (Single(n)' => Single(n)) /\ (Refused(n)' => Refused(n))
  BY DEF Single, Refused
<1>6. \A n \in Dispatches : Untouched(n) => Untouched(n)' BY DEF Untouched
<1> QED BY <1>1, <1>3, <1>4, <1>5, <1>6, RefusalCore

LEMMA RefusalTakeJob ==
  ASSUME Inv, RefusalInv, TakeJob, UNCHANGED transportVars
  PROVE  RefusalInv'
<1>1. SUFFICES ASSUME Lossless PROVE RefusalInv'
  BY DEF RefusalInv, Lossless, NoIdReuse, TakeJob, linkVars, transportVars
<1>2. AllWhole /\ AnswersNamed BY <1>1 DEF RefusalInv
<1>3. UNCHANGED <<toArm, toJetson, rxCut, activeCommand>> /\ UNCHANGED transportVars
  BY DEF TakeJob, linkVars
<1>4. Shrunk(0) /\ rxCut' = FALSE /\ AnswersNamed'
  BY <1>2, <1>3, SameShrunk DEF AllWhole, AnswersNamed, Named, transportVars, Inv, TypeOK
<1>5. \A n \in Dispatches : (Single(n)' => Single(n)) /\ (Refused(n)' => Refused(n))
  BY <1>3 DEF Single, Refused, transportVars
<1>6. /\ target = activeCommand /\ activeCommand # NoCommand
      /\ \A n \in Dispatches :
           starts'[n] = IF n = target.n THEN starts[n] + 1 ELSE starts[n]
  BY StartIsNewest, NoCommandAssumption
<1>7. \A n \in Dispatches : Untouched(n) => Untouched(n)'
  BY <1>3, <1>6 DEF Untouched
<1> QED BY <1>1, <1>4, <1>5, <1>7, RefusalCore

LEMMA RefusalFinishJob ==
  ASSUME Inv, RefusalInv, NEW ok \in BOOLEAN, FinishJob(ok), UNCHANGED transportVars
  PROVE  RefusalInv'
<1> DEFINE c == job.cmd
           st == IF ok THEN "DONE" ELSE "FAULT"
           r == Response(c, st)
<1>1. SUFFICES ASSUME Lossless PROVE RefusalInv'
  BY DEF RefusalInv, Lossless, NoIdReuse, FinishJob, jobOver, transportVars
<1>2. AllWhole /\ AnswersNamed BY <1>1 DEF RefusalInv
<1>3. c = activeCommand /\ c # NoCommand /\ c \in Commands
  BY NoCommandAssumption DEF FinishJob, jobOver, Inv, ArmInv, JobAnswersItsCommand, TypeOK, ArmTypeOK
<1>4. c.n \in 1 .. dispatched /\ c = issued[c.n]
  BY <1>3, CommandFields, DispatchBound
     DEF Inv, DispatchInv, CommandsKnown, Known, Dispatches, TypeOK, TransportTypeOK
<1>5. r.n = c.n /\ r.id = c.id /\ r.status \in {"DONE", "FAULT"} BY DEF Response
<1>6. r \in Responses BY <1>3, AnswerType DEF Statuses
<1>7. toJetson' = Append(toJetson, r) /\ UNCHANGED <<toArm, rxCut, starts>> /\ activeCommand' = NoCommand
  BY DEF FinishJob, jobOver, sendResponse
<1> HIDE DEF c, st, r
<1>8. /\ Len(toJetson) \in Nat /\ Len(toJetson') = Len(toJetson) + 1
      /\ \A j \in 1 .. Len(toJetson) : toJetson'[j] = toJetson[j]
      /\ toJetson'[Len(toJetson) + 1] = r
  BY <1>6, <1>7, AppendProperties, LenProperties DEF Inv, TypeOK, LinkTypeOK
<1>9. \A k \in 1 .. Len(toJetson') :
        (k \in 1 .. Len(toJetson) /\ toJetson'[k] = toJetson[k]) \/ toJetson'[k] = r
  BY <1>8
<1>10. r.n \in 1 .. dispatched /\ r.id = issued[r.n].id BY <1>4, <1>5
<1>11. AnswersNamed' BY <1>2, <1>9, <1>10 DEF AnswersNamed, Named, transportVars
<1>12. Shrunk(0) /\ rxCut' = FALSE
  BY <1>2, <1>7, SameShrunk DEF AllWhole, Inv, TypeOK
<1>13. \A n \in Dispatches : Single(n)' => Single(n) BY DEF Single, transportVars
<1>14. \A n \in Dispatches : Refused(n)' => Refused(n)
  BY <1>5, <1>9 DEF Refused, transportVars
<1>15. \A n \in Dispatches : Untouched(n) => Untouched(n)' BY <1>7 DEF Untouched
<1> QED BY <1>1, <1>11, <1>12, <1>13, <1>14, <1>15, RefusalCore

\* A frame that is taken from the line: the only one of its dispatch, if that was
\* written once.
LEMMA TakenFrame ==
  ASSUME Inv, RefusalInv, Lossless, toArm # <<>>, toArm' = Tail(toArm),
         NEW c, c = Head(toArm).cmd
  PROVE  /\ c \in Commands /\ c.n \in Dispatches /\ c.n \in 1 .. dispatched /\ c = issued[c.n]
         /\ \A n \in Dispatches : n = c.n /\ Single(n) => ~Waits(n)' /\ Untouched(n) /\ ~Refused(n)
<1> DEFINE h == Head(toArm)
<1>1. h = toArm[1] /\ Len(toArm) \in Nat \ {0} /\ 1 \in 1 .. Len(toArm) /\ c \in Commands
  BY HeadFrame DEF Inv, TypeOK
<1>2. h.kind = "whole" BY <1>1 DEF RefusalInv, AllWhole
<1>3. c = issued[c.n] /\ c.n <= dispatched
  BY <1>2, HeadInOrder DEF Inv, TypeOK, DispatchInv, Known
<1>4. c.n \in Dispatches /\ c.n \in 1 .. dispatched
  BY <1>1, <1>3, CommandFields, DispatchBound DEF Dispatches, Inv, TypeOK, TransportTypeOK
<1>5. Shrunk(1) BY TailShrunk DEF Inv, TypeOK
<1>6. ASSUME NEW n \in Dispatches, n = c.n, Single(n)
      PROVE  ~Waits(n)' /\ Untouched(n) /\ ~Refused(n)
  <2>1. Decided(n) /\ Waits(n) BY <1>1, <1>6 DEF RefusalInv, Waits
  <2>2. ASSUME NEW j \in 1 .. Len(toArm'), toArm'[j].cmd.n = n PROVE FALSE
    <3>1. j + 1 \in 1 .. Len(toArm) /\ toArm[j + 1].cmd.n = n
      BY <1>5, <2>2, ShrunkFacts DEF Shrunk
    <3>2. j + 1 = 1 BY <1>1, <1>6, <2>1, <3>1 DEF Decided, OnceOnly
    <3> QED BY <3>2
  <2> QED BY <2>1, <2>2 DEF Decided, Waits
<1> QED BY <1>1, <1>3, <1>4, <1>6

\* What the receiver answers to a frame that it takes.
LEMMA RefusalAnswer ==
  ASSUME Inv, RefusalInv, Lossless, toArm # <<>>, toArm' = Tail(toArm), rxCut' = rxCut,
         NEW c, c = Head(toArm).cmd, NEW st \in Statuses, sendResponse(c, st),
         UNCHANGED <<starts, activeCommand>>, UNCHANGED transportVars
  PROVE  RefusalInv'
<1> DEFINE r == Response(c, st)
<1>1. AllWhole /\ AnswersNamed BY DEF RefusalInv
<1>2. /\ c \in Commands /\ c.n \in Dispatches /\ c.n \in 1 .. dispatched /\ c = issued[c.n]
      /\ \A n \in Dispatches : n = c.n /\ Single(n) => ~Waits(n)' /\ Untouched(n)
  BY TakenFrame
<1>3. r \in Responses BY <1>2, AnswerType
<1>4. r.n = c.n /\ r.id = c.id BY DEF Response
<1>5. toJetson' = Append(toJetson, r) BY DEF sendResponse
<1> HIDE DEF r
<1>6. /\ Len(toJetson) \in Nat /\ Len(toJetson') = Len(toJetson) + 1
      /\ \A j \in 1 .. Len(toJetson) : toJetson'[j] = toJetson[j]
      /\ toJetson'[Len(toJetson) + 1] = r
  BY <1>3, <1>5, AppendProperties, LenProperties DEF Inv, TypeOK, LinkTypeOK
<1>7. \A k \in 1 .. Len(toJetson') :
        (k \in 1 .. Len(toJetson) /\ toJetson'[k] = toJetson[k]) \/ toJetson'[k] = r
  BY <1>6
<1>8. r.n \in 1 .. dispatched /\ r.id = issued[r.n].id BY <1>2, <1>4
<1>9. AnswersNamed' BY <1>1, <1>7, <1>8 DEF AnswersNamed, Named, transportVars
<1>10. Shrunk(1) /\ rxCut' = FALSE BY <1>1, TailShrunk DEF AllWhole, Inv, TypeOK
<1>11. \A n \in Dispatches : Single(n)' => Single(n) BY DEF Single, transportVars
<1>12. ASSUME NEW n \in Dispatches, Single(n), Refused(n)'
       PROVE  Refused(n) \/ (Untouched(n) /\ ~Waits(n)')
  <2>1. Refused(n) \/ n = c.n BY <1>4, <1>7, <1>12 DEF Refused, transportVars
  <2> QED BY <1>2, <1>12, <2>1
<1>13. \A n \in Dispatches : Untouched(n) => Untouched(n)' BY DEF Untouched
<1> QED BY <1>9, <1>10, <1>11, <1>12, <1>13, RefusalCore

LEMMA RefusalAccept ==
  ASSUME Inv, RefusalInv, Lossless, toArm # <<>>, toArm' = Tail(toArm), rxCut' = rxCut,
         NEW c, c = Head(toArm).cmd, sendResponse(c, "ACK"), activeCommand' = c,
         activeCommand = NoCommand, UNCHANGED starts, UNCHANGED transportVars
  PROVE  RefusalInv'
<1> DEFINE r == Response(c, "ACK")
<1>1. AllWhole /\ AnswersNamed BY DEF RefusalInv
<1>2. /\ c \in Commands /\ c.n \in Dispatches /\ c.n \in 1 .. dispatched /\ c = issued[c.n]
      /\ \A n \in Dispatches : n = c.n /\ Single(n) => ~Waits(n)' /\ ~Refused(n)
  BY TakenFrame
<1>3. r \in Responses BY <1>2, AnswerType DEF Statuses
<1>4. r.n = c.n /\ r.id = c.id /\ r.status = "ACK" BY DEF Response
<1>5. toJetson' = Append(toJetson, r) BY DEF sendResponse
<1> HIDE DEF r
<1>6. /\ Len(toJetson) \in Nat /\ Len(toJetson') = Len(toJetson) + 1
      /\ \A j \in 1 .. Len(toJetson) : toJetson'[j] = toJetson[j]
      /\ toJetson'[Len(toJetson) + 1] = r
  BY <1>3, <1>5, AppendProperties, LenProperties DEF Inv, TypeOK, LinkTypeOK
<1>7. \A k \in 1 .. Len(toJetson') :
        (k \in 1 .. Len(toJetson) /\ toJetson'[k] = toJetson[k]) \/ toJetson'[k] = r
  BY <1>6
<1>8. r.n \in 1 .. dispatched /\ r.id = issued[r.n].id BY <1>2, <1>4
<1>9. AnswersNamed' BY <1>1, <1>7, <1>8 DEF AnswersNamed, Named, transportVars
<1>10. Shrunk(1) /\ rxCut' = FALSE BY <1>1, TailShrunk DEF AllWhole, Inv, TypeOK
<1>11. \A n \in Dispatches : Single(n)' => Single(n) BY DEF Single, transportVars
<1>12. \A n \in Dispatches : Refused(n)' => Refused(n)
  BY <1>4, <1>7 DEF Refused, transportVars
<1>13. ASSUME NEW n \in Dispatches, Single(n), Waits(n)' \/ Refused(n)', Untouched(n)
       PROVE  Untouched(n)'
  <2>1. n # c.n BY <1>2, <1>12, <1>13
  <2> QED BY <1>13, <2>1 DEF Untouched
<1> QED BY <1>9, <1>10, <1>11, <1>12, <1>13, RefusalCore

\* A repeated result: ACK and the result, neither of them a refusal.
LEMMA RefusalRepeat ==
  ASSUME Inv, RefusalInv, Lossless, toArm # <<>>, toArm' = Tail(toArm), rxCut' = rxCut,
         NEW c, c = Head(toArm).cmd, isDuplicateOfResult(c), repeatResult(c),
         UNCHANGED starts, UNCHANGED transportVars
  PROVE  RefusalInv'
<1> DEFINE a == Response(c, "ACK")
           b == Response(c, lastResult.status)
<1>1. AllWhole /\ AnswersNamed BY DEF RefusalInv
<1>2. c \in Commands /\ c.n \in 1 .. dispatched /\ c = issued[c.n] BY TakenFrame
<1>3. lastResult.status \in {"DONE", "FAULT"}
  BY DEF isDuplicateOfResult, Inv, TypeOK, ArmTypeOK
<1>4. a \in Responses /\ b \in Responses BY <1>2, <1>3, AnswerType DEF Statuses
<1>5. /\ a.n = c.n /\ a.id = c.id /\ a.status = "ACK"
      /\ b.n = c.n /\ b.id = c.id /\ b.status \in {"DONE", "FAULT"}
  BY <1>3 DEF Response
<1>6. toJetson' = toJetson \o <<a, b>> /\ UNCHANGED activeCommand BY DEF repeatResult
<1> HIDE DEF a, b
<1>7. /\ Len(toJetson) \in Nat /\ Len(toJetson') = Len(toJetson) + 2
      /\ \A j \in 1 .. Len(toJetson) : toJetson'[j] = toJetson[j]
      /\ toJetson'[Len(toJetson) + 1] = a /\ toJetson'[Len(toJetson) + 2] = b
  BY <1>4, <1>6, ConcatProperties, LenProperties DEF Inv, TypeOK, LinkTypeOK
<1>8. \A k \in 1 .. Len(toJetson') :
        (k \in 1 .. Len(toJetson) /\ toJetson'[k] = toJetson[k]) \/ toJetson'[k] \in {a, b}
  <2>1. \A k \in 1 .. Len(toJetson') :
          k \in 1 .. Len(toJetson) \/ k = Len(toJetson) + 1 \/ k = Len(toJetson) + 2
    BY <1>7
  <2> QED BY <1>7, <2>1
<1>9. /\ a.n \in 1 .. dispatched /\ a.id = issued[a.n].id
      /\ b.n \in 1 .. dispatched /\ b.id = issued[b.n].id
  BY <1>2, <1>5
<1>10. AnswersNamed' BY <1>1, <1>8, <1>9 DEF AnswersNamed, Named, transportVars
<1>11. Shrunk(1) /\ rxCut' = FALSE BY <1>1, TailShrunk DEF AllWhole, Inv, TypeOK
<1>12. \A n \in Dispatches : Single(n)' => Single(n) BY DEF Single, transportVars
<1>13. \A n \in Dispatches : Refused(n)' => Refused(n)
  BY <1>5, <1>8 DEF Refused, transportVars
<1>14. \A n \in Dispatches : Untouched(n) => Untouched(n)' BY <1>6 DEF Untouched
<1> QED BY <1>10, <1>11, <1>12, <1>13, <1>14, RefusalCore

LEMMA RefusalReceive ==
  ASSUME Inv, RefusalInv, Receive, UNCHANGED transportVars
  PROVE  RefusalInv'
<1>1. SUFFICES ASSUME Lossless PROVE RefusalInv'
  BY DEF RefusalInv, Lossless, NoIdReuse, Receive, ParseCutFrame, ParseMergedFrame,
     ParseFrame, transportVars
<1>2. AllWhole BY <1>1 DEF RefusalInv
<1>3. toArm # <<>> /\ toArm' = Tail(toArm) /\ armKeeps
  BY DEF Receive, ParseCutFrame, ParseMergedFrame, ParseFrame
<1>4. Head(toArm).kind = "whole"
  <2>1. Head(toArm) = toArm[1] /\ Len(toArm) \in Nat \ {0}
    BY <1>3, HeadFrame DEF Inv, TypeOK
  <2> QED BY <1>2, <2>1 DEF AllWhole
<1>5. ParseFrame BY <1>2, <1>4 DEF AllWhole, Receive, ParseCutFrame, ParseMergedFrame
<1>6. PICK c : c = Head(toArm).cmd OBVIOUS
<1>7. rxCut' = rxCut /\ UNCHANGED starts BY <1>3, <1>5 DEF ParseFrame, armKeeps
<1>8. refuse(c) \/ acceptTarget(c) BY <1>5, <1>6 DEF ParseFrame
<1>9. ASSUME NEW st \in Statuses, sendResponse(c, st), UNCHANGED activeCommand
      PROVE  RefusalInv'
  BY <1>1, <1>3, <1>6, <1>7, <1>9, RefusalAnswer
<1>10. CASE refuse(c) BY <1>9, <1>10 DEF refuse, Statuses
<1>11. CASE acceptTarget(c)
  <2>1. CASE isDuplicateOfResult(c)
    BY <1>1, <1>3, <1>6, <1>7, <1>11, <2>1, RefusalRepeat DEF acceptTarget
  <2>2. CASE ~isDuplicateOfResult(c) /\ autoMode /\ ~robotBusy /\ ~newTarget
    <3>1. sendResponse(c, "ACK") /\ activeCommand' = c
      BY <1>11, <2>2 DEF acceptTarget, takeCommand
    <3>2. activeCommand = NoCommand BY <2>2 DEF Inv, ArmInv, CommandSlotInStep
    <3> QED BY <1>1, <1>3, <1>6, <1>7, <3>1, <3>2, RefusalAccept
  <2>3. CASE ~isDuplicateOfResult(c) /\ ~(autoMode /\ ~robotBusy /\ ~newTarget)
    <3>1. PICK st \in {"ACK", "BUSY"} : sendResponse(c, st)
      BY <1>11, <2>3 DEF acceptTarget, turnAway
    <3>2. UNCHANGED activeCommand BY <1>11, <2>3 DEF acceptTarget, turnAway
    <3> QED BY <1>9, <3>1, <3>2 DEF Statuses
  <2> QED BY <2>1, <2>2, <2>3
<1> QED BY <1>8, <1>10, <1>11

\* The transport reads an answer, or ends the call for another reason.
LEMMA RefusalSettle ==
  ASSUME Inv, RefusalInv, Lossless, phase # "idle", NEW st, settle(st),
         UNCHANGED <<armVars, toArm, dispatched, issued>>, AnswersNamed',
         \A n \in Dispatches :
           (\E k \in 1 .. Len(toJetson') :
              toJetson'[k].n = n /\ toJetson'[k].status \in {"BUSY", "NAK"}) => Refused(n),
         st \in {"BUSY", "NAK"} => Refused(dispatched)
  PROVE  RefusalInv'
<1>1. cmd # NoCommand /\ cmd.n = dispatched /\ dispatched \in Dispatches
  <2>1. cmd # NoCommand /\ cmd.n = dispatched
    BY DEF Inv, DispatchInv, CommandsKnown
  <2> QED BY <2>1, CommandFields DEF Inv, TypeOK, TransportTypeOK
<1>2. /\ \A n \in Dispatches : report'[n] = IF n = dispatched THEN st ELSE report[n]
      /\ \A n \in Dispatches : tries'[n] = IF n = dispatched THEN attempt ELSE tries[n]
      /\ phase' = "idle"
  BY <1>1 DEF settle, Inv, TypeOK, TransportTypeOK
<1>3. \A n \in Dispatches : Single(n)' => Single(n) BY <1>2 DEF Single
<1>4. \A n \in Dispatches : Refused(n)' => Refused(n) BY <1>2 DEF Refused
<1>5. \A n \in Dispatches : Untouched(n) => Untouched(n)' BY DEF Untouched, armVars
<1>6. Shrunk(0) /\ rxCut' = FALSE
  BY SameShrunk DEF Inv, TypeOK, RefusalInv, AllWhole, armVars
<1> QED BY <1>3, <1>4, <1>5, <1>6, RefusalCore

LEMMA RefusalRead ==
  ASSUME Inv, RefusalInv, ReadResponse, UNCHANGED armVars
  PROVE  RefusalInv'
<1>1. SUFFICES ASSUME Lossless PROVE RefusalInv'
  BY DEF RefusalInv, Lossless, NoIdReuse, ReadResponse
<1> DEFINE r == Head(toJetson)
<1>2. AllWhole /\ AnswersNamed BY <1>1 DEF RefusalInv
<1>3. /\ Len(toJetson) \in Nat \ {0} /\ r = toJetson[1] /\ Len(toJetson') = Len(toJetson) - 1
      /\ \A j \in 1 .. Len(toJetson') : toJetson'[j] = toJetson[j + 1]
  BY HeadTailProperties, EmptySeq DEF ReadResponse, Inv, TypeOK, LinkTypeOK
<1>4. \A j \in 1 .. Len(toJetson') : j + 1 \in 1 .. Len(toJetson) BY <1>3
<1>5. 1 \in 1 .. Len(toJetson) BY <1>3
<1>6. AnswersNamed'
  BY <1>2, <1>3, <1>4 DEF AnswersNamed, Named, ReadResponse
<1>7. \A n \in Dispatches :
        (\E k \in 1 .. Len(toJetson') :
           toJetson'[k].n = n /\ toJetson'[k].status \in {"BUSY", "NAK"}) => Refused(n)
  BY <1>3, <1>4 DEF Refused
<1>8. UNCHANGED <<toArm, dispatched, issued>> /\ phase # "idle" BY DEF ReadResponse
<1>9. CASE r.id = cmd.id /\ settle(r.status)
  <2>1. cmd.n = dispatched /\ cmd = issued[cmd.n] /\ cmd.n \in 1 .. dispatched
    <3>1. cmd # NoCommand /\ cmd.n = dispatched /\ cmd = issued[cmd.n]
      BY <1>8 DEF Inv, DispatchInv, CommandsKnown, Known
    <3> QED BY <3>1, CommandFields, DispatchBound DEF Inv, TypeOK, TransportTypeOK, Dispatches
  <2>2. r.n \in 1 .. dispatched /\ r.id = issued[r.n].id
    BY <1>2, <1>3, <1>5 DEF AnswersNamed, Named
  <2>3. NoIdReuse /\ IdsCounted BY <1>1 DEF Lossless, Inv, DispatchInv, ResultsAreTrue
  <2>4. r.n = dispatched BY <1>9, <2>1, <2>2, <2>3, IdsDiffer DEF Inv, DispatchInv
  <2>5. r.status \in {"BUSY", "NAK"} => Refused(dispatched) BY <1>3, <1>5, <2>4 DEF Refused
  <2> HIDE DEF r
  <2> QED BY <1>1, <1>6, <1>7, <1>8, <1>9, <2>5, RefusalSettle
<1>10. CASE UNCHANGED <<attempt, cmd, commandId, report, tries>> /\ phase' # "idle"
  <2>1. \A n \in Dispatches : Single(n)' => Single(n) BY <1>8, <1>10 DEF Single
  <2>2. \A n \in Dispatches : Refused(n)' => Refused(n) BY <1>7, <1>10 DEF Refused
  <2>3. \A n \in Dispatches : Untouched(n) => Untouched(n)' BY DEF Untouched, armVars
  <2>4. Shrunk(0) /\ rxCut' = FALSE
    BY <1>2, <1>8, SameShrunk DEF Inv, TypeOK, AllWhole, armVars
  <2> QED BY <1>1, <1>6, <2>1, <2>2, <2>3, <2>4, RefusalCore
<1> QED BY <1>8, <1>9, <1>10 DEF ReadResponse

LEMMA RefusalEndCall ==
  ASSUME Inv, RefusalInv, EndCall, UNCHANGED armVars
  PROVE  RefusalInv'
<1>1. SUFFICES ASSUME Lossless PROVE RefusalInv'
  BY DEF RefusalInv, Lossless, NoIdReuse, EndCall, GiveUp, PortFails, linkVars
<1>2. PICK st \in {"RESPONSE_TIMEOUT", "UART_FAILED"} : settle(st)
  BY DEF EndCall, GiveUp, PortFails
<1>3. phase # "idle" /\ UNCHANGED <<dispatched, issued, toArm, toJetson>>
  BY DEF EndCall, GiveUp, PortFails, linkVars
<1>4. AnswersNamed' BY <1>1, <1>3 DEF RefusalInv, AnswersNamed, Named
<1>5. \A n \in Dispatches :
        (\E k \in 1 .. Len(toJetson') :
           toJetson'[k].n = n /\ toJetson'[k].status \in {"BUSY", "NAK"}) => Refused(n)
  BY <1>3 DEF Refused
<1>6. st \in {"BUSY", "NAK"} => Refused(dispatched) OBVIOUS
<1> QED BY <1>1, <1>2, <1>3, <1>4, <1>5, <1>6, RefusalSettle

\* Writing a frame: the dispatch m is written for the first time, or it is not a
\* single one any more; the others see nothing of it.
LEMMA RefusalWrite ==
  ASSUME Inv, RefusalInv, Lossless, NEW c \in Commands, write(c),
         UNCHANGED <<armVars, toJetson, report, tries>>,
         NEW m, m = c.n, AnswersNamed',
         \A n \in Dispatches : n # m /\ Single(n)' => Single(n),
         Single(m)' => ~Waits(m) /\ ~Refused(m) /\ Untouched(m)
  PROVE  RefusalInv'
<1>1. /\ AllWhole /\ \A n \in Dispatches : Single(n) => Decided(n) BY DEF RefusalInv
<1>2. /\ Len(toArm) \in Nat /\ Len(toArm') = Len(toArm) + 1
      /\ \A j \in 1 .. Len(toArm) : toArm'[j] = toArm[j]
      /\ toArm'[Len(toArm) + 1].cmd = c
      /\ toArm'[Len(toArm) + 1].kind = "whole"
  BY WriteFacts DEF Inv, TypeOK
<1>3. \A j \in 1 .. Len(toArm') :
        \/ j \in 1 .. Len(toArm) /\ toArm'[j] = toArm[j]
        \/ j = Len(toArm) + 1 /\ toArm'[j].cmd.n = m /\ toArm'[j].kind = "whole"
  <2>1. \A j \in 1 .. Len(toArm') : j \in 1 .. Len(toArm) \/ j = Len(toArm) + 1
    BY <1>2
  <2> QED BY <1>2, <2>1
<1>4. AllWhole' BY <1>1, <1>3 DEF AllWhole, armVars
<1>5. \A n \in Dispatches : (Refused(n)' <=> Refused(n)) /\ (Untouched(n)' <=> Untouched(n))
  BY DEF Refused, Untouched, armVars
<1>6. ASSUME NEW n \in Dispatches, n # m, Single(n)' PROVE Decided(n)'
  <2>1. Decided(n) BY <1>1, <1>6
  <2>2. OnceOnly(n)' BY <1>3, <1>6, <2>1 DEF Decided, OnceOnly
  <2>3. Waits(n)' => Waits(n) BY <1>3, <1>6 DEF Waits
  <2> QED BY <1>5, <2>1, <2>2, <2>3 DEF Decided
<1>7. ASSUME NEW n \in Dispatches, n = m, Single(n)' PROVE Decided(n)'
  <2>1. ~Waits(n) /\ ~Refused(n) /\ Untouched(n) BY <1>7
  <2>2. OnceOnly(n)' BY <1>3, <2>1 DEF Waits, OnceOnly
  <2> QED BY <1>5, <2>1, <2>2 DEF Decided
<1> QED BY <1>4, <1>6, <1>7 DEF RefusalInv

LEMMA RefusalResend ==
  ASSUME Inv, RefusalInv, ResendAfterTimeout, UNCHANGED armVars
  PROVE  RefusalInv'
<1>1. SUFFICES ASSUME Lossless PROVE RefusalInv'
  BY DEF RefusalInv, Lossless, NoIdReuse, ResendAfterTimeout
<1>2. /\ cmd \in Commands /\ cmd.n = dispatched /\ write(cmd) /\ phase' # "idle"
      /\ attempt' = attempt + 1 /\ attempt \in 1 .. Retries + 1
      /\ UNCHANGED <<toJetson, report, tries, dispatched, issued>>
  BY DEF ResendAfterTimeout, Inv, DispatchInv, CommandsKnown, TypeOK, TransportTypeOK
<1>3. PICK c \in Commands : c = cmd BY <1>2
<1>4. AnswersNamed' BY <1>1, <1>2 DEF RefusalInv, AnswersNamed, Named
<1>5. \A n \in Dispatches : n # dispatched /\ Single(n)' => Single(n) BY <1>2 DEF Single
<1>6. PICK m : m = dispatched OBVIOUS
<1>7. ~Single(m)'
  <2>1. attempt' # 1 BY <1>2, TransportBounds
  <2> QED BY <1>2, <1>6, <2>1 DEF Single
<1> QED BY <1>1, <1>2, <1>3, <1>4, <1>5, <1>6, <1>7, RefusalWrite

LEMMA RefusalDispatch ==
  ASSUME Inv, RefusalInv, NEW s \in Slots, NEW p \in Points, Dispatch(s, p), UNCHANGED armVars
  PROVE  RefusalInv'
<1>1. SUFFICES ASSUME Lossless PROVE RefusalInv'
  BY DEF RefusalInv, Lossless, NoIdReuse, Dispatch
<1>2. /\ cmd' \in Commands /\ cmd'.n = dispatched + 1
      /\ dispatched' = dispatched + 1 /\ dispatched' \in 1 .. MaxDispatches
      /\ \A n \in 1 .. dispatched : issued'[n] = issued[n]
  BY DispatchFacts DEF Inv
<1>3. /\ write(cmd') /\ phase = "idle"
      /\ UNCHANGED <<toJetson, report, tries>>
  BY DEF Dispatch
<1>4. PICK c \in Commands : c = cmd' BY <1>2
<1>5. dispatched \in Nat BY DispatchBound DEF Inv, TypeOK, TransportTypeOK
<1>6. AnswersNamed
  BY <1>1 DEF RefusalInv
<1>7. AnswersNamed' BY <1>2, <1>3, <1>5, <1>6 DEF AnswersNamed, Named
<1>8. \A n \in Dispatches : n # dispatched + 1 /\ Single(n)' => Single(n)
  BY <1>2, <1>3, <1>5 DEF Single, Dispatches
<1>9. PICK m \in Dispatches : m = dispatched + 1 BY <1>2 DEF Dispatches
<1>10. ~Waits(m)
  BY <1>5, <1>9 DEF Waits, Inv, DispatchInv, CommandsKnown, LineKnown
<1>11. ~Refused(m)
  <2>1. report[m] = "none" BY <1>5, <1>9 DEF Inv, VerdictsGiven
  <2>2. \A k \in 1 .. Len(toJetson) : toJetson[k].n # m
    BY <1>5, <1>6, <1>9 DEF AnswersNamed, Named
  <2> QED BY <2>1, <2>2 DEF Refused
<1>12. Untouched(m)
  <2>1. starts[m] \in Nat /\ (starts[m] > 0 => m <= dispatched)
    BY <1>9 DEF Inv, DispatchInv, LineInOrder, TypeOK, ArmTypeOK
  <2>2. activeCommand # NoCommand => activeCommand.n <= dispatched
    BY DEF Inv, DispatchInv, CommandsKnown, Known
  <2> QED BY <1>5, <1>9, <2>1, <2>2 DEF Untouched
<1> QED BY <1>1, <1>2, <1>3, <1>4, <1>7, <1>8, <1>9, <1>10, <1>11, <1>12, RefusalWrite

LEMMA RefusalStep ==
  ASSUME Inv, RefusalInv, [Next]_vars
  PROVE  RefusalInv'
<1>1. CASE ArmNext /\ UNCHANGED transportVars
  <2>1. CASE Receive BY <1>1, <2>1, RefusalReceive
  <2>2. CASE TakeJob BY <1>1, <2>2, RefusalTakeJob
  <2>3. ASSUME NEW ok \in BOOLEAN, FinishJob(ok) PROVE RefusalInv'
    BY <1>1, <2>3, RefusalFinishJob
  <2>4. CASE OtherSteps
    <3>1. UNCHANGED <<toArm, toJetson, damage, rxCut, starts, activeCommand>>
      BY <2>4 DEF OtherSteps, Setup, StartHoming, EndSetup, SkipJob, DebugNothing,
         EndManualMotion, Console, DebugAuto, DebugMotion, armIdleVars, linkVars
    <3>2. Shrunk(0) BY <3>1, SameShrunk DEF Inv, TypeOK
    <3> QED BY <1>1, <3>1, <3>2, RefusalQuiet DEF transportVars
  <2>5. CASE ResetArm
    <3>1. PICK d \in 0 .. Len(toArm) : toArm' = SubSeq(toArm, d + 1, Len(toArm))
      BY <2>5 DEF ResetArm
    <3>2. Shrunk(d)
      <4>1. toArm \in Seq(Frames) /\ Len(toArm) \in Nat
        BY LenProperties DEF Inv, TypeOK, LinkTypeOK
      <4>2. /\ Len(toArm') = Len(toArm) - d
            /\ \A j \in 1 .. Len(toArm) - d : toArm'[j] = toArm[j + d]
        BY <3>1, <4>1, SuffixKeeps
      <4> QED BY <4>1, <4>2 DEF Shrunk
    <3>3. UNCHANGED <<toJetson, damage, starts>> /\ rxCut' = FALSE /\ activeCommand' = NoCommand
      BY <2>5 DEF ResetArm
    <3> QED BY <1>1, <3>2, <3>3, RefusalQuiet DEF transportVars
  <2> QED BY <1>1, <2>1, <2>2, <2>3, <2>4, <2>5 DEF ArmNext, Loop, OtherSteps
<1>2. CASE TransportNext /\ UNCHANGED armVars
  <2>1. ASSUME NEW s \in Slots, NEW p \in Points, Dispatch(s, p) PROVE RefusalInv'
    BY <1>2, <2>1, RefusalDispatch
  <2>2. CASE RestartJetson
    <3>1. restarts' # 0 BY <2>2 DEF RestartJetson, Inv, TypeOK, TransportTypeOK
    <3> QED BY <3>1 DEF RefusalInv, Lossless, NoIdReuse
  <2> QED
    BY <1>2, <2>1, <2>2, RefusalRead, RefusalResend, RefusalEndCall DEF TransportNext
<1>3. CASE LinkFault
  <2>1. damage' # 0
    BY <1>3 DEF LinkFault, LoseFrame, DamageFrame, LoseResponse, Inv, TypeOK, LinkTypeOK
  <2> QED BY <2>1 DEF RefusalInv, Lossless
<1>4. CASE UNCHANGED vars
  <2>1. Shrunk(0) BY <1>4, SameShrunk DEF Inv, TypeOK, vars, linkVars
  <2> QED BY <1>4, <2>1, RefusalQuiet DEF vars, armVars, transportVars, linkVars
<1> QED BY <1>1, <1>2, <1>3, <1>4 DEF Next

\* A command that was refused at its only attempt, on a line that loses nothing,
\* has not moved the arm and never will: no copy of it is left anywhere.
THEOREM FirstRefusalHolds == Spec => []FirstRefusalIsFinal
<1>1. Init => RefusalInv
  <2> SUFFICES ASSUME Init PROVE RefusalInv OBVIOUS
  <2>1. toArm = <<>> /\ toJetson = <<>> /\ rxCut = FALSE /\ dispatched = 0
    BY DEF Init, LinkInit, ArmInit, TransportInit
  <2>2. Len(toArm) = 0 /\ Len(toJetson) = 0 BY <2>1
  <2>3. \A n \in Dispatches : ~Single(n) BY <2>1 DEF Single, Dispatches
  <2> QED BY <2>1, <2>2, <2>3 DEF RefusalInv, AllWhole, AnswersNamed
<1>2. Inv /\ RefusalInv /\ [Next]_vars => RefusalInv'
  BY RefusalStep
<1>3. Inv /\ RefusalInv => FirstRefusalIsFinal
  <2> SUFFICES ASSUME Inv, RefusalInv, NoIdReuse, damage = 0, NEW n \in Dispatches,
                      report[n] \in {"BUSY", "NAK"}, tries[n] = 1
               PROVE  starts[n] = 0
    BY DEF FirstRefusalIsFinal
  <2>1. n <= dispatched /\ ~(n = dispatched /\ phase # "idle")
    BY DispatchBound DEF Inv, VerdictsGiven, TypeOK, TransportTypeOK, Dispatches
  <2>2. Single(n) /\ Refused(n) BY <2>1 DEF Single, Refused
  <2> QED BY <2>2 DEF RefusalInv, Lossless, Decided, Untouched
<1> QED BY <1>1, <1>2, <1>3, InvAlways, PTL DEF Spec
-----------------------------------------------------------------------------
(* The placement service.                                                  *)

\* No reset, no restart, and enough identifiers.
Undisturbed == MaxResets = 0 /\ MaxRestarts = 0 /\ MaxDispatches <= IdMod

Closed == Reported(Reports \ {"none"})
Moving == IF job = NoJob THEN 0 ELSE job.target.n

LEMMA UndisturbedFacts ==
  ASSUME Undisturbed, Inv
  PROVE  /\ resets = 0 /\ restarts = 0 /\ NoIdReuse
         /\ ~ResetArm /\ ~RestartJetson
<1>1. resets \in 0 .. 0 /\ restarts \in 0 .. 0
  BY DEF Undisturbed, Inv, TypeOK, ArmTypeOK, TransportTypeOK
<1> QED
  BY <1>1 DEF Undisturbed, NoIdReuse, ResetArm, RestartJetson

\* What the verdicts of the service are in terms of the dispatches.
LEMMA ClosedFacts ==
  ASSUME Inv
  PROVE  \A n \in Dispatches :
           n \in Closed <=> n < dispatched \/ (n = dispatched /\ phase = "idle")
<1>1. \A n \in Dispatches : report[n] \in Reports
  BY DEF Inv, TypeOK, TransportTypeOK
<1> QED
  BY <1>1 DEF Inv, VerdictsGiven, Closed, Reported

\* The service's view of a step that reports nothing and moves nothing.
LEMMA SameView ==
  ASSUME UNCHANGED <<dispatched, report, starts, job, placed, failed>>
  PROVE  UNCHANGED Service!serviceVars
BY DEF Service!serviceVars, started, Reported

\* A dispatch opens a job.
LEMMA DispatchOpens ==
  ASSUME Inv, Inv', NEW s \in Slots, NEW p \in Points, Dispatch(s, p),
         UNCHANGED armVars
  PROVE  Service!Open
<1>1. /\ dispatched < MaxDispatches /\ phase = "idle" /\ dispatched' = dispatched + 1
      /\ report' = report /\ dispatched \in Nat
  BY IssuedSeq DEF Dispatch, Inv
<1>2. dispatched = 0 \/ dispatched \in Closed
  <2>1. dispatched # 0 => dispatched \in Dispatches
    BY <1>1, DispatchBound DEF Dispatches
  <2> QED
    BY <1>1, <2>1, ClosedFacts
<1> QED
  BY <1>1, <1>2 DEF Service!Open, Closed, Reported, started, armVars

\* A call that returns closes the newest job, and its verdict is true.
LEMMA SettleCloses ==
  ASSUME Undisturbed, Inv, Inv', phase # "idle", NEW why \in Reports \ {"none"},
         settle(why), UNCHANGED <<armVars, dispatched>>
  PROVE  Service!Close
<1>1. cmd.n = dispatched /\ dispatched \in Dispatches
  <2>1. cmd # NoCommand /\ cmd.n = dispatched
    BY DEF Inv, DispatchInv, CommandsKnown
  <2> QED
    BY <2>1, CommandFields DEF Inv, TypeOK, TransportTypeOK
<1>2. \A n \in Dispatches : report'[n] = IF n = dispatched THEN why ELSE report[n]
  BY <1>1 DEF settle, Inv, TypeOK, TransportTypeOK
<1>3. dispatched # 0 /\ dispatched \notin Closed /\ report[dispatched] = "none"
  <2>1. report[dispatched] = "none"
    BY <1>1 DEF Inv, VerdictsGiven, Dispatches
  <2> QED
    BY <1>1, <2>1 DEF Closed, Reported, Dispatches
<1>4. /\ why = "DONE" => dispatched \in placed
      /\ why = "FAULT" => dispatched \in failed
  <2>1. ReportIsTrue' /\ NoIdReuse'
    BY UndisturbedFacts DEF Inv, DispatchInv, Undisturbed, NoIdReuse, TypeOK,
       TransportTypeOK
  <2>2. report'[dispatched] = why /\ placed' = placed /\ failed' = failed
    BY <1>1, <1>2 DEF armVars
  <2> QED
    BY <1>1, <2>1, <2>2 DEF ReportIsTrue
<1>5. /\ Closed' = Closed \cup {dispatched}
      /\ Reported({"DONE"})' = IF why = "DONE" THEN Reported({"DONE"}) \cup {dispatched}
                               ELSE Reported({"DONE"})
      /\ Reported({"FAULT"})' = IF why = "FAULT" THEN Reported({"FAULT"}) \cup {dispatched}
                                ELSE Reported({"FAULT"})
  BY <1>1, <1>2, <1>3 DEF Closed, Reported
<1>6. UNCHANGED <<started, Moving, placed, failed>>
  BY DEF armVars, started, Moving
<1> QED
  BY <1>3, <1>4, <1>5, <1>6 DEF Service!Close, Closed, Moving

\* The arm takes a command: the motion of a job begins.
LEMMA TakeJobBegins ==
  ASSUME Undisturbed, Inv, TakeJob, UNCHANGED transportVars
  PROVE  Service!Begin(target.n) /\ target.n \in Dispatches
<1>1. /\ target = activeCommand /\ target \in Commands /\ target.n \in Dispatches
      /\ \A n \in Dispatches :
           starts'[n] = IF n = target.n THEN starts[n] + 1 ELSE starts[n]
      /\ \A m \in Dispatches : starts[m] > 0 => m <= target.n
      /\ target.n \in 1 .. dispatched
  BY StartIsNewest
<1>2. starts[target.n] = 0
  BY <1>1, UndisturbedFacts DEF TakeJob, Inv, DispatchInv, StartedIsRemembered
<1>3. \A m \in Dispatches : starts[m] \in Nat
  BY DEF Inv, TypeOK, ArmTypeOK
<1>4. started' = started \cup {target.n}
  BY <1>1, <1>2, <1>3 DEF started
<1>5. \A m \in started : m < target.n
  BY <1>1, <1>2 DEF started, Dispatches
<1>6. Moving = 0 /\ Moving' = target.n
  <2>1. job = NoJob /\ job' # NoJob /\ job'.target = target
    BY <1>1, NullAssumption DEF TakeJob, Inv, ArmInv
  <2> QED
    BY <2>1 DEF Moving
<1>7. UNCHANGED <<dispatched, report, placed, failed>>
  BY DEF TakeJob, transportVars
<1> QED
  BY <1>1, <1>4, <1>5, <1>6, <1>7 DEF Service!Begin, Moving, Closed, Reported

\* The motion ends.
LEMMA FinishJobEnds ==
  ASSUME Inv, NEW ok \in BOOLEAN, FinishJob(ok), UNCHANGED transportVars
  PROVE  Service!End(ok)
<1>1. job # NoJob
  BY DEF FinishJob, jobOver, Inv, ArmInv
<1>2. job.target.n \in Dispatches
  BY <1>1, CommandFields DEF Inv, TypeOK, ArmTypeOK
<1>3. Moving = job.target.n /\ Moving # 0 /\ Moving' = 0
  BY <1>1, <1>2 DEF Moving, FinishJob, jobOver, Dispatches
<1>4. UNCHANGED <<dispatched, report, starts>>
  BY DEF FinishJob, jobOver, transportVars
<1>5. /\ placed' = IF ok THEN placed \cup {Moving} ELSE placed
      /\ failed' = IF ok THEN failed ELSE failed \cup {Moving}
  BY <1>3 DEF FinishJob, jobOver
<1> QED
  BY <1>3, <1>4, <1>5 DEF Service!End, Moving, started, Reported

\* Every step of the transport opens a job, closes one or is not seen.
LEMMA TransportServes ==
  ASSUME Undisturbed, Inv, Inv', TransportNext, UNCHANGED armVars
  PROVE  Service!Next \/ UNCHANGED Service!serviceVars
<1>1. ASSUME UNCHANGED <<dispatched, report>>
      PROVE  UNCHANGED Service!serviceVars
  BY <1>1, SameView DEF armVars
<1>2. ASSUME NEW why \in Reports \ {"none"}, settle(why), phase # "idle",
             UNCHANGED dispatched
      PROVE  Service!Next
  BY <1>2, SettleCloses DEF Service!Next
<1>3. ASSUME NEW s \in Slots, NEW p \in Points, Dispatch(s, p)
      PROVE  Service!Next
  BY <1>3, DispatchOpens DEF Service!Next
<1>4. CASE ResendAfterTimeout
  BY <1>1, <1>4 DEF ResendAfterTimeout
<1>5. CASE ReadResponse
  <2>1. Head(toJetson) \in Responses
    BY <1>5, TailAnswersKept DEF ReadResponse, Inv, TypeOK
  <2>2. Head(toJetson).status \in Reports \ {"none"}
    BY <2>1 DEF Responses, Statuses, Reports
  <2>3. /\ phase # "idle" /\ UNCHANGED dispatched
        /\ settle(Head(toJetson).status) \/ UNCHANGED report
    BY <1>5 DEF ReadResponse
  <2> QED
    BY <1>1, <1>2, <2>2, <2>3
<1>6. CASE EndCall
  <2>1. PICK why \in {"RESPONSE_TIMEOUT", "UART_FAILED"} : settle(why)
    BY <1>6 DEF EndCall, GiveUp, PortFails
  <2>2. why \in Reports \ {"none"} /\ phase # "idle" /\ UNCHANGED dispatched
    BY <1>6 DEF EndCall, GiveUp, PortFails, Reports
  <2> QED
    BY <1>2, <2>1, <2>2
<1> QED
  BY <1>3, <1>4, <1>5, <1>6, UndisturbedFacts DEF TransportNext

\* Every step of the arm begins a motion, ends one or is not seen.
LEMMA ArmServes ==
  ASSUME Undisturbed, Inv, ArmNext, UNCHANGED transportVars
  PROVE  Service!Next \/ UNCHANGED Service!serviceVars
<1>1. CASE TakeJob
  <2>1. target.n \in Service!Jobs
    BY <1>1, TakeJobBegins DEF Service!Jobs, Dispatches
  <2> QED
    BY <1>1, <2>1, TakeJobBegins DEF Service!Next
<1>2. ASSUME NEW ok \in BOOLEAN, FinishJob(ok)
      PROVE  Service!Next
  BY <1>2, FinishJobEnds DEF Service!Next
<1>3. CASE Receive \/ OtherSteps
  <2>1. UNCHANGED <<starts, job, placed, failed>>
    BY <1>3 DEF Receive, ParseCutFrame, ParseMergedFrame, ParseFrame, armKeeps,
       OtherSteps, Setup, StartHoming, EndSetup, SkipJob, DebugNothing,
       EndManualMotion, Console, DebugAuto, DebugMotion, armIdleVars
  <2> QED
    BY <2>1, SameView DEF transportVars
<1> QED
  BY <1>1, <1>2, <1>3, UndisturbedFacts DEF ArmNext, Loop, OtherSteps

LEMMA ServiceStep ==
  ASSUME Undisturbed, Inv, Inv', [Next]_vars
  PROVE  [Service!Next]_Service!serviceVars
<1>1. CASE (LinkFault /\ UNCHANGED <<armVars, transportVars>>) \/ UNCHANGED vars
  BY <1>1, SameView DEF vars, armVars, transportVars
<1> QED
  BY <1>1, TransportServes, ArmServes DEF Next

LEMMA ServiceInit ==
  ASSUME Init
  PROVE  Service!Init
BY DEF Init, ArmInit, TransportInit, Service!Init, started, Reported

\* Without resets and restarts the dispatcher and the arm are the placement
\* service, whatever the line does and however the timeouts fall: one job at a
\* time, one motion at most for each, in order, and true verdicts.
THEOREM ServiceImplemented ==
  ASSUME MaxResets = 0, MaxRestarts = 0, MaxDispatches <= IdMod
  PROVE  Spec => ImplementsService
<1>1. Undisturbed
  BY DEF Undisturbed
<1>2. Init => Service!Init
  BY ServiceInit
<1>3. Inv /\ Inv' /\ [Next]_vars => [Service!Next]_Service!serviceVars
  BY <1>1, ServiceStep
<1> QED
  BY <1>2, <1>3, InvAlways, PTL DEF Spec, ImplementsService, Service!Spec
=============================================================================

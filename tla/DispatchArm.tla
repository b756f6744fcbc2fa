----------------------------- MODULE DispatchArm -----------------------------
(***************************************************************************)
(* The dispatcher's transport and the arm controller over a line that      *)
(* loses and damages frames, with resets of the arm and restarts of the    *)
(* dispatcher: the whole path of one placement command.                    *)
(***************************************************************************)
EXTENDS OpenRbArm, TargetTransport

vars == <<armVars, transportVars, linkVars>>

TypeOK == LinkTypeOK /\ ArmTypeOK /\ TransportTypeOK

Init == LinkInit /\ ArmInit /\ TransportInit

Next ==
  \/ ArmNext /\ UNCHANGED transportVars
  \/ TransportNext /\ UNCHANGED armVars
  \/ LinkFault /\ UNCHANGED <<armVars, transportVars>>

Spec == Init /\ [][Next]_vars

\* As in AnyMaster for the arm; the worker's thread runs, and a wait ends by an
\* answer or by its timeout.
Fairness ==
  /\ WF_vars(Setup /\ UNCHANGED transportVars)
  /\ WF_vars(Loop /\ UNCHANGED transportVars)
  /\ SF_vars(Receive /\ UNCHANGED transportVars)
  /\ WF_vars((ResendAfterTimeout \/ GiveUp) /\ UNCHANGED armVars)

LiveSpec == Spec /\ Fairness
-----------------------------------------------------------------------------
\* Identifiers do not repeat: no restart of the dispatcher, and fewer dispatches
\* than there are identifiers.  (256 in a row are not enough to repeat one that
\* matters: the arm keeps the last command only.)
NoIdReuse == restarts = 0 /\ MaxDispatches <= IdMod

\* However often a command is resent, lost, damaged or overtaken by its own
\* answer, and whatever the operator types, the arm moves at most once for it
\* (openrb_target_transport.py:16-17), as long as the arm is not reset.
AtMostOnce == resets = 0 => \A n \in Dispatches : starts[n] <= 1

\* The arm never moves for a dispatch after it has moved for a later one, not
\* even when a frame of the older one was left in its RX buffer, or the arm or
\* the dispatcher was restarted in between.
NoStaleMotion ==
  [][\A n \in Dispatches :
       starts'[n] > starts[n] => \A m \in Dispatches : m > n => starts[m] = 0]_vars

\* DONE and FAULT are reported only of a motion of this very dispatch that
\* ended that way, although old answers stay in the receive buffer between
\* commands (openrb_target_transport.py:114-141).
ReportIsTrue ==
  NoIdReuse =>
    \A n \in Dispatches :
      /\ report[n] = "DONE" => n \in placed
      /\ report[n] = "FAULT" => n \in failed

\* A refusal of the first and only attempt over an undamaged line is final: the
\* arm has not moved for that command and never will.
FirstRefusalIsFinal ==
  (NoIdReuse /\ damage = 0) =>
    \A n \in Dispatches :
      (report[n] \in {"BUSY", "NAK"} /\ tries[n] = 1) => starts[n] = 0

\* The dispatch is settled in the end: the worker does not wait for an arm that
\* is off, deaf or busy for ever.
DispatchSettles == (phase # "idle") ~> (phase = "idle")

\* A command that reached the arm's place for accepted commands is run to its
\* end once no further reset comes, whatever the dispatcher made of it.
AcceptedIsRunToItsEnd ==
  (activeCommand # NoCommand /\ resets = MaxResets) ~> (activeCommand = NoCommand)

\* The promise of the pair: the abstract service.
started == {n \in Dispatches : starts[n] > 0}

Reported(S) == {n \in Dispatches : report[n] \in S}

Service == INSTANCE PlacementService WITH
  MaxJobs <- MaxDispatches,
  opened <- dispatched,
  closed <- Reported(Reports \ {"none"}),
  succeeded <- Reported({"DONE"}),
  faulted <- Reported({"FAULT"}),
  begun <- started,
  moving <- IF job = NoJob THEN 0 ELSE job.target.n,
  done <- placed,
  broken <- failed

ImplementsService == Service!Spec

\* openrb_target_transport.py:16-17 asks of the arm that an identical retry is
\* not executed twice, with no exception for an arm that was reset.
RetryNeverExecutedTwice == \A n \in Dispatches : starts[n] <= 1

\* ACK says that the command was received and is executed
\* (arduino/README.md:61); it is no reason to report a failure.
AckIsNoFailure == \A n \in Dispatches : report[n] # "ACK"
-----------------------------------------------------------------------------
(* The inductive invariant behind the safety properties.                   *)

\* c is the command of one of the dispatches so far, unaltered.
Known(c) == c.n <= dispatched /\ c = issued[c.n]

LineKnown ==
  \A j \in 1 .. Len(toArm) :
    /\ toArm[j].cmd.n <= dispatched
    /\ toArm[j].kind = "whole" => Known(toArm[j].cmd)

\* Every command held or readable anywhere is a known one; the worker's is the
\* newest.
CommandsKnown ==
  /\ \A n \in 1 .. dispatched : issued[n].n = n
  /\ cmd # NoCommand => Known(cmd) /\ cmd.n = dispatched
  /\ phase = "idle" <=> cmd = NoCommand
  /\ activeCommand # NoCommand => Known(activeCommand)
  /\ robotBusy => starts[activeCommand.n] > 0
  /\ lastResult # NoResult => Known(lastResult.cmd) /\ starts[lastResult.cmd.n] > 0
  /\ LineKnown

\* Frames lie on the line in the order of their dispatches, none older than
\* the accepted command, and nothing older than a started motion is left.
LineInOrder ==
  /\ \A j, k \in 1 .. Len(toArm) : j <= k => toArm[j].cmd.n <= toArm[k].cmd.n
  /\ activeCommand # NoCommand =>
       \A j \in 1 .. Len(toArm) : activeCommand.n <= toArm[j].cmd.n
  /\ \A m \in Dispatches : starts[m] > 0 =>
       /\ m <= dispatched
       /\ activeCommand # NoCommand => m <= activeCommand.n
       /\ \A j \in 1 .. Len(toArm) : m <= toArm[j].cmd.n

\* Without a reset: an accepted command has not been started, and what has been
\* started is running or not newer than the kept result.
StartedIsRemembered ==
  resets = 0 =>
    /\ \A m \in Dispatches : starts[m] <= 1
    /\ newTarget => starts[activeCommand.n] = 0
    /\ \A m \in Dispatches :
         (starts[m] > 0 /\ ~(robotBusy /\ activeCommand.n = m)) =>
           lastResult # NoResult /\ m <= lastResult.cmd.n

\* The identifier of the n-th dispatch of the first process.
idOf(n) == IF firstId + n - 1 < IdMod THEN firstId + n - 1
                                      ELSE firstId + n - 1 - IdMod

\* The worker counts the identifiers up.
IdsCounted ==
  /\ \A n \in 1 .. dispatched : issued[n].id = idOf(n)
  /\ commandId = idOf(IF phase = "idle" THEN dispatched + 1 ELSE dispatched)

\* The kept result is the one of the dispatch it names.
KeptResultTrue ==
  lastResult # NoResult =>
    /\ lastResult.status = "DONE" => lastResult.cmd.n \in placed
    /\ lastResult.status = "FAULT" => lastResult.cmd.n \in failed

\* So is every terminal answer on its way.
AnswersTrue ==
  \A k \in 1 .. Len(toJetson) :
    LET r == toJetson[k] IN
      r.status \in {"DONE", "FAULT"} =>
        /\ r.n \in 1 .. dispatched /\ r.id = issued[r.n].id
        /\ r.status = "DONE" => r.n \in placed
        /\ r.status = "FAULT" => r.n \in failed

ResultsAreTrue == NoIdReuse => IdsCounted /\ KeptResultTrue /\ AnswersTrue

DispatchInv ==
  /\ CommandsKnown
  /\ LineInOrder
  /\ StartedIsRemembered
  /\ ResultsAreTrue
  /\ ReportIsTrue
=============================================================================

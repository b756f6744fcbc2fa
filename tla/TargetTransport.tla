--------------------------- MODULE TargetTransport ---------------------------
(***************************************************************************)
(* The Jetson's end of the line to the arm: OpenRbTargetTransport sends a  *)
(* command, waits for ACK and then for DONE, and sends the same frame      *)
(* again when either does not come in time; ArmWorker numbers the commands *)
(* and calls it for one job at a time.                                     *)
(*                                                                         *)
(* Time is abstracted: a wait may end by its timeout at any moment, also   *)
(* while the answer is on its way.  The arm may be as slow as it likes.    *)
(***************************************************************************)
EXTENDS UartLink

CONSTANTS Retries,      \* resends after a timeout (default 2)
          MaxRestarts   \* bound: restarts of the dispatcher process

ASSUME TransportBounds == Retries \in Nat /\ MaxRestarts \in Nat

\* What a dispatch ends with: TargetCommandResult.reason, the exception of a
\* broken port, or the end of the process.
Reports == Statuses \cup {"none", "RESPONSE_TIMEOUT", "UART_FAILED", "lost"}

VARIABLES
  phase,       \* idle: no call; ackWait, doneWait: the two _read_response calls
  attempt,     \* attempt of the call, from 1
  cmd,         \* command of the call, or NoCommand
  commandId,   \* ArmWorker.command_id
  restarts,    \* restarts of the process
  dispatched,  \* commands dispatched so far
  firstId,     \* history: the identifier the first process began with
  issued,      \* history: the command of each dispatch
  report,      \* history: what send_target_command returned for it
  tries        \* history: and after how many attempts

transportVars == <<phase, attempt, cmd, commandId, restarts, dispatched,
                   firstId, issued, report, tries>>

TransportTypeOK ==
  /\ phase \in {"idle", "ackWait", "doneWait"}
  /\ attempt \in 1 .. Retries + 1
  /\ cmd \in Commands \cup {NoCommand}
  /\ commandId \in Ids /\ firstId \in Ids
  /\ restarts \in 0 .. MaxRestarts
  /\ dispatched \in 0 .. MaxDispatches
  /\ issued \in [1 .. dispatched -> Commands]
  /\ report \in [Dispatches -> Reports]
  /\ tries \in [Dispatches -> 0 .. Retries + 1]

\* command_id starts at the time of day, so anywhere.
TransportInit ==
  /\ phase = "idle" /\ attempt = 1 /\ cmd = NoCommand
  /\ commandId \in Ids /\ firstId = commandId
  /\ restarts = 0 /\ dispatched = 0
  /\ issued = <<>>
  /\ report = [n \in Dispatches |-> "none"]
  /\ tries = [n \in Dispatches |-> 0]

\* Mutant: the byte is not cut.
nextIdUncut(i) == i + 1

\* command_id + 1 in one byte.
nextId(i) == IF i = IdMod - 1 THEN 0 ELSE i + 1

write(c) == toArm' = Append(toArm, [kind |-> "whole", cmd |-> c])

\* send_target_command returns (or raises): the worker takes the next
\* identifier, because something was sent, and is free for the next job.
settle(reason) ==
  /\ report' = [report EXCEPT ![cmd.n] = reason]
  /\ tries' = [tries EXCEPT ![cmd.n] = attempt]
  /\ commandId' = nextId(commandId)
  /\ phase' = "idle" /\ attempt' = 1 /\ cmd' = NoCommand

\* The worker has selected slot s for an object at p: build_target_command and
\* the first write.  Both fields are in range here (select_slot, 616-622).
Dispatch(s, p) ==
  /\ phase = "idle" /\ dispatched < MaxDispatches
  /\ LET c == [id |-> commandId, slot |-> s, pt |-> p, n |-> dispatched + 1] IN
       /\ cmd' = c
       /\ issued' = Append(issued, c)
       /\ write(c)
  /\ dispatched' = dispatched + 1
  /\ phase' = "ackWait" /\ attempt' = 1
  /\ UNCHANGED <<commandId, restarts, firstId, report, tries, toJetson, damage>>

\* Mutants: the identifier of an answer is not compared; BUSY means to try again.
ReadAnyResponse ==
  /\ phase # "idle" /\ toJetson # <<>>
  /\ toJetson' = Tail(toJetson)
  /\ LET r == Head(toJetson) IN
       IF phase = "ackWait" /\ r.status = "ACK"
       THEN /\ phase' = "doneWait"
            /\ UNCHANGED <<attempt, cmd, commandId, report, tries>>
       ELSE settle(r.status)
  /\ UNCHANGED <<restarts, dispatched, firstId, issued, toArm, damage>>
ReadResponseRetriesBusy ==
  /\ phase # "idle" /\ toJetson # <<>>
  /\ toJetson' = Tail(toJetson)
  /\ LET r == Head(toJetson) IN
       CASE r.id # cmd.id \/ r.status = "ACK" ->
              /\ phase' = IF r.id = cmd.id THEN "doneWait" ELSE phase
              /\ UNCHANGED <<attempt, cmd, commandId, report, tries>>
         [] r.id = cmd.id /\ r.status = "BUSY" ->
              /\ attempt' = 1 /\ phase' = "ackWait"
              /\ UNCHANGED <<cmd, commandId, report, tries>>
         [] OTHER -> settle(r.status)
  /\ UNCHANGED <<restarts, dispatched, firstId, issued, toArm, damage>>

\* _read_response finds a frame.  One for another identifier is dropped and
\* the wait goes on; what is read while waiting for the ACK may already be the
\* DONE; anything but ACK, and anything but DONE after it, ends the call.
ReadResponse ==
  /\ phase # "idle" /\ toJetson # <<>>
  /\ toJetson' = Tail(toJetson)
  /\ LET r == Head(toJetson) IN
       CASE r.id # cmd.id ->
              UNCHANGED <<phase, attempt, cmd, commandId, report, tries>>
         [] r.id = cmd.id /\ phase = "ackWait" /\ r.status = "ACK" ->
              /\ phase' = "doneWait"
              /\ UNCHANGED <<attempt, cmd, commandId, report, tries>>
         [] OTHER -> settle(r.status)
  /\ UNCHANGED <<restarts, dispatched, firstId, issued, toArm, damage>>

\* Mutant: the frame is built once and kept over the calls.
ResendFirstFrame ==
  /\ phase # "idle" /\ attempt <= Retries
  /\ attempt' = attempt + 1
  /\ phase' = "ackWait"
  /\ write(issued[1])
  /\ UNCHANGED <<cmd, commandId, restarts, dispatched, firstId, issued, report,
                 tries, toJetson, damage>>

\* The ACK or the DONE does not come in time: the same frame again.
ResendAfterTimeout ==
  /\ phase # "idle" /\ attempt <= Retries
  /\ attempt' = attempt + 1
  /\ phase' = "ackWait"
  /\ write(cmd)
  /\ UNCHANGED <<cmd, commandId, restarts, dispatched, firstId, issued, report,
                 tries, toJetson, damage>>

\* Mutant: a command that was acknowledged counts as done.
GiveUpHopefully ==
  /\ phase # "idle" /\ attempt = Retries + 1
  /\ settle(IF phase = "doneWait" THEN "DONE" ELSE "RESPONSE_TIMEOUT")
  /\ UNCHANGED <<restarts, dispatched, firstId, issued, linkVars>>

\* The last attempt times out.
GiveUp ==
  /\ phase # "idle" /\ attempt = Retries + 1
  /\ settle("RESPONSE_TIMEOUT")
  /\ UNCHANGED <<restarts, dispatched, firstId, issued, linkVars>>

\* The serial port fails under the call (or is closed by main's cleanup).
PortFails ==
  /\ phase # "idle"
  /\ settle("UART_FAILED")
  /\ UNCHANGED <<restarts, dispatched, firstId, issued, linkVars>>

\* The process ends and is started again: a new identifier, an empty input
\* buffer (a part of toJetson, the rest is still on its way).
RestartJetson ==
  /\ restarts < MaxRestarts
  /\ restarts' = restarts + 1
  /\ report' = IF cmd = NoCommand THEN report
               ELSE [report EXCEPT ![cmd.n] = "lost"]
  /\ phase' = "idle" /\ attempt' = 1 /\ cmd' = NoCommand
  /\ commandId' \in Ids
  /\ \E k \in 0 .. Len(toJetson) :
       toJetson' = SubSeq(toJetson, k + 1, Len(toJetson))
  /\ UNCHANGED <<dispatched, firstId, issued, tries, toArm, damage>>

EndCall == GiveUp \/ PortFails

TransportNext ==
  \/ \E s \in Slots, p \in Points : Dispatch(s, p)
  \/ ReadResponse \/ ResendAfterTimeout \/ EndCall
  \/ RestartJetson
=============================================================================

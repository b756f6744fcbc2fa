------------------------------ MODULE AnyMaster ------------------------------
(***************************************************************************)
(* The arm controller under any master: whoever is at the other end of the *)
(* line may send any frame at any time, valid or not, repeated or not.     *)
(* What holds here holds of the firmware whatever the dispatcher does.     *)
(* Every frame has a number of its own (the ghost n).                      *)
(***************************************************************************)
EXTENDS OpenRbArm

CONSTANT MaxInFlight   \* bound: frames waiting at the same time

ASSUME InFlightBound == MaxInFlight \in Nat

VARIABLES sent,        \* frames sent so far
          command      \* history: the command frame n carried when it was sent

vars == <<armVars, linkVars, sent, command>>

TypeOK ==
  /\ LinkTypeOK /\ ArmTypeOK
  /\ sent \in 0 .. MaxDispatches
  /\ command \in [1 .. sent -> Commands]

Init ==
  /\ LinkInit /\ ArmInit
  /\ sent = 0
  /\ command = <<>>

MasterSends ==
  /\ sent < MaxDispatches
  /\ Len(toArm) < MaxInFlight
  /\ \E i \in Ids, s \in Slots \cup {BadSlot}, p \in Points :
       LET c == [id |-> i, slot |-> s, pt |-> p, n |-> sent + 1] IN
         /\ toArm' = Append(toArm, [kind |-> "whole", cmd |-> c])
         /\ command' = Append(command, c)
  /\ sent' = sent + 1
  /\ UNCHANGED <<toJetson, damage, armVars>>

MasterReads ==
  /\ toJetson # <<>>
  /\ toJetson' = Tail(toJetson)
  /\ UNCHANGED <<toArm, damage, armVars, sent, command>>

Next ==
  \/ ArmNext /\ UNCHANGED <<sent, command>>
  \/ LinkFault /\ UNCHANGED <<armVars, sent, command>>
  \/ MasterSends
  \/ MasterReads

Spec == Init /\ [][Next]_vars

\* The controller's thread keeps running, a motion ends (every wait of the
\* firmware has a timeout), and loop() does not pass by received bytes for
\* ever: jetsonParse reads all there is each time it is called.
Fairness ==
  /\ WF_vars(Setup /\ UNCHANGED <<sent, command>>)
  /\ WF_vars(Loop /\ UNCHANGED <<sent, command>>)
  /\ SF_vars(Receive /\ UNCHANGED <<sent, command>>)

LiveSpec == Spec /\ Fairness
-----------------------------------------------------------------------------
\* A terminal answer on the line stands for a motion that really ended that
\* way, of this command or of an earlier, equal one.
TerminalAnswerIsTrue ==
  \A k \in 1 .. Len(toJetson) :
    LET r == toJetson[k]
        Ran(S) == \E m \in S : m <= r.n /\ matches(command[m], command[r.n])
    IN /\ r.status = "DONE" => Ran(placed)
       /\ r.status = "FAULT" => Ran(failed)

\* After the last reset an accepted command is run, console motions and
\* further frames notwithstanding.
AcceptedCommandRuns ==
  (newTarget /\ resets = MaxResets) ~> robotBusy

\* The arm reads the line again and again: no frame is left lying.
LineIsRead == []<>(toArm = <<>>)
=============================================================================

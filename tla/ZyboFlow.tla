------------------------------ MODULE ZyboFlow -------------------------------
(* The robot flow of the Zybo board's program (main.cc) with the arm it       *)
(* commands (OmxArm) and the line between them.  A target is named by the     *)
(* number of its selection; its sequence number has SeqMod values.  Whether   *)
(* the car is there, and whether the switch SW0 is on, may change between any *)
(* two reads, so each read is a choice.  A packet with wrong or missing bytes *)
(* is dropped by the parsers: to both sides it is a lost packet.              *)
EXTENDS OmxArm

CONSTANT Targets      \* bound: TARGET packets the line holds
ASSUME FlowAssumption == Targets \in Nat \ {0}

VARIABLES zyboPc,     \* "idle", "send", "ack", "work" (until the car leaves), "gone"
          sequence,   \* sequence
          issue       \* observation: the number of the target that was selected
flowVars == <<omxVars, zyboPc, sequence, issue>>
outside == <<omxPc, flags, last, target, job, asked, taken>>

FlowInit == OmxInit /\ zyboPc = "idle" /\ sequence = 0 /\ issue = 0

NextSequence == sequence' = (sequence + 1) % SeqMod

\* SW0 on, the car there and a target seen: it is selected.
Select ==
  /\ zyboPc = "idle" /\ issue < Issues
  /\ zyboPc' = "send" /\ issue' = issue + 1
  /\ UNCHANGED <<omxVars, sequence>>

\* basic_send_target_packet, and 100 ms of polls that find no acknowledgement.
SendTarget ==
  /\ zyboPc = "send" /\ zyboPc' = "ack"
  /\ toOmx' = Fit(Append(toOmx, issue), Targets)
  /\ UNCHANGED <<outside, toZybo, sequence, issue>>
AckTimeout ==
  /\ zyboPc = "ack" /\ toZybo = <<>> /\ zyboPc' = "send"
  /\ UNCHANGED <<omxVars, sequence, issue>>

\* basic_poll_for_response: the next answer, if it is of this sequence number.
Hears(kind) == toZybo # <<>> /\ Head(toZybo) = <<kind, sequence>>
Read == toZybo' = Tail(toZybo) /\ UNCHANGED <<outside, toOmx, issue>>
Acked == zyboPc = "ack" /\ Hears("ACK") /\ Read /\ zyboPc' = "work" /\ UNCHANGED sequence

\* Mutant: the fresh target goes out under the old sequence number.
RetryHeardSame ==
  zyboPc = "work" /\ Hears("RETRY") /\ Read /\ zyboPc' = "idle" /\ UNCHANGED sequence

RetryHeard == zyboPc = "work" /\ Hears("RETRY") /\ Read /\ zyboPc' = "idle" /\ NextSequence
OtherAnswer ==
  /\ zyboPc \in {"ack", "work"} /\ toZybo # <<>> /\ Read
  /\ ~Hears(IF zyboPc = "ack" THEN "ACK" ELSE "RETRY")
  /\ UNCHANGED <<zyboPc, sequence>>

CarLeaves == zyboPc = "work" /\ zyboPc' = "gone" /\ UNCHANGED <<omxVars, sequence, issue>>
CarReturns == zyboPc = "gone" /\ zyboPc' = "idle" /\ NextSequence /\ UNCHANGED <<omxVars, issue>>

\* Damaged packets are read and dropped.
LoseTarget == /\ omxPc \in Motions \cup {"parse"} /\ toOmx # <<>> /\ toOmx' = Tail(toOmx)
              /\ UNCHANGED <<outside, toZybo, zyboPc, sequence, issue>>
LoseAnswer == /\ zyboPc \in {"ack", "work"} /\ toZybo # <<>> /\ Read
              /\ UNCHANGED <<zyboPc, sequence>>

Zybo == Select \/ SendTarget \/ AckTimeout \/ Acked \/ RetryHeard \/ OtherAnswer
        \/ CarLeaves \/ CarReturns
Arm == OmxNext /\ UNCHANGED <<zyboPc, sequence, issue>>
FlowNext == Zybo \/ Arm \/ LoseTarget \/ LoseAnswer

\* Both programs go on, a packet sent again and again comes through, the second
\* between two requests passes, and a car that left comes back.
FlowFairness ==
  /\ WF_flowVars(SendTarget) /\ SF_flowVars(AckTimeout) /\ WF_flowVars(OtherAnswer) /\ WF_flowVars(CarReturns)
  /\ SF_flowVars(Acked) /\ SF_flowVars(RetryHeard)
  /\ WF_flowVars((Parsed \/ Begin \/ RetryNotDue \/ Console) /\ UNCHANGED <<zyboPc, sequence, issue>>)
  /\ WF_flowVars(OmxMotion /\ UNCHANGED <<zyboPc, sequence, issue>>)
  /\ SF_flowVars(Retry /\ UNCHANGED <<zyboPc, sequence, issue>>)
  /\ SF_flowVars(TakeTarget /\ UNCHANGED <<zyboPc, sequence, issue>>)
FlowSpec == FlowInit /\ [][FlowNext]_flowVars /\ FlowFairness

\* A target the Zybo counts as acknowledged was accepted by the arm and not turned
\* away as a duplicate, and the arm accepts no target twice unless it was switched
\* off in between (main.cc:270-293, omx_ik_area_test.ino:638-651): whatever is
\* lost, however late the answers, and although the numbers wrap around.
TakenOnce == /\ zyboPc \in {"work", "gone"} => taken[issue] # "no"
             /\ \A i \in 1..Issues : taken[i] # "twice"

\* An arm that asks for a fresh target after a forced release gets the Zybo to go
\* on to the next number, unless the operator or a fault ends the asking: the
\* request is a one-way message that can be lost, or come while the Zybo still
\* waits for the acknowledgement and throws it away (omx_ik_area_test.ino:608-610).
FreshTargetComes == Asks ~> (~Asks \/ issue # asked \/ zyboPc = "idle")
=============================================================================

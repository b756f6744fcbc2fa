------------------------------ MODULE UartLink ------------------------------
(***************************************************************************)
(* The two one-way serial lines between the Jetson (OpenRbTargetTransport) *)
(* and the OpenRB-150 arm controller (JETSON_SERIAL, 115200 8-N-1).        *)
(*                                                                         *)
(* A line keeps bytes in the order they were written and never repeats     *)
(* one, so a line is a sequence of frames.  What it can do is damage: a    *)
(* frame can vanish, arrive with altered bytes (its CRC no longer fits) or *)
(* arrive short of some bytes.  A damaged frame keeps only an identifier,  *)
(* and that identifier may be wrong as well.  The one-in-256 chance that a *)
(* damaged frame still has a fitting CRC is left out.                      *)
(*                                                                         *)
(* A command carries the ghost number n of the dispatch it belongs to.  No *)
(* guard of the code's models reads it: it only lets properties say which  *)
(* dispatch a frame, a motion or a result stands for.                      *)
(***************************************************************************)
EXTENDS Integers, Sequences

CONSTANTS IdMod,          \* number of command identifiers (256: one byte)
          Slots,          \* the rack slots a command may name
          BadSlot,        \* a slot field outside 1..9 (from a foreign master)
          Points,         \* camera coordinates inside 1920 x 1080
          NoCommand,      \* no command (haveActiveCommand is false, worker idle)
          MaxDispatches,  \* bound: dispatches the worker starts
          MaxDamage       \* bound: frames or responses the lines may damage

ASSUME IdModAssumption == IdMod \in Nat \ {0}
ASSUME SlotAssumption == BadSlot \notin Slots
ASSUME DispatchBound == MaxDispatches \in Nat
ASSUME DamageBound == MaxDamage \in Nat

Ids == 0 .. IdMod - 1
Dispatches == 1 .. MaxDispatches

\* TargetCommand: identifier, slot, centre of the object (and the ghost n).
Commands == [id : Ids, slot : Slots \cup {BadSlot}, pt : Points, n : Dispatches]

ASSUME NoCommandAssumption == NoCommand \notin Commands

\* TargetCommand::matches: all the fields of the frame, and only those.
matches(c, d) == c.id = d.id /\ c.slot = d.slot /\ c.pt = d.pt

\* A target frame as the arm's receiver finds it: whole, with a CRC that
\* does not fit, or with bytes missing.
Frames == [kind : {"whole", "badCrc", "cut"}, cmd : Commands]

Statuses == {"ACK", "DONE", "NAK", "BUSY", "FAULT"}

\* A response names the identifier it answers and a status; the ghost n is
\* the dispatch of the command the arm answered (0: a frame it cannot read).
Responses == [id : Ids, status : Statuses, n : 0 .. MaxDispatches]

VARIABLES toArm,     \* Jetson -> arm: frames on the line or in the RX buffer
          toJetson,  \* arm -> Jetson: responses, likewise
          damage     \* how many frames and responses were damaged so far

linkVars == <<toArm, toJetson, damage>>

LinkTypeOK ==
  /\ toArm \in Seq(Frames)
  /\ toJetson \in Seq(Responses)
  /\ damage \in 0 .. MaxDamage

LinkInit ==
  /\ toArm = <<>>
  /\ toJetson = <<>>
  /\ damage = 0

\* The bytes of the newest frame never arrive.
LoseFrame ==
  /\ damage < MaxDamage
  /\ toArm # <<>>
  /\ toArm' = SubSeq(toArm, 1, Len(toArm) - 1)
  /\ damage' = damage + 1
  /\ UNCHANGED toJetson

\* Bytes of the newest frame are altered or missing; its identifier too may
\* have been hit.
DamageFrame ==
  /\ damage < MaxDamage
  /\ toArm # <<>>
  /\ toArm[Len(toArm)].kind = "whole"
  /\ \E k \in {"badCrc", "cut"}, i \in Ids :
       toArm' = [toArm EXCEPT ![Len(toArm)] =
                   [kind |-> k, cmd |-> [@.cmd EXCEPT !.id = i]]]
  /\ damage' = damage + 1
  /\ UNCHANGED toJetson

\* A response that is lost or damaged never reaches the caller of
\* _read_response: it drops what fails the CRC, so both are a loss.
LoseResponse ==
  /\ damage < MaxDamage
  /\ toJetson # <<>>
  /\ toJetson' = SubSeq(toJetson, 1, Len(toJetson) - 1)
  /\ damage' = damage + 1
  /\ UNCHANGED toArm

LinkFault == LoseFrame \/ DamageFrame \/ LoseResponse
=============================================================================

------------------------------- MODULE DeadMan -------------------------------
(* What the motor board promises, whatever the computer that drives it does: *)
(* outside the hand-test mode of the switches the wheels turn only on a      *)
(* command that has not expired, Limit ticks after the last valid one.       *)
EXTENDS Naturals

CONSTANT Limit      \* ticks after which an unrenewed command expires

VARIABLES age,      \* ticks since the last valid command
          expired,  \* nobody renewed the command in time
          driven,   \* the board drives some wheel
          manual    \* the hand-test switch

dvars == <<age, expired, driven, manual>>

DInit == age = 0 /\ expired = FALSE /\ driven = FALSE /\ manual = FALSE

MayDrive == manual' \/ ~expired'

\* A valid command starts, keeps or stops the wheels.
Renew == /\ age' = 0 /\ expired' = FALSE
         /\ UNCHANGED manual /\ driven' \in BOOLEAN

Ageing == /\ age < Limit /\ age' = age + 1
          /\ UNCHANGED <<expired, driven, manual>>

Expire == /\ age = Limit /\ expired' = TRUE
          /\ UNCHANGED <<age, manual>>
          /\ driven' = (manual /\ driven)

\* Leaving the hand-test mode does not wake an expired command.
Switch == /\ manual' \in BOOLEAN /\ driven' \in BOOLEAN
          /\ UNCHANGED <<age, expired>>
          /\ driven' => MayDrive

DNext == Renew \/ Ageing \/ Expire \/ Switch

DSpec == DInit /\ [][DNext]_dvars
=============================================================================

---------------------------- MODULE MC_MotorLink -----------------------------
EXTENDS MotorLink
MCCommands == {<<0, 0>>, <<1, 1>>}
MCDefaultPulse == [min |-> 2, kick |-> 3, burst |-> 2, kicks |-> 1]
MCDrivePulse == [min |-> 0, kick |-> 3, burst |-> 1, kicks |-> 2]
=============================================================================

----------------------------- MODULE MotorBoard ------------------------------
(* The Basys3 motor board: the command receiver (cmd_rx.sv), the watchdog     *)
(* (watchdog.sv) and the brake and hand-test multiplexers (rc_car_top.sv).   *)
(* A command "M +ddd -ddd\n" is six symbols here: header, blank, left field,  *)
(* blank, right field, line end; a lost symbol shifts the rest as a lost byte *)
(* does.                                                                     *)
EXTENDS Integers, Sequences

CONSTANT TimerMax      \* watchdog.sv: the 500 ms, in ticks

ASSUME TimerMaxAssumption == TimerMax \in Nat

VARIABLES line,        \* symbols on the wire towards the board
          buffer,      \* cmd_rx: symbols of the packet being received
          duty,        \* cmd_rx: side -> signed pwm last executed
          torn,        \* ghost: not the two fields of one packet
          timer, watchdog_brake,
          sw           \* the slide switches: "auto", or hand-test "drive", "brake"

boardVars == <<line, buffer, duty, torn, timer, watchdog_brake, sw>>

Sides == {"l", "r"}
Header == [kind |-> "M"]
Blank == [kind |-> "sp"]
LineEnd == [kind |-> "nl"]
\* id: which packet the field was written in (a ghost: no byte carries it).
Field(pwm, id) == [kind |-> "pwm", pwm |-> pwm, id |-> id]
Packet(pwm, id) == 
  <<Header, Blank, Field(pwm["l"], id), Blank, Field(pwm["r"], id), LineEnd>>
PacketLen == 6

BoardInit == /\ line = <<>> /\ buffer = <<>>
             /\ duty = [s \in Sides |-> 0] /\ torn = FALSE
             /\ timer = 0 /\ watchdog_brake = FALSE
             /\ sw = "auto"

\* Mutant: the line end is not looked at.
FramedOpenEnd(b) == b[2] = Blank /\ b[4] = Blank

\* The format test of the EXEC state: the separators stand where they should.
Framed(b) == b[2] = Blank /\ b[4] = Blank /\ b[6] = LineEnd
\* ascii2bin does not look at what it converts.
Ascii2Bin(f) == IF f.kind = "pwm" THEN f.pwm ELSE 0
\* Three digits may say more than eight bits hold.
DutyMax == 255
InRange(b) == \A k \in {3, 5} : Ascii2Bin(b[k]) \in -DutyMax .. DutyMax

\* EXEC: a well-formed command of speeds in range sets both wheels and feeds the
\* watchdog, any other is dropped as a whole.
Exec(b) ==
  IF Framed(b) /\ InRange(b)
  THEN /\ duty' = [s \in Sides |-> Ascii2Bin(IF s = "l" THEN b[3] ELSE b[5])]
       /\ torn' = ~(b[3].kind = "pwm" /\ b[5].kind = "pwm" /\ b[3].id = b[5].id)
       /\ timer' = 0 /\ watchdog_brake' = FALSE
  ELSE UNCHANGED <<duty, torn, timer, watchdog_brake>>

Full(n) == n = PacketLen

\* IDLE waits for a header; RECV takes whatever comes until the packet is full.
RxByte ==
  /\ line # <<>>
  /\ line' = Tail(line)
  /\ UNCHANGED sw
  /\ LET b == Append(buffer, Head(line))
     IN IF buffer = <<>> /\ Head(line) # Header
        THEN UNCHANGED <<buffer, duty, torn, timer, watchdog_brake>>
        ELSE IF ~Full(Len(b))
             THEN buffer' = b /\ UNCHANGED <<duty, torn, timer, watchdog_brake>>
             ELSE buffer' = <<>> /\ Exec(b)

\* The watchdog counts up and brakes when it is full.
WatchdogTick ==
  /\ IF timer < TimerMax
     THEN timer' = timer + 1 /\ UNCHANGED watchdog_brake
     ELSE watchdog_brake' = TRUE /\ UNCHANGED timer
  /\ UNCHANGED <<line, buffer, duty, torn, sw>>

SwitchMode ==
  /\ sw' \in {"auto", "drive", "brake"} \ {sw}
  /\ UNCHANGED <<line, buffer, duty, torn, timer, watchdog_brake>>

\* Mutant: only the left wheel is braked by the watchdog.
BrakeOneSide(s) ==
  IF sw = "auto" THEN duty[s] = 0 \/ (s = "l" /\ watchdog_brake) ELSE sw = "brake"

\* brake_x is set by the command "000"; the watchdog brakes both wheels, and the
\* hand-test switches bypass the two of them.
Brake(s) == IF sw = "auto" THEN duty[s] = 0 \/ watchdog_brake ELSE sw = "brake"
Driven == \E s \in Sides : ~Brake(s)
=============================================================================

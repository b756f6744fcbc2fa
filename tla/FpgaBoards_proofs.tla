-------------------------- MODULE FpgaBoards_proofs --------------------------
(* The two FPGA boards.  The motor board and its link (MotorLink), for every  *)
(* speed table, pulse and watchdog time: the board is a dead-man switch, a     *)
(* program that has zeroed the speeds drives no wheel after its stop command,  *)
(* and, where fewer symbols are lost inside one packet than it has, the two    *)
(* speeds the board executes were sent together.  The vision board's robot flow with its arm (ZyboFlow), for  *)
(* every number of sequence numbers above one: no acknowledged target is       *)
(* unknown to the arm, and none is taken twice.                               *)
EXTENDS MotorLink, ZyboFlow, SequenceTheorems, TLAPS

\* The types of the watchdog and of the switches.
BoardTypes ==
  timer \in 0 .. TimerMax /\ watchdog_brake \in BOOLEAN /\ sw \in {"auto", "drive", "brake"}

Zero == [s \in Sides |-> 0]

\* From the zeroing of the speeds on, everything the send thread has computed
\* since is zero; what it had computed before is written while the main thread
\* sleeps.
Draining ==
  /\ main \in {"draining", "drainWrite", "drained"} => current = Zero
  /\ main = "drainWrite" => sender = "write" /\ out = Zero
  /\ main = "drained" => (sender = "write" => out = Zero)
Stopped ==
  cleanStop => /\ main \in {"stopping", "joining", "closed"} /\ current = Zero
               /\ sender = "write" => out = Zero
               /\ turning = {}

LinkInv == BoardTypes /\ Draining /\ Stopped

------------------------------------------------------------------------------
\* What the rest of the program and the wire do leaves the watchdog, the switches
\* and the speed alone.
LEMMA HostSteps ==
  ASSUME MainThread \/ Kill \/ Send \/ LoseByte
  PROVE UNCHANGED <<duty, timer, watchdog_brake, sw>>
<1>1. CASE MainThread
  BY <1>1 DEF MainThread, SetSpeed, SetPulseParams, CleanUp, StopWrite, ClearRunning, Join, boardVars
<1>2. CASE Kill \/ Send \/ LoseByte
  BY <1>2 DEF Kill, Send, Compute, SendWrite, SenderExit, LoseByte, boardVars
<1> QED BY <1>1, <1>2

\* A byte either ends a command that feeds the watchdog, or changes nothing there.
LEMMA ByteSteps ==
  ASSUME RxByte
  PROVE /\ sw' = sw
        /\ (timer' = 0 /\ watchdog_brake' = FALSE) \/ UNCHANGED <<duty, timer, watchdog_brake>>
  BY DEF RxByte, Exec

LEMMA BoardKept == ASSUME BoardTypes, Next PROVE BoardTypes'
<1>1. CASE MainThread \/ Kill \/ Send \/ LoseByte
  BY <1>1, HostSteps DEF BoardTypes
<1>2. CASE Receive
  <2>0. RxByte BY <1>2 DEF Receive
  <2>1. sw' = sw BY <2>0, ByteSteps
  <2>2. CASE timer' = 0 /\ watchdog_brake' = FALSE
    <3>1. timer' \in 0 .. TimerMax BY <2>2, TimerMaxAssumption
    <3>2. watchdog_brake' \in BOOLEAN BY <2>2
    <3> QED BY <2>1, <3>1, <3>2 DEF BoardTypes
  <2>3. CASE UNCHANGED <<duty, timer, watchdog_brake>> BY <2>1, <2>3 DEF BoardTypes
  <2> QED BY <2>0, <2>2, <2>3, ByteSteps
<1>3. CASE WatchdogTick
  <2>1. sw' = sw BY <1>3 DEF WatchdogTick
  <2>2. CASE timer < TimerMax
    <3>1. timer' = timer + 1 BY <1>3, <2>2 DEF WatchdogTick
    <3>2. watchdog_brake' = watchdog_brake BY <1>3, <2>2 DEF WatchdogTick
    <3>3. timer \in 0 .. TimerMax BY DEF BoardTypes
    <3>4. timer' \in 0 .. TimerMax BY <2>2, <3>1, <3>3, TimerMaxAssumption
    <3> QED BY <2>1, <3>2, <3>4 DEF BoardTypes
  <2>3. CASE ~(timer < TimerMax)
    <3>1. timer' = timer /\ watchdog_brake' = TRUE BY <1>3, <2>3 DEF WatchdogTick
    <3> QED BY <2>1, <3>1 DEF BoardTypes
  <2> QED BY <2>2, <2>3
<1>4. CASE SwitchMode BY <1>4 DEF SwitchMode, BoardTypes
<1> QED BY <1>1, <1>2, <1>3, <1>4 DEF Next, Board

\* A speed of zero is written as a zero, whatever is left in the pulse generator.
LEMMA ZeroStaysZero == \A w : SpeedToPwm(PulseSpeed(0, w)[1]) = 0
<1> SUFFICES ASSUME NEW w PROVE SpeedToPwm(PulseSpeed(0, w)[1]) = 0 OBVIOUS
<1>1. PulseSpeed(0, w) = <<0, Idle>> BY DEF PulseSpeed
<1> QED BY <1>1 DEF SpeedToPwm

LEMMA DrainKept == ASSUME Draining, Stopped, Next PROVE Draining' /\ Stopped'
<1>1. CASE SetSpeed \/ SetPulseParams \/ CleanUp
  BY <1>1 DEF SetSpeed, SetPulseParams, CleanUp, Draining, Stopped, Zero
<1>2. CASE StopWrite
  <2>1. main = "drained" => turning' = {} BY <1>2 DEF StopWrite, Write
  <2> QED BY <1>2, <2>1 DEF StopWrite, Draining, Stopped
<1>3. CASE ClearRunning \/ Join \/ Kill
  BY <1>3 DEF ClearRunning, Join, Kill, Draining, Stopped
<1>4. CASE Compute
  <2>1. current = Zero => out' = Zero
    BY <1>4, ZeroStaysZero DEF Compute, Zero
  <2> QED BY <1>4, <2>1 DEF Compute, Draining, Stopped
<1>5. CASE SendWrite
  <2>1. out = Zero => turning' = {} BY <1>5 DEF SendWrite, Write, Zero
  <2> QED BY <1>5, <2>1 DEF SendWrite, Draining, Stopped, Zero
<1>6. CASE SenderExit \/ LoseByte \/ Receive
  BY <1>6 DEF SenderExit, LoseByte, Receive, Draining, Stopped
<1>7. CASE Board /\ UNCHANGED hostVars
  BY <1>7 DEF hostVars, Draining, Stopped
<1> QED BY <1>1, <1>2, <1>3, <1>4, <1>5, <1>6, <1>7 DEF Next, MainThread, Send

\* The invariant holds at first, and every step keeps it.
LEMMA InvInit == Init => LinkInv
<1> SUFFICES ASSUME Init PROVE LinkInv OBVIOUS
<1>1. timer \in 0 .. TimerMax BY TimerMaxAssumption DEF Init, BoardInit
<1>2. watchdog_brake \in BOOLEAN /\ sw \in {"auto", "drive", "brake"} BY DEF Init, BoardInit
<1>3. Draining /\ Stopped BY DEF Init, Draining, Stopped
<1> QED BY <1>1, <1>2, <1>3 DEF LinkInv, BoardTypes

LEMMA InvNext == LinkInv /\ [Next]_vars => LinkInv'
<1>1. ASSUME LinkInv, Next PROVE LinkInv' BY <1>1, BoardKept, DrainKept DEF LinkInv
<1>2. ASSUME LinkInv, UNCHANGED vars PROVE LinkInv'
  BY <1>2 DEF vars, boardVars, hostVars, LinkInv, BoardTypes, Draining, Stopped
<1> QED BY <1>1, <1>2

\* The watchdog's types, and what is zero once the speeds were zeroed.
THEOREM LinkInvHolds == Spec => []LinkInv
  BY InvInit, InvNext, PTL DEF Spec

\* After a clean end nothing that is written turns a wheel (fpga_link_stop).
THEOREM QuietHolds == Spec => []QuietAfterCleanStop
<1>1. LinkInv => QuietAfterCleanStop BY DEF LinkInv, Stopped, QuietAfterCleanStop
<1> QED BY <1>1, LinkInvHolds, PTL

------------------------------------------------------------------------------
\* The wheels turn on what was received, unless the watchdog or a switch says no.
LEMMA DrivenIs ==
  /\ Driven \in BOOLEAN
  /\ sw = "auto" /\ watchdog_brake => ~Driven
  /\ sw # "auto" => (Driven <=> sw # "brake")
  BY DEF Driven, Brake, Sides

\* The board starts as a dead-man switch, and each of its steps is one of those
\* that the switch may take.
LEMMA GuardInit == Init => Guard!DInit
  BY DEF Init, BoardInit, Guard!DInit, Driven, Brake

LEMMA GuardNext == LinkInv /\ [Next]_vars => [Guard!DNext]_Guard!dvars
<1> SUFFICES ASSUME LinkInv, [Next]_vars PROVE [Guard!DNext]_Guard!dvars OBVIOUS
<1>1. ASSUME UNCHANGED <<duty, timer, watchdog_brake, sw>> PROVE UNCHANGED Guard!dvars
  BY <1>1 DEF Guard!dvars, Driven, Brake
<1>2. CASE MainThread \/ Kill \/ Send \/ LoseByte BY <1>1, <1>2, HostSteps
<1>3. CASE Receive
  <2>0. RxByte BY <1>3 DEF Receive
  <2>1. CASE timer' = 0 /\ watchdog_brake' = FALSE
    <3>1. UNCHANGED (sw # "auto") BY <2>0, ByteSteps
    <3>2. Driven' \in BOOLEAN BY DEF Driven
    <3> QED BY <2>1, <3>1, <3>2 DEF Guard!DNext, Guard!Renew
  <2>2. CASE UNCHANGED <<duty, timer, watchdog_brake>> BY <1>1, <2>0, <2>2, ByteSteps
  <2> QED BY <2>0, <2>1, <2>2, ByteSteps
<1>4. CASE WatchdogTick
  <2>1. UNCHANGED <<duty, sw>> BY <1>4 DEF WatchdogTick
  <2>2. CASE timer < TimerMax
    <3>1. timer' = timer + 1 /\ UNCHANGED watchdog_brake BY <1>4, <2>2 DEF WatchdogTick
    <3>2. UNCHANGED Driven BY <2>1, <3>1 DEF Driven, Brake
    <3>3. UNCHANGED (sw # "auto") BY <2>1
    <3> QED BY <2>2, <3>1, <3>2, <3>3 DEF Guard!DNext, Guard!Ageing
  <2>3. CASE ~(timer < TimerMax)
    <3>1. timer \in 0 .. TimerMax BY DEF LinkInv, BoardTypes
    <3>2. timer = TimerMax BY <2>3, <3>1, TimerMaxAssumption
    <3>3. UNCHANGED timer /\ watchdog_brake' = TRUE BY <1>4, <2>3 DEF WatchdogTick
    <3>4. UNCHANGED (sw # "auto") BY <2>1
    <3>5. Driven' = (sw # "auto" /\ Driven)
      <4>1. CASE sw = "auto"
        BY <2>1, <3>3, <4>1 DEF Driven, Brake
      <4>2. CASE sw # "auto"
        BY <2>1, <3>3, <4>2 DEF Driven, Brake
      <4> QED BY <4>1, <4>2
    <3> QED BY <3>2, <3>3, <3>4, <3>5 DEF Guard!DNext, Guard!Expire
  <2> QED BY <2>2, <2>3
<1>5. CASE SwitchMode
  <2>1. UNCHANGED <<duty, timer, watchdog_brake>> BY <1>5 DEF SwitchMode
  <2>2. (sw # "auto")' \in BOOLEAN /\ Driven' \in BOOLEAN BY DEF Driven
  <2>3. Driven' => (sw' # "auto" \/ ~watchdog_brake') BY DEF Driven, Brake
  <2> QED BY <2>1, <2>2, <2>3 DEF Guard!DNext, Guard!Switch, Guard!MayDrive
<1>6. CASE UNCHANGED vars BY <1>1, <1>6 DEF vars, boardVars
<1> QED BY <1>2, <1>3, <1>4, <1>5, <1>6 DEF Next, Board

\* Whatever computer and line do, the board drives in automatic mode only on a
\* command that has not expired (watchdog.sv, rc_car_top.sv).
THEOREM DeadManHolds == Spec => DeadManSwitch
<1>1. Init => Guard!DInit BY GuardInit
<1>2. LinkInv /\ [Next]_vars => [Guard!DNext]_Guard!dvars BY GuardNext
<1> QED BY <1>1, <1>2, LinkInvHolds, PTL DEF Spec, DeadManSwitch, Guard!DSpec
------------------------------------------------------------------------------
\* A speed that is sent is a number, and the state of the pulse generator stays one.
LEMMA PulseType ==
  ASSUME NEW d \in Int, NEW w \in PulseState, pulse \in {DefaultPulse, DrivePulse}
  PROVE  PulseSpeed(d, w)[1] \in Int /\ PulseSpeed(d, w)[2] \in PulseState
<1> DEFINE a == Abs(d)
           full == pulse.min * pulse.burst
           acc == w.acc + a
<1>1. /\ pulse.min \in Int /\ pulse.kick \in Int
      /\ pulse.burst \in Nat /\ pulse.burst > 0 /\ pulse.kicks \in Nat
  BY PulseAssumption
<1>2. w.acc \in Nat /\ w.rem \in Nat /\ w.pos \in Nat BY DEF PulseState
<1>3. a \in Nat /\ full \in Int /\ acc \in Nat BY <1>1, <1>2 DEF Abs
<1>4. Advance(w.pos) \in Nat BY <1>1, <1>2 DEF Advance
<1>5. \A level \in Int : Sign(d) * Kicked(level, Advance(w.pos)) \in Int
  BY <1>1, <1>4 DEF Sign, Kicked
<1>6. ASSUME NEW level \in Int, NEW v \in PulseState, v.pos = w.pos
      PROVE  Pulsed(level, v, d)[1] \in Int /\ Pulsed(level, v, d)[2] \in PulseState
  <2>1. Pulsed(level, v, d)[1] \in Int BY <1>5, <1>6 DEF Pulsed
  <2>2. [v EXCEPT !.pos = Advance(v.pos)] \in PulseState BY <1>4, <1>6 DEF PulseState
  <2> QED BY <2>1, <2>2 DEF Pulsed
<1>7. CASE d = 0 BY <1>7 DEF PulseSpeed, Idle, PulseState
<1>8. CASE d # 0 /\ (pulse.min <= 0 \/ a >= pulse.min)
  <2>1. PulseSpeed(d, w) = Pulsed(a, w, d) BY <1>1, <1>2, <1>3, <1>8 DEF PulseSpeed
  <2> QED BY <1>3, <1>6, <2>1
<1>9. CASE d # 0 /\ ~(pulse.min <= 0 \/ a >= pulse.min) /\ w.rem > 0
  <2> DEFINE v == [w EXCEPT !.rem = @ - 1]
  <2>1. v \in PulseState /\ v.pos = w.pos BY <1>2, <1>9 DEF PulseState
  <2>2. PulseSpeed(d, w) = Pulsed(pulse.min, v, d) BY <1>1, <1>2, <1>3, <1>9 DEF PulseSpeed
  <2> HIDE DEF v
  <2> QED BY <1>1, <1>6, <2>1, <2>2
<1>10. CASE d # 0 /\ ~(pulse.min <= 0 \/ a >= pulse.min) /\ ~(w.rem > 0) /\ acc >= full
  <2> DEFINE v == [w EXCEPT !.acc = acc - full, !.rem = pulse.burst - 1]
  <2>1. v \in PulseState /\ v.pos = w.pos
    <3> HIDE DEF full, acc
    <3>1. acc - full \in Nat /\ pulse.burst - 1 \in Nat BY <1>1, <1>3, <1>10
    <3> QED BY <1>2, <3>1 DEF PulseState
  <2>2. PulseSpeed(d, w) = Pulsed(pulse.min, v, d) BY <1>1, <1>2, <1>3, <1>10 DEF PulseSpeed
  <2> HIDE DEF v
  <2> QED BY <1>1, <1>6, <2>1, <2>2
<1>11. CASE d # 0 /\ ~(pulse.min <= 0 \/ a >= pulse.min) /\ ~(w.rem > 0) /\ ~(acc >= full)
  <2>1. PulseSpeed(d, w) = <<0, [w EXCEPT !.acc = acc, !.pos = 0]>>
    BY <1>1, <1>2, <1>3, <1>11 DEF PulseSpeed
  <2>2. [w EXCEPT !.acc = acc, !.pos = 0] \in PulseState BY <1>3 DEF PulseState
  <2> QED BY <2>1, <2>2
<1> QED BY <1>7, <1>8, <1>9, <1>10, <1>11

LEMMA PwmType == ASSUME NEW speed \in Int PROVE SpeedToPwm(speed) \in Int
<1>1. Abs(speed) \in Nat /\ Sign(speed) \in Int BY DEF Abs, Sign
<1>2. 2 * Abs(speed) * (PwmCap - Deadzone) + MaxSpeed \in Int BY <1>1, PwmAssumption
<1>3. (2 * Abs(speed) * (PwmCap - Deadzone) + MaxSpeed) \div (2 * MaxSpeed) \in Int
  <2> DEFINE n == 2 * Abs(speed) * (PwmCap - Deadzone) + MaxSpeed
             m == 2 * MaxSpeed
  <2>1. n \in Int /\ m \in Int /\ m > 0 BY <1>2, PwmAssumption
  <2> HIDE DEF n, m
  <2>2. n \div m \in Int BY <2>1
  <2> QED BY <2>2 DEF n, m
<1> DEFINE q == (2 * Abs(speed) * (PwmCap - Deadzone) + MaxSpeed) \div (2 * MaxSpeed)
<1> HIDE DEF q
<1>4. /\ Sign(speed) * (Deadzone + q) \in Int
      /\ Sign(speed) * PwmCap \in Int
  BY <1>1, <1>3, PwmAssumption DEF q
<1>5. Lifted(speed) = Deadzone + q BY DEF Lifted, q
<1> QED BY <1>4, <1>5 DEF SpeedToPwm

LEMMA PacketType ==
  ASSUME NEW pwm \in [Sides -> Int], NEW id \in 0 .. 2
  PROVE  /\ Packet(pwm, id) \in Seq(Symbols) /\ Len(Packet(pwm, id)) = PacketLen
<1>1. Field(pwm["l"], id) \in Symbols /\ Field(pwm["r"], id) \in Symbols
  BY DEF Field, Symbols, Sides
<1>2. Header \in Symbols /\ Blank \in Symbols /\ LineEnd \in Symbols BY DEF Symbols
<1> QED BY <1>1, <1>2 DEF Packet, PacketLen

LEMMA WriteType ==
  ASSUME NEW pwm \in [Sides -> Int], Write(pwm), line \in Seq(Symbols), lastId \in 0 .. 2
  PROVE  line' \in Seq(Symbols) /\ lastId' \in 0 .. 2 /\ turning' \subseteq Sides
<1>1. (lastId + 1) % 3 \in 0 .. 2 OBVIOUS
<1>2. Packet(pwm, (lastId + 1) % 3) \in Seq(Symbols) BY <1>1, PacketType
<1> QED BY <1>1, <1>2 DEF Write

LEMMA TypesInit == Init => TypeOK
<1> SUFFICES ASSUME Init PROVE TypeOK OBVIOUS
<1>1. Idle \in PulseState BY DEF Idle, PulseState
<1>2. /\ line \in Seq(Symbols) /\ buffer \in Seq(Symbols) /\ Len(buffer) < PacketLen
      /\ duty \in [Sides -> Int] /\ timer \in 0 .. TimerMax
      /\ sw \in {"auto", "drive", "brake"}
  BY TimerMaxAssumption DEF Init, BoardInit, PacketLen
<1>3. 0 \in -MaxSpeed .. MaxSpeed /\ 0 \in 0 .. MaxLoss BY PwmAssumption, LossAssumption
<1>4. /\ current \in [Sides -> -MaxSpeed .. MaxSpeed] /\ pulse \in {DefaultPulse, DrivePulse}
      /\ wheel \in [Sides -> PulseState] /\ out \in [Sides -> Int] /\ turning \subseteq Sides
  BY <1>1, <1>3 DEF Init
<1>5. /\ sender \in {"poll", "write", "exited"}
      /\ main \in {"run", "draining", "drainWrite", "drained", "stopping", "joining",
                   "closed", "dead"}
      /\ lastId \in 0 .. 2 /\ lost \in 0 .. MaxLoss
  BY <1>3 DEF Init
<1>6. torn \in BOOLEAN /\ watchdog_brake \in BOOLEAN BY DEF Init, BoardInit
<1>7. running \in BOOLEAN /\ cleanStop \in BOOLEAN BY DEF Init
<1> QED BY <1>2, <1>4, <1>5, <1>6, <1>7 DEF TypeOK

\* What the receiver makes of the byte at the head of the line.
LEMMA RxTypes ==
  ASSUME RxByte, line \in Seq(Symbols), buffer \in Seq(Symbols), Len(buffer) < PacketLen,
         duty \in [Sides -> Int], torn \in BOOLEAN
  PROVE  /\ line' \in Seq(Symbols) /\ buffer' \in Seq(Symbols) /\ Len(buffer') < PacketLen
         /\ duty' \in [Sides -> Int] /\ torn' \in BOOLEAN
<1> DEFINE b == Append(buffer, Head(line))
<1>1. line # <<>> /\ line' = Tail(line) BY DEF RxByte
<1>2. b \in Seq(Symbols) /\ Len(b) = Len(buffer) + 1 /\ Len(b) \in Nat BY <1>1
<1>3. line' \in Seq(Symbols) BY <1>1
<1>4. CASE UNCHANGED <<buffer, duty, torn>> BY <1>3, <1>4
<1>5. CASE buffer' = b /\ ~Full(Len(b)) /\ UNCHANGED <<duty, torn>>
  <2>1. Len(b) < PacketLen BY <1>2, <1>5 DEF Full, PacketLen
  <2> HIDE DEF b
  <2> QED BY <1>2, <1>3, <1>5, <2>1
<1>6. CASE buffer' = <<>> /\ Full(Len(b)) /\ Exec(b)
  <2>1. buffer' \in Seq(Symbols) /\ Len(buffer') < PacketLen BY <1>6 DEF PacketLen
  <2>2. \A k \in 1 .. 6 : b[k] \in Symbols BY <1>2, <1>6 DEF Full, PacketLen
  <2> HIDE DEF b
  <2>3. b[3] \in Symbols /\ b[5] \in Symbols BY <2>2
  <2>4. \A f \in Symbols : Ascii2Bin(f) \in Int
    BY DEF Ascii2Bin, Symbols, Header, Blank, LineEnd
  <2>5. CASE Framed(b) /\ InRange(b)
    <3>1. duty' = [s \in Sides |-> Ascii2Bin(IF s = "l" THEN b[3] ELSE b[5])]
      BY <1>6, <2>5 DEF Exec
    <3>2. duty' \in [Sides -> Int] BY <2>3, <2>4, <3>1
    <3>3. torn' \in BOOLEAN BY <1>6, <2>5 DEF Exec
    <3> QED BY <1>3, <2>1, <3>2, <3>3
  <2>6. CASE ~(Framed(b) /\ InRange(b)) BY <1>3, <1>6, <2>1, <2>6 DEF Exec
  <2> QED BY <2>5, <2>6
<1> QED BY <1>4, <1>5, <1>6 DEF RxByte

LEMMA LineTypesKept ==
  ASSUME TypeOK, Next PROVE /\ line' \in Seq(Symbols) /\ buffer' \in Seq(Symbols)
                            /\ Len(buffer') < PacketLen /\ lastId' \in 0 .. 2
                            /\ lost' \in 0 .. MaxLoss /\ turning' \subseteq Sides
                            /\ duty' \in [Sides -> Int] /\ torn' \in BOOLEAN
<1> USE DEF TypeOK
<1>1. CASE SetSpeed \/ SetPulseParams \/ CleanUp \/ ClearRunning \/ Join \/ Kill \/ Compute
           \/ SenderExit
  BY <1>1 DEF SetSpeed, SetPulseParams, CleanUp, ClearRunning, Join, Kill, Compute, SenderExit,
              boardVars
<1>2. CASE StopWrite
  <2>1. [s \in Sides |-> 0] \in [Sides -> Int] OBVIOUS
  <2>2. Write([s \in Sides |-> 0]) BY <1>2 DEF StopWrite
  <2>3. line' \in Seq(Symbols) /\ lastId' \in 0 .. 2 /\ turning' \subseteq Sides
    BY <2>1, <2>2, WriteType
  <2>4. UNCHANGED <<buffer, duty, torn, lost>> BY <1>2 DEF StopWrite
  <2> QED BY <2>3, <2>4
<1>3. CASE SendWrite
  <2>1. line' \in Seq(Symbols) /\ lastId' \in 0 .. 2 /\ turning' \subseteq Sides
    BY <1>3, WriteType DEF SendWrite
  <2>2. UNCHANGED <<buffer, duty, torn, lost>> BY <1>3 DEF SendWrite
  <2> QED BY <2>1, <2>2
<1>4. CASE LoseByte
  <2>1. lost' \in 0 .. MaxLoss BY <1>4, LossAssumption DEF LoseByte
  <2>2. line' \in Seq(Symbols) BY <1>4 DEF LoseByte
  <2> QED BY <1>4, <2>1, <2>2 DEF LoseByte
<1>5. CASE Receive
  <2>1. RxByte /\ UNCHANGED <<lastId, turning>> BY <1>5 DEF Receive
  <2>2. lost' \in 0 .. MaxLoss BY <1>5, LossAssumption DEF Receive
  <2> QED BY <2>1, <2>2, RxTypes
<1>6. CASE (WatchdogTick \/ SwitchMode) /\ UNCHANGED hostVars
  BY <1>6 DEF WatchdogTick, SwitchMode, hostVars
<1> QED BY <1>1, <1>2, <1>3, <1>4, <1>5, <1>6 DEF Next, MainThread, Send, Board

LEMMA HostTypesKept ==
  ASSUME TypeOK, Next
  PROVE  /\ current' \in [Sides -> -MaxSpeed .. MaxSpeed] /\ pulse' \in {DefaultPulse, DrivePulse}
         /\ wheel' \in [Sides -> PulseState] /\ out' \in [Sides -> Int]
         /\ running' \in BOOLEAN /\ sender' \in {"poll", "write", "exited"}
         /\ main' \in {"run", "draining", "drainWrite", "drained", "stopping", "joining",
                       "closed", "dead"}
         /\ cleanStop' \in BOOLEAN
<1> USE DEF TypeOK
<1>1. Idle \in PulseState BY DEF Idle, PulseState
<1>2. [s \in Sides |-> 0] \in [Sides -> -MaxSpeed .. MaxSpeed]
      /\ [s \in Sides |-> 0] \in [Sides -> Int]
  BY PwmAssumption
<1>3. CASE SetSpeed
  <2>1. PICK c \in Commands : current' = [s \in Sides |-> IF s = "l" THEN c[1] ELSE c[2]]
    BY <1>3 DEF SetSpeed
  <2>2. c[1] \in -MaxSpeed .. MaxSpeed /\ c[2] \in -MaxSpeed .. MaxSpeed BY CommandsAssumption
  <2>3. current' \in [Sides -> -MaxSpeed .. MaxSpeed] BY <2>1, <2>2
  <2> QED BY <1>3, <2>3 DEF SetSpeed
<1>4. CASE SetPulseParams BY <1>1, <1>4 DEF SetPulseParams
<1>5. CASE CleanUp BY <1>2, <1>5 DEF CleanUp
<1>6. CASE StopWrite BY <1>6 DEF StopWrite
<1>7. CASE ClearRunning \/ Join \/ SenderExit \/ LoseByte \/ Receive
  BY <1>7 DEF ClearRunning, Join, SenderExit, LoseByte, Receive
<1>8. CASE Kill
  <2>1. wheel' \in [Sides -> PulseState] BY <1>1, <1>8 DEF Kill
  <2> QED BY <1>2, <1>8, <2>1 DEF Kill
<1>9. CASE Compute
  <2>1. \A s \in Sides : current[s] \in Int /\ wheel[s] \in PulseState OBVIOUS
  <2>2. \A s \in Sides : /\ PulseSpeed(current[s], wheel[s])[1] \in Int
                         /\ PulseSpeed(current[s], wheel[s])[2] \in PulseState
    BY <2>1, PulseType
  <2>3. \A s \in Sides : SpeedToPwm(PulseSpeed(current[s], wheel[s])[1]) \in Int
    BY <2>2, PwmType
  <2>4. out' \in [Sides -> Int] /\ wheel' \in [Sides -> PulseState]
    BY <1>9, <2>2, <2>3 DEF Compute
  <2> QED BY <1>9, <2>4 DEF Compute
<1>10. CASE SendWrite BY <1>2, <1>10 DEF SendWrite
<1>11. CASE Board /\ UNCHANGED hostVars BY <1>11 DEF hostVars
<1> QED BY <1>3, <1>4, <1>5, <1>6, <1>7, <1>8, <1>9, <1>10, <1>11 DEF Next, MainThread, Send

LEMMA TypesNext == TypeOK /\ [Next]_vars => TypeOK'
<1>1. ASSUME TypeOK, Next PROVE TypeOK'
  <2>1. BoardTypes' BY <1>1, BoardKept DEF TypeOK, BoardTypes
  <2> QED BY <1>1, <2>1, LineTypesKept, HostTypesKept DEF TypeOK, BoardTypes
<1>2. ASSUME TypeOK, UNCHANGED vars PROVE TypeOK'
  BY <1>2 DEF vars, boardVars, hostVars, TypeOK
<1> QED BY <1>1, <1>2

\* The types of the link and of the board, for every table of speeds and pulses.
THEOREM TypesAreKept == Spec => []TypeOK
  BY TypesInit, TypesNext, PTL DEF Spec

------------------------------------------------------------------------------
\* Bytes are lost at the head of the line only, so every symbol on it stands at
\* its place in a packet, counted from the end of the line.
After(k) == (Len(line) - k) % PacketLen
Stands(symbol, after) ==
  /\ after = 5 => symbol = Header
  /\ after \in {2, 4} => symbol = Blank
  /\ after \in {1, 3} => symbol.kind = "pwm"
  /\ after = 0 => symbol = LineEnd
WholePackets ==
  \A k \in 1 .. Len(line) : /\ Stands(line[k], After(k))
                            /\ After(k) = 3 => line[k].id = line[k + 2].id

\* What the receiver will hold when nothing more is lost.
Coming(i) == IF i <= Len(buffer) THEN buffer[i] ELSE line[i - Len(buffer)]
OnePacket ==
  Coming(3).kind = "pwm" /\ Coming(5).kind = "pwm" /\ Coming(3).id = Coming(5).id

\* Since the header of the packet being received some bytes were lost, at most those
\* counted; where none was, the packet is one that was sent.
BufferInStep ==
  buffer # <<>> =>
    \E gap \in 0 .. lost : /\ (Len(buffer) + gap + Len(line)) % PacketLen = 0
                           /\ gap = 0 => OnePacket

TornInv == WholePackets /\ BufferInStep /\ NoTornCommand

\* Where in a packet a symbol stands, from the number of symbols behind it.
LEMMA Places ==
  /\ \A n \in Nat : n % 6 \in 0 .. 5 /\ (n + 6) % 6 = n % 6
  /\ \A n \in 0 .. 5 : n % 6 = n
  /\ \A n \in Nat : n % 6 = 0 /\ n > 0 => n >= 6
<1>1. \A n \in Nat : n % 6 \in 0 .. 5 /\ (n + 6) % 6 = n % 6 OBVIOUS
<1>2. \A n \in 0 .. 5 : n % 6 = n OBVIOUS
<1>3. \A n \in Nat : n % 6 = 0 /\ n > 0 => n >= 6 OBVIOUS
<1> QED BY <1>1, <1>2, <1>3

\* At a header whole packets are left; a line end that completes six symbols with
\* fewer than six lost has none lost.
LEMMA HeaderPlace ==
  \A n \in Nat \ {0} : (n - 1) % 6 = 5 => /\ n % 6 = 0 /\ n >= 6
                                          /\ (n - 3) % 6 = 3 /\ (n - 5) % 6 = 1
  OBVIOUS
LEMMA LineEndPlace ==
  \A n \in Nat \ {0}, gap \in 0 .. 5 : (n - 1) % 6 = 0 /\ (5 + gap + n) % 6 = 0 => gap = 0
  OBVIOUS

\* What the types say of the two ends of the line.
LEMMA LineFacts ==
  ASSUME TypeOK
  PROVE  /\ line \in Seq(Symbols) /\ buffer \in Seq(Symbols) /\ Len(line) \in Nat
         /\ Len(buffer) \in 0 .. 5 /\ (buffer # <<>> => Len(buffer) \in 1 .. 5)
         /\ lost \in 0 .. 5
<1>1. line \in Seq(Symbols) /\ buffer \in Seq(Symbols) BY DEF TypeOK
<1>2. Len(line) \in Nat /\ Len(buffer) \in Nat BY <1>1
<1>3. Len(buffer) < 6 BY DEF TypeOK, PacketLen
<1>4. buffer # <<>> => Len(buffer) # 0 BY <1>1
<1>5. lost \in 0 .. 5
  <2>1. lost \in 0 .. MaxLoss BY DEF TypeOK
  <2> QED BY <2>1, LossAssumption DEF PacketLen
<1>6. \A n \in Nat : n < 6 => n \in 0 .. 5 /\ (n # 0 => n \in 1 .. 5) OBVIOUS
<1>7. Len(buffer) \in 0 .. 5 /\ (buffer # <<>> => Len(buffer) \in 1 .. 5)
  BY <1>2, <1>3, <1>4, <1>6
<1> QED BY <1>1, <1>2, <1>5, <1>7

\* The places in a line of a whole packet more.
LEMMA PacketStands ==
  ASSUME NEW pwm, NEW id, NEW k \in 1 .. 6
  PROVE  /\ Stands(Packet(pwm, id)[k], 6 - k)
         /\ k = 3 => Packet(pwm, id)[k].id = Packet(pwm, id)[k + 2].id
<1>1. k \in {1, 2, 3, 4, 5, 6} OBVIOUS
<1> QED BY <1>1 DEF Packet, Stands, Field, Header, Blank, LineEnd

LEMMA WriteKeeps ==
  ASSUME TypeOK, TornInv, NEW pwm \in [Sides -> Int], Write(pwm), UNCHANGED <<buffer, torn, lost>>
  PROVE  TornInv'
<1> DEFINE id == (lastId + 1) % 3
           p == Packet(pwm, id)
<1>1. id \in 0 .. 2 BY DEF TypeOK
<1>2. p \in Seq(Symbols) /\ Len(p) = 6 BY <1>1, PacketType DEF PacketLen
<1>3. line' = line \o p BY DEF Write
<1>4. \A k \in 1 .. 6 : Stands(p[k], 6 - k) /\ (k = 3 => p[k].id = p[k + 2].id)
  BY PacketStands
<1> HIDE DEF p
<1>5. line \in Seq(Symbols) /\ Len(line) \in Nat BY LineFacts
<1>0. PICK n \in Nat : n = Len(line) BY <1>5
<1>6. /\ Len(line') = n + 6
      /\ \A i \in 1 .. n + 6 : line'[i] = IF i <= n THEN line[i] ELSE p[i - n]
  <2>1. /\ Len(line \o p) = Len(line) + Len(p)
        /\ \A i \in 1 .. Len(line) + Len(p) :
             (line \o p)[i] = IF i <= Len(line) THEN line[i] ELSE p[i - Len(line)]
    BY <1>2, <1>5, ConcatProperties
  <2> QED BY <1>0, <1>2, <1>3, <2>1
<1>7. ASSUME NEW k \in 1 .. n PROVE line'[k] = line[k] /\ After(k)' = After(k)
  <2>1. line'[k] = line[k] BY <1>6
  <2>2. n - k \in Nat /\ Len(line') - k = (n - k) + 6 BY <1>6
  <2>3. (Len(line') - k) % 6 = (n - k) % 6 BY <2>2, Places
  <2> QED BY <1>0, <2>1, <2>3 DEF After, PacketLen
<1>8. ASSUME NEW k \in 1 .. 6
      PROVE  line'[n + k] = p[k] /\ After(n + k)' = 6 - k
  <2>1. line'[n + k] = p[k] BY <1>6
  <2>2. Len(line') - (n + k) = 6 - k /\ 6 - k \in 0 .. 5 BY <1>6
  <2>3. (Len(line') - (n + k)) % 6 = 6 - k BY <2>2, Places
  <2> QED BY <2>1, <2>3 DEF After, PacketLen
<1>9. WholePackets'
  <2> SUFFICES ASSUME NEW k \in 1 .. Len(line')
               PROVE  /\ Stands(line'[k], After(k)')
                      /\ After(k)' = 3 => line'[k].id = line'[k + 2].id
    BY DEF WholePackets, After
  <2>1. CASE k <= n
    <3>1. k \in 1 .. n BY <1>6, <2>1
    <3>2. After(k) = 3 => k + 2 \in 1 .. n
      BY <1>0, <3>1 DEF After, PacketLen
    <3> QED BY <1>0, <1>7, <3>1, <3>2 DEF TornInv, WholePackets
  <2>2. CASE k > n
    <3> DEFINE j == k - n
    <3>1. j \in 1 .. 6 /\ k = n + j BY <1>6, <2>2
    <3> HIDE DEF j
    <3>2. line'[k] = p[j] /\ After(k)' = 6 - j BY <1>8, <3>1
    <3>3. Stands(line'[k], After(k)') BY <1>4, <3>1, <3>2
    <3>4. ASSUME After(k)' = 3 PROVE line'[k].id = line'[k + 2].id
      <4>1. j = 3 /\ j + 2 \in 1 .. 6 BY <3>1, <3>2, <3>4
      <4>2. line'[n + (j + 2)] = p[j + 2] BY <1>8, <4>1
      <4>3. k + 2 = n + (j + 2) BY <3>1
      <4> QED BY <1>4, <3>2, <4>1, <4>2, <4>3
    <3> QED BY <3>3, <3>4
  <2> QED BY <1>6, <2>1, <2>2
<1>10. BufferInStep'
  <2> SUFFICES ASSUME buffer # <<>> PROVE BufferInStep' BY DEF BufferInStep
  <2>1. PICK gap \in 0 .. lost : /\ (Len(buffer) + gap + Len(line)) % PacketLen = 0
                                 /\ gap = 0 => OnePacket
    BY DEF TornInv, BufferInStep
  <2>2. buffer \in Seq(Symbols) /\ Len(buffer) \in 1 .. 5 /\ lost \in 0 .. 5 BY LineFacts
  <2>3. (Len(buffer) + gap + Len(line')) % PacketLen = 0
    <3>1. Len(buffer) + gap + Len(line) \in Nat BY <1>5, <2>1, <2>2
    <3>2. Len(buffer) + gap + Len(line') = (Len(buffer) + gap + Len(line)) + 6
      BY <1>0, <1>6, <2>1, <2>2
    <3> QED BY <2>1, <3>1, <3>2, Places DEF PacketLen
  <2>4. ASSUME gap = 0 PROVE OnePacket'
    <3>1. Len(buffer) + Len(line) >= 6
      <4>1. (Len(buffer) + Len(line)) % 6 = 0 BY <1>5, <2>1, <2>2, <2>4 DEF PacketLen
      <4>2. Len(buffer) + Len(line) \in Nat /\ Len(buffer) + Len(line) > 0 BY <1>5, <2>2
      <4> QED BY <4>1, <4>2, Places
    <3>2. \A i \in {3, 5} : Coming(i)' = Coming(i)
      BY <1>0, <1>7, <2>2, <3>1 DEF Coming
    <3> QED BY <2>1, <2>4, <3>2 DEF OnePacket
  <2> QED BY <2>1, <2>3, <2>4 DEF BufferInStep
<1> QED BY <1>9, <1>10 DEF TornInv, NoTornCommand

\* Without its first symbol the line still ends with whole packets.
LEMMA TailKeeps ==
  ASSUME TypeOK, TornInv, line # <<>>, line' = Tail(line)
  PROVE  /\ WholePackets' /\ Len(line') = Len(line) - 1 /\ Len(line) \in Nat \ {0}
         /\ \A k \in 1 .. Len(line') : line'[k] = line[k + 1]
<1>1. line \in Seq(Symbols) /\ Len(line) \in Nat \ {0} BY DEF TypeOK
<1>2. Len(line') = Len(line) - 1 /\ \A k \in 1 .. Len(line') : line'[k] = line[k + 1] BY <1>1
<1>3. ASSUME NEW k \in 1 .. Len(line')
      PROVE  /\ Stands(line'[k], After(k)')
             /\ After(k)' = 3 => line'[k].id = line'[k + 2].id
  <2>1. k + 1 \in 1 .. Len(line) /\ line'[k] = line[k + 1] BY <1>1, <1>2
  <2>2. After(k)' = After(k + 1) BY <1>1, <1>2 DEF After
  <2>3. After(k)' = 3 => k + 2 \in 1 .. Len(line') BY <1>1, <1>2 DEF After, PacketLen
  <2>4. After(k)' = 3 => line'[k + 2] = line[(k + 1) + 2] BY <1>2, <2>3
  <2> QED BY <2>1, <2>2, <2>4 DEF TornInv, WholePackets
<1> QED BY <1>1, <1>2, <1>3 DEF WholePackets, After

LEMMA LoseKeeps == ASSUME TypeOK, TornInv, LoseByte PROVE TornInv'
<1>1. /\ line # <<>> /\ line' = Tail(line) /\ UNCHANGED <<buffer, torn>>
      /\ buffer # <<>> => lost' = lost + 1
  BY DEF LoseByte
<1>2. WholePackets' /\ Len(line') = Len(line) - 1 /\ Len(line) \in Nat \ {0}
  BY <1>1, TailKeeps
<1>3. BufferInStep'
  <2> SUFFICES ASSUME buffer # <<>> PROVE BufferInStep' BY <1>1 DEF BufferInStep
  <2>1. PICK gap \in 0 .. lost : (Len(buffer) + gap + Len(line)) % PacketLen = 0
    BY DEF TornInv, BufferInStep
  <2>2. gap + 1 \in 0 .. lost' /\ gap + 1 # 0
    BY <1>1, <2>1, LossAssumption DEF TypeOK
  <2>3. Len(buffer) \in Nat BY DEF TypeOK
  <2>4. Len(buffer) + (gap + 1) + Len(line') = Len(buffer) + gap + Len(line)
    BY <1>2, <2>1, <2>3
  <2> QED BY <1>1, <2>1, <2>2, <2>4 DEF BufferInStep
<1> QED BY <1>1, <1>2, <1>3 DEF TornInv, NoTornCommand

\* A header starts a packet of the line; a full packet that ends with a line end
\* has lost nothing, for a whole packet cannot have been lost.
LEMMA RxKeeps ==
  ASSUME TypeOK, TornInv, RxByte, buffer' # <<>> => lost' = lost PROVE TornInv'
<1> DEFINE b == Append(buffer, Head(line))
<1>1. line # <<>> /\ line' = Tail(line) BY DEF RxByte
<1>2. /\ WholePackets' /\ Len(line') = Len(line) - 1 /\ Len(line) \in Nat \ {0}
      /\ \A k \in 1 .. Len(line') : line'[k] = line[k + 1]
  BY <1>1, TailKeeps
<1>3. /\ line \in Seq(Symbols) /\ buffer \in Seq(Symbols) /\ Len(buffer) \in 0 .. 5
      /\ Head(line) = line[1]
  BY <1>1, LineFacts
<1>4. /\ Len(b) = Len(buffer) + 1 /\ b[Len(b)] = line[1]
      /\ \A k \in 1 .. Len(buffer) : b[k] = buffer[k]
  BY <1>1, <1>3
<1>5. lost \in 0 .. 5 BY LossAssumption DEF TypeOK, PacketLen
<1> HIDE DEF b
<1>6. CASE buffer = <<>> /\ Head(line) # Header
  BY <1>2, <1>6 DEF RxByte, TornInv, BufferInStep, NoTornCommand
<1>7. CASE ~(buffer = <<>> /\ Head(line) # Header) /\ ~Full(Len(b))
  <2>1. buffer' = b /\ torn' = torn BY <1>7 DEF RxByte, b
  <2>2. Len(b) \in 1 .. 5
    <3>1. Len(b) # 6 BY <1>7 DEF Full, PacketLen
    <3> QED BY <1>3, <1>4, <3>1
  <2>3. ASSUME NEW i \in 1 .. 5, i <= Len(buffer) + Len(line) PROVE Coming(i)' = Coming(i)
    <3>1. CASE i <= Len(buffer) BY <1>3, <1>4, <2>1, <3>1 DEF Coming
    <3>2. CASE i = Len(b) BY <1>3, <1>4, <2>1, <3>2 DEF Coming
    <3>3. CASE i > Len(b)
      <4>1. i - Len(b) \in 1 .. Len(line') BY <1>2, <1>3, <1>4, <2>3, <3>3
      <4>2. line'[i - Len(b)] = line[i - Len(buffer)] BY <1>2, <1>3, <1>4, <4>1
      <4> QED BY <1>3, <1>4, <2>1, <3>3, <4>2 DEF Coming
    <3> QED BY <1>3, <1>4, <3>1, <3>2, <3>3
  <2>4. \E gap \in 0 .. lost : /\ (Len(buffer) + gap + Len(line)) % PacketLen = 0
                               /\ gap = 0 => OnePacket
    <3>1. CASE buffer # <<>> BY <3>1 DEF TornInv, BufferInStep
    <3>2. CASE buffer = <<>>
      <4>1. line[1] = Header BY <1>3, <1>7, <3>2
      <4>2. Stands(line[1], After(1)) BY <1>2 DEF TornInv, WholePackets
      <4>3. After(1) \in 0 .. 5 BY <1>2 DEF After, PacketLen
      <4>4. After(1) = 5 BY <4>1, <4>2, <4>3 DEF Stands, Header, Blank, LineEnd
      <4>5. /\ Len(line) % 6 = 0 /\ Len(line) >= 6
            /\ (Len(line) - 3) % 6 = 3 /\ (Len(line) - 5) % 6 = 1
        <5>1. (Len(line) - 1) % 6 = 5 BY <4>4 DEF After, PacketLen
        <5> QED BY <1>2, <5>1, HeaderPlace
      <4>6. After(3) = 3 /\ After(5) = 1 BY <4>5 DEF After, PacketLen
      <4>7. 3 \in 1 .. Len(line) /\ 5 \in 1 .. Len(line) BY <1>2, <4>5
      <4>8. /\ line[3].kind = "pwm" /\ line[5].kind = "pwm" /\ line[3].id = line[3 + 2].id
        BY <4>6, <4>7 DEF TornInv, WholePackets, Stands
      <4>9. Coming(3) = line[3] /\ Coming(5) = line[5] BY <3>2 DEF Coming
      <4>10. OnePacket BY <4>8, <4>9 DEF OnePacket
      <4>11. Len(buffer) = 0 BY <3>2
      <4>12. (Len(buffer) + 0 + Len(line)) % PacketLen = 0 BY <1>2, <4>5, <4>11 DEF PacketLen
      <4>13. 0 \in 0 .. lost BY <1>5
      <4> QED BY <4>10, <4>12, <4>13
    <3> QED BY <3>1, <3>2
  <2>5. PICK gap \in 0 .. lost : /\ (Len(buffer) + gap + Len(line)) % PacketLen = 0
                                 /\ gap = 0 => OnePacket
    BY <2>4
  <2>6. (Len(b) + gap + Len(line')) % PacketLen = 0
    <3>1. Len(b) + gap + Len(line') = Len(buffer) + gap + Len(line) BY <1>2, <1>3, <1>4, <1>5
    <3> QED BY <2>5, <3>1
  <2>7. ASSUME gap = 0 PROVE OnePacket'
    <3>1. Len(buffer) + Len(line) >= 6
      <4>1. (Len(buffer) + Len(line)) % 6 = 0 BY <1>2, <1>3, <2>5, <2>7 DEF PacketLen
      <4>2. Len(buffer) + Len(line) \in Nat /\ Len(buffer) + Len(line) > 0 BY <1>2, <1>3
      <4> QED BY <4>1, <4>2, Places
    <3>2. Coming(3)' = Coming(3) /\ Coming(5)' = Coming(5) BY <1>2, <1>3, <2>3, <3>1
    <3> QED BY <2>5, <2>7, <3>2 DEF OnePacket
  <2>8. BufferInStep'
    <3>1. b # <<>>
      <4>1. Len(<<>>) = 0 /\ 0 \notin 1 .. 5 OBVIOUS
      <4> QED BY <2>2, <4>1
    <3>2. lost' = lost BY <2>1, <3>1
    <3> QED BY <2>1, <2>6, <2>7, <3>2 DEF BufferInStep
  <2> QED BY <1>2, <2>1, <2>8 DEF TornInv, NoTornCommand
<1>8. CASE ~(buffer = <<>> /\ Head(line) # Header) /\ Full(Len(b))
  <2>1. buffer' = <<>> /\ Exec(b) BY <1>8 DEF RxByte, b
  <2>2. Len(buffer) = 5
    <3>1. Len(b) = 6 BY <1>8 DEF Full, PacketLen
    <3>2. Len(buffer) + 1 = 6 /\ Len(buffer) \in 0 .. 5 BY <1>3, <1>4, <3>1
    <3>3. \A n \in 0 .. 5 : n + 1 = 6 => n = 5 OBVIOUS
    <3> QED BY <3>2, <3>3
  <2>3. CASE ~(Framed(b) /\ InRange(b)) BY <1>2, <2>1, <2>3 DEF Exec, TornInv, BufferInStep, NoTornCommand
  <2>4. CASE Framed(b) /\ InRange(b)
    <3>1. line[1] = LineEnd BY <1>4, <2>2, <2>4 DEF Framed
    <3>2. Stands(line[1], After(1)) BY <1>2 DEF TornInv, WholePackets
    <3>3. After(1) \in 0 .. 5 BY <1>2 DEF After, PacketLen
    <3>4. After(1) = 0 BY <3>1, <3>2, <3>3 DEF Stands, Header, Blank, LineEnd
    <3>5. PICK gap \in 0 .. lost : /\ (Len(buffer) + gap + Len(line)) % PacketLen = 0
                                   /\ gap = 0 => OnePacket
      BY <2>2 DEF TornInv, BufferInStep
    <3>6. gap = 0
      <4>1. (Len(line) - 1) % 6 = 0 BY <3>4 DEF After, PacketLen
      <4>2. (5 + gap + Len(line)) % 6 = 0 BY <2>2, <3>5 DEF PacketLen
      <4>3. gap \in 0 .. 5 BY <1>5, <3>5
      <4> QED BY <1>2, <4>1, <4>2, <4>3, LineEndPlace
    <3>7. Coming(3) = b[3] /\ Coming(5) = b[5] BY <1>4, <2>2 DEF Coming
    <3>8. b[3].kind = "pwm" /\ b[5].kind = "pwm" /\ b[3].id = b[5].id
      BY <3>5, <3>6, <3>7 DEF OnePacket
    <3>9. torn' = FALSE BY <2>1, <2>4, <3>8 DEF Exec
    <3> QED BY <1>2, <2>1, <3>9 DEF TornInv, BufferInStep, NoTornCommand
  <2> QED BY <2>3, <2>4
<1> QED BY <1>6, <1>7, <1>8

LEMMA TornInit == Init => TornInv
  BY DEF Init, BoardInit, TornInv, WholePackets, BufferInStep, NoTornCommand

LEMMA TornNext == TypeOK /\ TornInv /\ [Next]_vars => TornInv'
<1> SUFFICES ASSUME TypeOK, TornInv, [Next]_vars PROVE TornInv' OBVIOUS
<1>1. ASSUME UNCHANGED <<line, buffer, torn, lost>> PROVE TornInv'
  BY <1>1 DEF TornInv, WholePackets, After, BufferInStep, OnePacket, Coming, NoTornCommand
<1>2. CASE SetSpeed \/ SetPulseParams \/ CleanUp \/ ClearRunning \/ Join \/ Kill \/ Compute
           \/ SenderExit
  BY <1>1, <1>2 DEF SetSpeed, SetPulseParams, CleanUp, ClearRunning, Join, Kill, Compute,
                    SenderExit, boardVars
<1>3. CASE StopWrite
  <2>1. [s \in Sides |-> 0] \in [Sides -> Int] OBVIOUS
  <2> QED BY <1>3, <2>1, WriteKeeps DEF StopWrite
<1>4. CASE SendWrite
  <2>1. out \in [Sides -> Int] BY DEF TypeOK
  <2> QED BY <1>4, <2>1, WriteKeeps DEF SendWrite
<1>5. CASE LoseByte BY <1>5, LoseKeeps
<1>6. CASE Receive
  <2>1. buffer' # <<>> => lost' = lost BY <1>6 DEF Receive
  <2> QED BY <1>6, <2>1, RxKeeps DEF Receive
<1>7. CASE (WatchdogTick \/ SwitchMode) /\ UNCHANGED hostVars
  BY <1>1, <1>7 DEF WatchdogTick, SwitchMode, hostVars
<1>8. CASE UNCHANGED vars BY <1>1, <1>8 DEF vars, boardVars, hostVars
<1> QED BY <1>2, <1>3, <1>4, <1>5, <1>6, <1>7, <1>8 DEF Next, MainThread, Send, Board

\* However many packets the line damages: with fewer symbols lost inside one packet than
\* it has, the two speeds the board executes were sent together (cmd_rx.sv).  The bound
\* is LossAssumption; without it six losses in one packet join two halves.
THEOREM NoTornHolds == Spec => []NoTornCommand
<1>1. Spec => []TornInv BY TornInit, TornNext, TypesAreKept, PTL DEF Spec
<1>2. TornInv => NoTornCommand BY DEF TornInv
<1> QED BY <1>1, <1>2, PTL


------------------------------------------------------------------------------
\* Division with rest, and what one more does to the rest.
LEMMA DivMod ==
  ASSUME NEW m \in Int, m > 0, NEW n \in Int
  PROVE  n % m \in 0 .. m - 1 /\ \E q \in Int : n = m * q + (n % m)
  OBVIOUS
LEMMA RestIs ==
  ASSUME NEW m \in Int, m > 0, NEW q \in Int, NEW r \in 0 .. m - 1 PROVE (m * q + r) % m = r
  OBVIOUS
LEMMA NextRest ==
  ASSUME NEW m \in Int, m > 0, NEW n \in Int
  PROVE  (n + 1) % m = IF (n % m) = m - 1 THEN 0 ELSE (n % m) + 1
<1>1. PICK q \in Int : n = m * q + (n % m) BY DivMod
<1>2. PICK r \in 0 .. m - 1 : r = n % m BY DivMod
<1>3. PICK p \in Int : p = m * q OBVIOUS
<1>4. m * (q + 1) = m * q + m OBVIOUS
<1>5. n = p + r /\ m * (q + 1) = p + m BY <1>1, <1>2, <1>3, <1>4
<1>6. CASE r = m - 1
  <2>1. n + 1 = m * (q + 1) + 0 BY <1>5, <1>6
  <2>2. (m * (q + 1) + 0) % m = 0 BY RestIs
  <2> QED BY <1>2, <1>6, <2>1, <2>2
<1>7. CASE r # m - 1
  <2>1. r + 1 \in 0 .. m - 1 BY <1>7
  <2>2. n + 1 = p + (r + 1) BY <1>5
  <2>3. (m * q + (r + 1)) % m = r + 1 BY <2>1, RestIs
  <2> QED BY <1>2, <1>3, <1>7, <2>2, <2>3
<1> QED BY <1>6, <1>7

\* Neighbours have different sequence numbers, and the next one is the sum modulo SeqMod.
LEMMA SeqFacts ==
  ASSUME NEW i \in Nat
  PROVE  /\ seqOf(i) \in 0 .. SeqMod - 1 /\ seqOf(i) # seqOf(i + 1)
         /\ (seqOf(i) + 1) % SeqMod = seqOf(i + 1) /\ seqOf(i) # Unset
<1>1. SeqMod \in Int /\ SeqMod > 1 BY OmxAssumption
<1>2. PICK n \in Int : n = i - 1 OBVIOUS
<1>3. PICK r \in 0 .. SeqMod - 1 : r = n % SeqMod BY <1>1, DivMod
<1>4. seqOf(i) = r BY <1>2, <1>3 DEF seqOf
<1>5. seqOf(i + 1) = IF r = SeqMod - 1 THEN 0 ELSE r + 1
  <2>1. SeqMod > 0 BY <1>1
  <2>2. (n + 1) % SeqMod = IF (n % SeqMod) = SeqMod - 1 THEN 0 ELSE (n % SeqMod) + 1
    BY <1>1, <2>1, NextRest
  <2>3. (i + 1) - 1 = n + 1 BY <1>2
  <2> QED BY <1>3, <2>2, <2>3 DEF seqOf
<1>6. (r + 1) % SeqMod = IF r = SeqMod - 1 THEN 0 ELSE r + 1
  <2>1. SeqMod > 0 /\ r % SeqMod = r BY <1>1
  <2>2. (r + 1) % SeqMod = IF (r % SeqMod) = SeqMod - 1 THEN 0 ELSE (r % SeqMod) + 1
    BY <1>1, <2>1, NextRest
  <2> QED BY <2>1, <2>2
<1> QED BY <1>1, <1>4, <1>5, <1>6 DEF Unset

LEMMA FirstSeq == seqOf(1) = 0
<1>1. 0 % SeqMod = 0 BY OmxAssumption
<1> QED BY <1>1 DEF seqOf

------------------------------------------------------------------------------
\* What is left of a line that holds so many.
LEMMA FitFacts ==
  ASSUME NEW S, NEW s \in Seq(S), NEW n \in Nat
  PROVE  /\ Fit(s, n) \in Seq(S) /\ Len(Fit(s, n)) <= Len(s) /\ Len(Fit(s, n)) \in Nat
         /\ \A k \in 1 .. Len(Fit(s, n)) : Fit(s, n)[k] = s[k]
<1>1. PICK m \in Nat : m = IF Len(s) < n THEN Len(s) ELSE n OBVIOUS
<1>2. m <= Len(s) BY <1>1
<1>3. \A k \in 1 .. m : s[k] \in S BY <1>2
<1>4. Fit(s, n) = SubSeq(s, 1, m) BY <1>1 DEF Fit
<1>5. /\ SubSeq(s, 1, m) \in Seq(S)
      /\ Len(SubSeq(s, 1, m)) = IF 1 <= m THEN m - 1 + 1 ELSE 0
      /\ \A k \in 1 .. m - 1 + 1 : SubSeq(s, 1, m)[k] = s[1 + k - 1]
  BY <1>3, SubSeqProperties
<1>6. Len(SubSeq(s, 1, m)) = m BY <1>5
<1>7. \A k \in 1 .. m : SubSeq(s, 1, m)[k] = s[k] BY <1>5
<1> QED BY <1>2, <1>4, <1>5, <1>6, <1>7

\* The targets on the line: of the last two, and the last one behind the other.
TargetLine(s, i) ==
  \A k \in 1 .. Len(s) : /\ s[k] \in {i - 1, i}
                         /\ \A j \in 1 .. k : s[j] = i => s[k] = i
OnlyTarget(s, i) == \A k \in 1 .. Len(s) : s[k] = i

\* The acknowledgements on the line, in the same way; known: the last target was taken.
Ack(a) == a[1] = "ACK"
AckLine(z, i, known) ==
  \A k \in 1 .. Len(z) : Ack(z[k]) =>
    /\ i > 0 /\ z[k][2] \in {seqOf(i - 1), seqOf(i)}
    /\ z[k][2] = seqOf(i) => known
    /\ \A j \in 1 .. k : Ack(z[j]) /\ z[j][2] = seqOf(i) => z[k][2] = seqOf(i)
OnlyAck(z, i) == \A k \in 1 .. Len(z) : Ack(z[k]) => z[k][2] = seqOf(i)

Answer == {"ACK", "RETRY"} \X Int

LEMMA TargetTail ==
  ASSUME NEW S, NEW s \in Seq(S), s # <<>>, NEW i \in Nat
  PROVE  /\ TargetLine(s, i) => TargetLine(Tail(s), i)
         /\ OnlyTarget(s, i) => OnlyTarget(Tail(s), i)
         /\ TargetLine(s, i) => Head(s) \in {i - 1, i}
         /\ TargetLine(s, i) /\ Head(s) = i => OnlyTarget(s, i)
<1>1. /\ Len(Tail(s)) = Len(s) - 1 /\ \A k \in 1 .. Len(Tail(s)) : Tail(s)[k] = s[k + 1]
  BY HeadTailProperties
<1>2. Head(s) = s[1] /\ Len(s) \in Nat \ {0} OBVIOUS
<1>3. PICK n \in Nat \ {0} : n = Len(s) BY <1>2
<1>4. \A k \in 1 .. n - 1 : k + 1 \in 1 .. n OBVIOUS
<1>5. ASSUME TargetLine(s, i) PROVE TargetLine(Tail(s), i)
  <2> SUFFICES ASSUME NEW k \in 1 .. n - 1
               PROVE  /\ Tail(s)[k] \in {i - 1, i}
                      /\ \A j \in 1 .. k : Tail(s)[j] = i => Tail(s)[k] = i
    BY <1>1, <1>3 DEF TargetLine
  <2>1. Tail(s)[k] = s[k + 1] /\ k + 1 \in 1 .. n BY <1>1, <1>3
  <2>2. \A j \in 1 .. k : Tail(s)[j] = s[j + 1] /\ j + 1 \in 1 .. k + 1 BY <1>1, <1>3
  <2> QED BY <1>3, <1>5, <2>1, <2>2 DEF TargetLine
<1>6. ASSUME OnlyTarget(s, i) PROVE OnlyTarget(Tail(s), i)
  BY <1>1, <1>3, <1>4, <1>6 DEF OnlyTarget
<1>7. 1 \in 1 .. n /\ \A k \in 1 .. n : 1 \in 1 .. k OBVIOUS
<1>8. ASSUME TargetLine(s, i)
      PROVE  Head(s) \in {i - 1, i} /\ (Head(s) = i => OnlyTarget(s, i))
  BY <1>2, <1>3, <1>7, <1>8 DEF TargetLine, OnlyTarget
<1> QED BY <1>5, <1>6, <1>8

LEMMA TargetAppend ==
  ASSUME NEW S, NEW s \in Seq(S), NEW i \in S, NEW n \in Nat, i \in Nat
  PROVE  /\ Fit(Append(s, i), n) \in Seq(S)
         /\ TargetLine(s, i) => TargetLine(Fit(Append(s, i), n), i)
         /\ OnlyTarget(s, i) => OnlyTarget(Fit(Append(s, i), n), i)
<1>1. /\ Append(s, i) \in Seq(S) /\ Len(Append(s, i)) = Len(s) + 1
      /\ \A k \in 1 .. Len(s) : Append(s, i)[k] = s[k]
      /\ Append(s, i)[Len(s) + 1] = i
  BY AppendProperties
<1> DEFINE f == Fit(Append(s, i), n)
<1>2. /\ f \in Seq(S) /\ Len(f) <= Len(s) + 1 /\ Len(f) \in Nat
      /\ \A k \in 1 .. Len(f) : f[k] = Append(s, i)[k]
  BY <1>1, FitFacts
<1> HIDE DEF f
<1>3. PICK l \in Nat, m \in Nat : l = Len(f) /\ m = Len(s) BY <1>2
<1>4. l <= m + 1 BY <1>2, <1>3
<1>5. \A k \in 1 .. l : f[k] = IF k <= m THEN s[k] ELSE i BY <1>1, <1>2, <1>3, <1>4
<1>6. ASSUME TargetLine(s, i) PROVE TargetLine(f, i)
  <2> SUFFICES ASSUME NEW k \in 1 .. l
               PROVE  /\ f[k] \in {i - 1, i}
                      /\ \A j \in 1 .. k : f[j] = i => f[k] = i
    BY <1>3 DEF TargetLine
  <2>1. CASE k <= m
    <3>1. k \in 1 .. m /\ \A j \in 1 .. k : j \in 1 .. l /\ j <= m BY <1>4, <2>1
    <3> QED BY <1>3, <1>5, <1>6, <3>1 DEF TargetLine
  <2>2. CASE ~(k <= m) BY <1>5, <2>2
  <2> QED BY <2>1, <2>2
<1>7. ASSUME OnlyTarget(s, i) PROVE OnlyTarget(f, i)
  BY <1>3, <1>5, <1>7 DEF OnlyTarget
<1> QED BY <1>2, <1>6, <1>7 DEF f

LEMMA AckTail ==
  ASSUME NEW z \in Seq(Answer), z # <<>>, NEW i \in Nat, NEW known \in BOOLEAN
  PROVE  /\ AckLine(z, i, known) => AckLine(Tail(z), i, known)
         /\ OnlyAck(z, i) => OnlyAck(Tail(z), i)
         /\ AckLine(z, i, known) /\ Head(z) = <<"ACK", seqOf(i)>> => known /\ OnlyAck(z, i)
<1>1. /\ Len(Tail(z)) = Len(z) - 1 /\ \A k \in 1 .. Len(Tail(z)) : Tail(z)[k] = z[k + 1]
  BY HeadTailProperties
<1>2. Head(z) = z[1] /\ Len(z) \in Nat \ {0} OBVIOUS
<1>3. PICK n \in Nat \ {0} : n = Len(z) BY <1>2
<1>4. \A k \in 1 .. n - 1 : k + 1 \in 1 .. n OBVIOUS
<1>5. ASSUME AckLine(z, i, known) PROVE AckLine(Tail(z), i, known)
  <2> SUFFICES ASSUME NEW k \in 1 .. n - 1, Ack(Tail(z)[k])
               PROVE  /\ i > 0 /\ Tail(z)[k][2] \in {seqOf(i - 1), seqOf(i)}
                      /\ Tail(z)[k][2] = seqOf(i) => known
                      /\ \A j \in 1 .. k : Ack(Tail(z)[j]) /\ Tail(z)[j][2] = seqOf(i)
                                             => Tail(z)[k][2] = seqOf(i)
    BY <1>1, <1>3 DEF AckLine
  <2>1. Tail(z)[k] = z[k + 1] /\ k + 1 \in 1 .. n BY <1>1, <1>3
  <2>2. \A j \in 1 .. k : Tail(z)[j] = z[j + 1] /\ j + 1 \in 1 .. k + 1 BY <1>1, <1>3
  <2> QED BY <1>3, <1>5, <2>1, <2>2 DEF AckLine
<1>6. ASSUME OnlyAck(z, i) PROVE OnlyAck(Tail(z), i) BY <1>1, <1>3, <1>4, <1>6 DEF OnlyAck
<1>7. ASSUME AckLine(z, i, known), Head(z) = <<"ACK", seqOf(i)>> PROVE known /\ OnlyAck(z, i)
  <2>1. 1 \in 1 .. n /\ \A k \in 1 .. n : 1 \in 1 .. k OBVIOUS
  <2>2. Ack(z[1]) /\ z[1][2] = seqOf(i) BY <1>2, <1>7 DEF Ack
  <2> QED BY <1>3, <1>7, <2>1, <2>2 DEF AckLine, OnlyAck
<1> QED BY <1>5, <1>6, <1>7

\* An answer more: an acknowledgement of the last target or of the one before, or none.
LEMMA AckAppend ==
  ASSUME NEW z \in Seq(Answer), NEW a \in Answer, NEW n \in Nat, NEW i \in Nat \ {0},
         NEW known \in BOOLEAN, AckLine(z, i, known), Ack(a),
         (a[2] = seqOf(i) /\ known) \/ (a[2] = seqOf(i - 1) /\ ~known)
  PROVE  /\ Fit(Append(z, a), n) \in Seq(Answer) /\ AckLine(Fit(Append(z, a), n), i, known)
         /\ OnlyAck(z, i) /\ known => OnlyAck(Fit(Append(z, a), n), i)
<1>1. /\ Append(z, a) \in Seq(Answer) /\ Len(Append(z, a)) = Len(z) + 1
      /\ \A k \in 1 .. Len(z) : Append(z, a)[k] = z[k]
      /\ Append(z, a)[Len(z) + 1] = a
  BY AppendProperties
<1> DEFINE f == Fit(Append(z, a), n)
<1>2. /\ f \in Seq(Answer) /\ Len(f) <= Len(z) + 1 /\ Len(f) \in Nat
      /\ \A k \in 1 .. Len(f) : f[k] = Append(z, a)[k]
  BY <1>1, FitFacts
<1> HIDE DEF f
<1>3. PICK l \in Nat, m \in Nat : l = Len(f) /\ m = Len(z) BY <1>2
<1>4. l <= m + 1 BY <1>2, <1>3
<1>5. \A k \in 1 .. l : f[k] = IF k <= m THEN z[k] ELSE a BY <1>1, <1>2, <1>3, <1>4
<1>6. AckLine(f, i, known)
  <2> SUFFICES ASSUME NEW k \in 1 .. l, Ack(f[k])
               PROVE  /\ i > 0 /\ f[k][2] \in {seqOf(i - 1), seqOf(i)}
                      /\ f[k][2] = seqOf(i) => known
                      /\ \A j \in 1 .. k : Ack(f[j]) /\ f[j][2] = seqOf(i) => f[k][2] = seqOf(i)
    BY <1>3 DEF AckLine
  <2>1. CASE k <= m
    <3>1. k \in 1 .. m /\ \A j \in 1 .. k : j \in 1 .. l /\ j <= m BY <1>4, <2>1
    <3> QED BY <1>3, <1>5, <3>1 DEF AckLine
  <2>2. CASE ~(k <= m)
    <3>1. f[k] = a BY <1>5, <2>2
    <3>2. seqOf(i - 1) # seqOf(i)
      <4>1. i - 1 \in Nat /\ (i - 1) + 1 = i OBVIOUS
      <4> QED BY <4>1, SeqFacts
    <3>3. CASE known BY <3>1, <3>2, <3>3
    <3>4. CASE ~known
      <4>1. ASSUME NEW j \in 1 .. k, Ack(f[j]), f[j][2] = seqOf(i) PROVE FALSE
        <5>1. j \in 1 .. m \/ j = k BY <1>4, <2>2
        <5>2. j # k BY <3>1, <3>2, <3>4, <4>1
        <5>3. j \in 1 .. m /\ j \in 1 .. l /\ f[j] = z[j] BY <1>5, <5>1, <5>2
        <5> QED BY <1>3, <3>4, <4>1, <5>3 DEF AckLine
      <4> QED BY <3>1, <3>2, <3>4, <4>1
    <3> QED BY <3>3, <3>4
  <2> QED BY <2>1, <2>2
<1>7. ASSUME OnlyAck(z, i), known PROVE OnlyAck(f, i)
  <2>1. a[2] = seqOf(i) BY <1>7
  <2> QED BY <1>3, <1>5, <1>7, <2>1 DEF OnlyAck
<1> QED BY <1>2, <1>6, <1>7 DEF f

LEMMA RetryAppend ==
  ASSUME NEW z \in Seq(Answer), NEW q \in Int, NEW n \in Nat, NEW i \in Nat, NEW known \in BOOLEAN
  PROVE  LET f == Fit(z \o <<<<"RETRY", q>>, <<"RETRY", q>>>>, n)
         IN /\ f \in Seq(Answer)
            /\ AckLine(z, i, known) => AckLine(f, i, known)
            /\ OnlyAck(z, i) => OnlyAck(f, i)
<1> DEFINE r == <<"RETRY", q>>
           t == <<r, r>>
           f == Fit(z \o t, n)
<1>1. r \in Answer /\ ~Ack(r) BY DEF Answer, Ack
<1>2. t \in Seq(Answer) /\ Len(t) = 2 /\ t[1] = r /\ t[2] = r BY <1>1
<1> HIDE DEF r, t
<1>3. /\ z \o t \in Seq(Answer) /\ Len(z \o t) = Len(z) + Len(t)
      /\ \A k \in 1 .. Len(z) + Len(t) :
           (z \o t)[k] = IF k <= Len(z) THEN z[k] ELSE t[k - Len(z)]
  BY <1>2, ConcatProperties
<1>4. /\ f \in Seq(Answer) /\ Len(f) <= Len(z \o t) /\ Len(f) \in Nat
      /\ \A k \in 1 .. Len(f) : f[k] = (z \o t)[k]
  BY <1>3, FitFacts
<1> HIDE DEF f
<1>5. PICK l \in Nat, m \in Nat : l = Len(f) /\ m = Len(z) BY <1>4
<1>6. l <= m + 2 BY <1>2, <1>3, <1>4, <1>5
<1>7. ASSUME NEW k \in 1 .. l PROVE f[k] = IF k <= m THEN z[k] ELSE r
  <2>1. f[k] = IF k <= m THEN z[k] ELSE t[k - m] BY <1>2, <1>3, <1>4, <1>5, <1>6
  <2>2. CASE k <= m BY <2>1, <2>2
  <2>3. CASE ~(k <= m)
    <3>1. k - m \in {1, 2} BY <1>6, <2>3
    <3> QED BY <1>2, <2>1, <2>3, <3>1
  <2> QED BY <2>2, <2>3
<1>8. \A k \in 1 .. l : Ack(f[k]) => /\ k \in 1 .. m /\ f[k] = z[k]
                                     /\ \A j \in 1 .. k : j \in 1 .. m /\ f[j] = z[j]
  BY <1>1, <1>7
<1>9. ASSUME AckLine(z, i, known) PROVE AckLine(f, i, known)
  BY <1>5, <1>8, <1>9 DEF AckLine
<1>10. ASSUME OnlyAck(z, i) PROVE OnlyAck(f, i) BY <1>5, <1>8, <1>10 DEF OnlyAck
<1> QED BY <1>4, <1>9, <1>10 DEF f, t, r

------------------------------------------------------------------------------
\* The types the argument needs.
FlowTypes ==
  /\ toOmx \in Seq(1 .. Issues) /\ toZybo \in Seq(Answer)
  /\ taken \in [1 .. Issues -> {"no", "once", "twice", "forgotten"}]
  /\ zyboPc \in {"idle", "send", "ack", "work", "gone"}
  /\ issue \in 0 .. Issues /\ target \in Nat /\ job \in Nat /\ asked \in Nat

\* The target that was selected last is known to the arm.
Known == issue > 0 /\ taken[issue] # "no"
Settled == zyboPc \in {"idle", "work", "gone"}

Numbered == IF zyboPc = "idle" THEN sequence = seqOf(issue + 1)
            ELSE issue > 0 /\ sequence = seqOf(issue)
LinesInOrder ==
  /\ TargetLine(toOmx, issue) /\ (Known => OnlyTarget(toOmx, issue))
  /\ AckLine(toZybo, issue, Known) /\ (Settled => OnlyAck(toZybo, issue))

\* What the arm remembers of the last number, against what it has taken.
Remembered ==
  /\ \A i \in 1 .. Issues : i > issue => taken[i] = "no"
  /\ Known => last \in {Unset, seqOf(issue)} /\ (taken[issue] = "once" => last = seqOf(issue))
  /\ ~Known => /\ last \in {Unset, seqOf(issue - 1)} /\ (issue = 0 => last = Unset)
               /\ issue > 1 /\ taken[issue - 1] = "once" => last = seqOf(issue - 1)
SettledIsKnown == issue > 0 /\ Settled => Known
NoneTwice == \A i \in 1 .. Issues : taken[i] # "twice"

FlowInv == FlowTypes /\ Numbered /\ LinesInOrder /\ Remembered /\ SettledIsKnown /\ NoneTwice

LEMMA KnownBool == Known \in BOOLEAN BY DEF Known

LEMMA FlowInitInv == FlowInit => FlowInv
<1> SUFFICES ASSUME FlowInit PROVE FlowInv OBVIOUS
<1> USE DEF FlowInit, OmxInit
<1>1. FlowTypes BY OmxAssumption DEF FlowTypes, Nobody
<1>2. Numbered BY FirstSeq DEF Numbered
<1>3. LinesInOrder BY DEF LinesInOrder, TargetLine, OnlyTarget, AckLine, OnlyAck, Known
<1>4. Remembered /\ SettledIsKnown /\ NoneTwice
  BY OmxAssumption DEF Remembered, SettledIsKnown, NoneTwice, Known
<1> QED BY <1>1, <1>2, <1>3, <1>4 DEF FlowInv

\* The lines and the memories as they are, and the Zybo not settled: nothing to do.
LEMMA SameInv ==
  ASSUME FlowInv, UNCHANGED <<toOmx, toZybo, taken, last, issue>>,
         target' \in Nat, job' \in Nat, asked' \in Nat,
         zyboPc' \in {"idle", "send", "ack", "work", "gone"}, Numbered',
         Settled' => Settled
  PROVE  FlowInv'
<1>1. UNCHANGED Known BY DEF Known
<1>2. FlowTypes' BY DEF FlowInv, FlowTypes
<1>3. LinesInOrder' BY <1>1 DEF FlowInv, LinesInOrder, TargetLine, OnlyTarget, AckLine, OnlyAck
<1>4. Remembered' BY <1>1 DEF FlowInv, Remembered
<1>5. SettledIsKnown' BY <1>1 DEF FlowInv, SettledIsKnown
<1>6. NoneTwice' BY DEF FlowInv, NoneTwice
<1> QED BY <1>2, <1>3, <1>4, <1>5, <1>6 DEF FlowInv

\* A fresh target: the one before it is known, so only it is on the lines.
LEMMA SelectKeeps == ASSUME FlowInv, Select PROVE FlowInv'
<1>1. /\ zyboPc = "idle" /\ issue < Issues /\ zyboPc' = "send" /\ issue' = issue + 1
      /\ UNCHANGED <<last, target, job, asked, toOmx, toZybo, taken, sequence>>
  BY DEF Select, omxVars
<1>2. issue \in 0 .. Issues /\ Issues \in Nat BY OmxAssumption DEF FlowInv, FlowTypes
<1>3. PICK i \in Nat : i = issue BY <1>2
<1>4. issue' = i + 1 /\ i + 1 \in 1 .. Issues /\ (i + 1) - 1 = i BY <1>1, <1>2, <1>3
<1>5. Settled /\ ~Settled' BY <1>1 DEF Settled
<1>6. taken[i + 1] = "no" BY <1>3, <1>4 DEF FlowInv, Remembered
<1>7. ~Known' BY <1>1, <1>4, <1>6 DEF Known
<1>8. seqOf(i) # seqOf(i + 1) BY SeqFacts
<1>9. i = 0 => toOmx = <<>>
  <2> SUFFICES ASSUME i = 0, toOmx # <<>> PROVE FALSE OBVIOUS
  <2>1. toOmx \in Seq(1 .. Issues) BY DEF FlowInv, FlowTypes
  <2>2. Len(toOmx) \in Nat \ {0} /\ toOmx[1] \in 1 .. Issues
    <3>1. Head(toOmx) \in 1 .. Issues BY <2>1, HeadTailProperties
    <3> QED BY <2>1, <3>1
  <2>3. 1 \in 1 .. Len(toOmx) BY <2>2
  <2>4. toOmx[1] \in {issue - 1, issue} BY <2>3 DEF FlowInv, LinesInOrder, TargetLine
  <2> QED BY <1>3, <2>2, <2>4
<1>10. i # 0 => Known BY <1>3, <1>5 DEF FlowInv, SettledIsKnown
<1>11. OnlyTarget(toOmx, i)
  <2>1. CASE i = 0 BY <1>9, <2>1 DEF OnlyTarget
  <2>2. CASE i # 0 BY <1>3, <1>10, <2>2 DEF FlowInv, LinesInOrder
  <2> QED BY <2>1, <2>2
<1>12. TargetLine(toOmx, i + 1)
  <2>1. \A k \in 1 .. Len(toOmx) : toOmx[k] = i /\ \A j \in 1 .. k : j \in 1 .. Len(toOmx)
    <3>1. toOmx \in Seq(1 .. Issues) BY DEF FlowInv, FlowTypes
    <3> QED BY <1>11, <3>1 DEF OnlyTarget
  <2> QED BY <2>1 DEF TargetLine
<1>13. AckLine(toZybo, i + 1, FALSE)
  <2>1. OnlyAck(toZybo, i) BY <1>3, <1>5 DEF FlowInv, LinesInOrder
  <2>2. \A k \in 1 .. Len(toZybo) : \A j \in 1 .. k : j \in 1 .. Len(toZybo)
    <3>1. toZybo \in Seq(Answer) BY DEF FlowInv, FlowTypes
    <3> QED BY <3>1
  <2> QED BY <1>8, <2>1, <2>2 DEF AckLine, OnlyAck
<1>14. LinesInOrder' 
  <2>1. Known' = FALSE BY <1>7 DEF Known
  <2>2. TargetLine(toOmx', issue') BY <1>1, <1>4, <1>12
  <2>3. AckLine(toZybo', issue', Known') BY <1>1, <1>4, <1>13, <2>1
  <2> QED BY <1>5, <1>7, <2>2, <2>3 DEF LinesInOrder
<1>15. Remembered'
  <2>1. \A j \in 1 .. Issues : j > issue' => taken'[j] = "no"
    BY <1>1, <1>2 DEF FlowInv, Remembered
  <2>2. last \in {Unset, seqOf(i)} /\ (i > 0 /\ taken[i] = "once" => last = seqOf(i))
    <3>1. CASE i = 0 BY <1>3, <3>1 DEF FlowInv, Remembered, Known
    <3>2. CASE i # 0 BY <1>3, <1>10, <3>2 DEF FlowInv, Remembered
    <3> QED BY <3>1, <3>2
  <2>3. last' \in {Unset, seqOf(issue' - 1)} BY <1>1, <1>4, <2>2
  <2>4. issue' > 1 /\ taken'[issue' - 1] = "once" => last' = seqOf(issue' - 1)
    BY <1>1, <1>4, <2>2
  <2>5. issue' # 0 BY <1>4
  <2> QED BY <1>7, <2>1, <2>3, <2>4, <2>5 DEF Remembered
<1>16. Numbered' /\ SettledIsKnown'
  <2>1. sequence = seqOf(i + 1) BY <1>1, <1>3 DEF FlowInv, Numbered
  <2> QED BY <1>1, <1>4, <1>5, <2>1 DEF Numbered, SettledIsKnown
<1>17. FlowTypes' /\ NoneTwice'
  BY <1>1, <1>4 DEF FlowInv, FlowTypes, NoneTwice
<1> QED BY <1>14, <1>15, <1>16, <1>17 DEF FlowInv

LEMMA SendKeeps == ASSUME FlowInv, SendTarget PROVE FlowInv'
<1>1. /\ zyboPc = "send" /\ zyboPc' = "ack" /\ toOmx' = Fit(Append(toOmx, issue), Targets)
      /\ UNCHANGED <<last, target, job, asked, toZybo, taken, sequence, issue>>
  BY DEF SendTarget, outside
<1>2. issue \in 1 .. Issues /\ issue \in Nat
  BY <1>1, OmxAssumption DEF FlowInv, FlowTypes, Numbered
<1>3. toOmx \in Seq(1 .. Issues) /\ Targets \in Nat BY FlowAssumption DEF FlowInv, FlowTypes
<1>4. /\ toOmx' \in Seq(1 .. Issues)
      /\ TargetLine(toOmx, issue) => TargetLine(toOmx', issue)
      /\ OnlyTarget(toOmx, issue) => OnlyTarget(toOmx', issue)
  BY <1>1, <1>2, <1>3, TargetAppend
<1>5. UNCHANGED Known BY <1>1 DEF Known
<1>6. ~Settled' BY <1>1 DEF Settled
<1>7. LinesInOrder'
  <2>1. TargetLine(toOmx', issue') /\ (Known' => OnlyTarget(toOmx', issue'))
    BY <1>1, <1>4, <1>5 DEF FlowInv, LinesInOrder
  <2>2. AckLine(toZybo', issue', Known') BY <1>1, <1>5 DEF FlowInv, LinesInOrder
  <2> QED BY <1>6, <2>1, <2>2 DEF LinesInOrder
<1>8. Remembered' BY <1>1, <1>5 DEF FlowInv, Remembered
<1>9. Numbered' BY <1>1 DEF FlowInv, Numbered
<1>10. FlowTypes' BY <1>1, <1>4 DEF FlowInv, FlowTypes
<1>11. SettledIsKnown' /\ NoneTwice' BY <1>1, <1>6 DEF FlowInv, SettledIsKnown, NoneTwice
<1> QED BY <1>7, <1>8, <1>9, <1>10, <1>11 DEF FlowInv

\* An answer is read, and whatever the Zybo makes of it, it is settled only if it was
\* before or the acknowledgement was that of the last target.
LEMMA ReadKeeps ==
  ASSUME FlowInv, Read, toZybo # <<>>, Numbered',
         zyboPc' \in {"idle", "send", "ack", "work", "gone"},
         Settled' => Settled \/ Head(toZybo) = <<"ACK", seqOf(issue)>>
  PROVE  FlowInv'
<1>1. /\ toZybo' = Tail(toZybo)
      /\ UNCHANGED <<last, target, job, asked, toOmx, taken, issue>>
  BY DEF Read, outside
<1>2. issue \in Nat /\ toZybo \in Seq(Answer) BY DEF FlowInv, FlowTypes
<1>3. /\ AckLine(toZybo, issue, Known) => AckLine(toZybo', issue, Known)
      /\ OnlyAck(toZybo, issue) => OnlyAck(toZybo', issue)
      /\ AckLine(toZybo, issue, Known) /\ Head(toZybo) = <<"ACK", seqOf(issue)>>
           => Known /\ OnlyAck(toZybo, issue)
  BY <1>1, <1>2, KnownBool, AckTail
<1>4. UNCHANGED Known BY <1>1 DEF Known
<1>5. Settled' => OnlyAck(toZybo', issue') /\ (issue > 0 => Known)
  BY <1>1, <1>3 DEF FlowInv, LinesInOrder, SettledIsKnown
<1>6. LinesInOrder' BY <1>1, <1>3, <1>4, <1>5 DEF FlowInv, LinesInOrder
<1>7. Remembered' BY <1>1, <1>4 DEF FlowInv, Remembered
<1>8. FlowTypes'
  <2>1. toZybo' \in Seq(Answer) BY <1>1, <1>2
  <2> QED BY <1>1, <2>1 DEF FlowInv, FlowTypes
<1>9. SettledIsKnown' BY <1>1, <1>4, <1>5 DEF SettledIsKnown
<1>10. NoneTwice' BY <1>1 DEF FlowInv, NoneTwice
<1> QED BY <1>6, <1>7, <1>8, <1>9, <1>10 DEF FlowInv

LEMMA NextNumber ==
  ASSUME FlowInv, zyboPc # "idle", zyboPc' = "idle", NextSequence, UNCHANGED issue
  PROVE  Numbered'
<1>1. issue \in Nat BY DEF FlowInv, FlowTypes
<1>2. (seqOf(issue) + 1) % SeqMod = seqOf(issue + 1) BY <1>1, SeqFacts
<1> QED BY <1>2 DEF FlowInv, Numbered, NextSequence

LEMMA ZyboKeeps == ASSUME FlowInv, Zybo \/ LoseAnswer PROVE FlowInv'
<1>1. CASE Select BY <1>1, SelectKeeps
<1>2. CASE SendTarget BY <1>2, SendKeeps
<1>3. CASE AckTimeout \/ CarLeaves \/ CarReturns
  <2>1. UNCHANGED <<toOmx, toZybo, taken, last, issue, target, job, asked>>
    BY <1>3 DEF AckTimeout, CarLeaves, CarReturns, omxVars
  <2>2. Settled' => Settled BY <1>3 DEF AckTimeout, CarLeaves, CarReturns, Settled
  <2>3. zyboPc' \in {"idle", "send", "ack", "work", "gone"}
    BY <1>3 DEF AckTimeout, CarLeaves, CarReturns
  <2>4. Numbered'
    <3>1. CASE AckTimeout BY <3>1 DEF AckTimeout, FlowInv, Numbered
    <3>2. CASE CarLeaves BY <3>2 DEF CarLeaves, FlowInv, Numbered
    <3>3. CASE CarReturns BY <2>1, <3>3, NextNumber DEF CarReturns
    <3> QED BY <1>3, <3>1, <3>2, <3>3
  <2>5. target' \in Nat /\ job' \in Nat /\ asked' \in Nat BY <2>1 DEF FlowInv, FlowTypes
  <2> QED BY <2>1, <2>2, <2>3, <2>4, <2>5, SameInv
<1>4. CASE Acked
  <2>1. /\ zyboPc = "ack" /\ toZybo # <<>> /\ Head(toZybo) = <<"ACK", sequence>> /\ Read
        /\ zyboPc' = "work" /\ UNCHANGED <<sequence, issue>>
    BY <1>4 DEF Acked, Hears, Read
  <2>2. sequence = seqOf(issue) BY <2>1 DEF FlowInv, Numbered
  <2>3. Numbered' BY <2>1 DEF FlowInv, Numbered
  <2> QED BY <2>1, <2>2, <2>3, ReadKeeps
<1>5. CASE RetryHeard
  <2>1. /\ zyboPc = "work" /\ toZybo # <<>> /\ Read /\ zyboPc' = "idle" /\ NextSequence
        /\ UNCHANGED issue
    BY <1>5 DEF RetryHeard, Hears, Read
  <2>2. Numbered' BY <2>1, NextNumber
  <2> QED BY <2>1, <2>2, ReadKeeps DEF Settled
<1>6. CASE OtherAnswer \/ LoseAnswer
  <2>1. /\ toZybo # <<>> /\ Read /\ UNCHANGED <<zyboPc, sequence, issue>>
    BY <1>6 DEF OtherAnswer, LoseAnswer, Read
  <2>2. Numbered' /\ zyboPc' \in {"idle", "send", "ack", "work", "gone"}
    BY <2>1 DEF FlowInv, Numbered, FlowTypes
  <2>3. Settled' => Settled BY <2>1 DEF Settled
  <2> QED BY <2>1, <2>2, <2>3, ReadKeeps
<1> QED BY <1>1, <1>2, <1>3, <1>4, <1>5, <1>6 DEF Zybo

\* Once the last target is known nothing else is on the line.
LEMMA HeadIsOnly ==
  ASSUME FlowInv, toOmx # <<>>, toOmx \in Seq(1 .. Issues), Head(toOmx) # issue PROVE ~Known
<1>1. Head(toOmx) = toOmx[1] /\ 1 \in 1 .. Len(toOmx) OBVIOUS
<1> QED BY <1>1 DEF FlowInv, LinesInOrder, OnlyTarget

\* The arm takes a target: the last one, and then nothing else is on the line, or the
\* one before, and then the last one has not been taken.
LEMMA TakeKeeps ==
  ASSUME FlowInv, TakeTarget, UNCHANGED <<zyboPc, sequence, issue>> PROVE FlowInv'
<1> DEFINE x == Head(toOmx)
           a == <<"ACK", seqOf(x)>>
<1>1. /\ toOmx # <<>> /\ toOmx' = Tail(toOmx) /\ UNCHANGED job
      /\ toZybo' = Fit(Append(toZybo, a), Answers)
  BY DEF TakeTarget, acceptUartTarget
<1>2. /\ toOmx \in Seq(1 .. Issues) /\ toZybo \in Seq(Answer) /\ issue \in Nat
      /\ issue \in 0 .. Issues /\ Answers \in Nat
  BY OmxAssumption DEF FlowInv, FlowTypes
<1>3. x \in 1 .. Issues BY <1>1, <1>2, HeadTailProperties
<1>4. /\ toOmx' \in Seq(1 .. Issues)
      /\ TargetLine(toOmx', issue) /\ (OnlyTarget(toOmx, issue) => OnlyTarget(toOmx', issue))
      /\ x \in {issue - 1, issue} /\ (x = issue => OnlyTarget(toOmx, issue))
  BY <1>1, <1>2, TargetTail DEF FlowInv, LinesInOrder
<1>5. issue > 0 /\ issue \in 1 .. Issues BY <1>2, <1>3, <1>4
<1>6. a \in Answer /\ Ack(a) /\ a[2] = seqOf(x)
  <2>1. x \in Nat BY <1>3
  <2>2. seqOf(x) \in Int BY <2>1, SeqFacts, OmxAssumption
  <2> QED BY <2>2 DEF Answer, Ack
<1>7. seqOf(issue - 1) # seqOf(issue) /\ seqOf(issue) # Unset
  <2>1. issue - 1 \in Nat /\ (issue - 1) + 1 = issue BY <1>2, <1>5
  <2> QED BY <1>2, <2>1, SeqFacts
<1>8. \/ /\ last # seqOf(x) /\ last' = seqOf(x) /\ target' = x /\ asked' = Nobody
         /\ taken' = [taken EXCEPT ![x] = IF @ = "once" THEN "twice" ELSE "once"]
      \/ last = seqOf(x) /\ UNCHANGED <<last, target, asked, taken>>
  BY DEF TakeTarget, acceptUartTarget, isNew
<1>9. taken \in [1 .. Issues -> {"no", "once", "twice", "forgotten"}]
      /\ target \in Nat /\ job \in Nat /\ asked \in Nat
      /\ zyboPc \in {"idle", "send", "ack", "work", "gone"}
  BY DEF FlowInv, FlowTypes
<1>10. ~(taken[x] = "once" /\ last # seqOf(x))
  <2>1. CASE x = issue BY <1>5, <2>1 DEF FlowInv, Remembered, Known
  <2>2. CASE x # issue
    <3>1. x = issue - 1 /\ issue > 1 BY <1>2, <1>3, <1>4, <2>2
    <3>2. ~Known BY <1>1, <1>2, <1>4, <2>2, HeadIsOnly
    <3> QED BY <3>1, <3>2 DEF FlowInv, Remembered
  <2> QED BY <2>1, <2>2
<1>11. \/ /\ last' = seqOf(x) /\ target' = x /\ asked' = Nobody
          /\ taken' = [taken EXCEPT ![x] = "once"]
       \/ last = seqOf(x) /\ UNCHANGED <<last, target, asked, taken>>
  <2>1. CASE last # seqOf(x)
    <3>1. taken[x] # "once" BY <1>10, <2>1
    <3>2. taken' = [taken EXCEPT ![x] = "once"] BY <1>8, <2>1, <3>1
    <3> QED BY <1>8, <2>1, <3>2
  <2>2. CASE last = seqOf(x) BY <1>8, <2>2
  <2> QED BY <2>1, <2>2
<1> HIDE DEF a
<1>12. /\ last' = seqOf(x) /\ target' \in Nat /\ asked' \in Nat
       /\ taken' \in [1 .. Issues -> {"no", "once", "twice", "forgotten"}]
       /\ \A i \in 1 .. Issues : i # x => taken'[i] = taken[i]
       /\ (taken'[x] = "once" \/ taken'[x] = taken[x])
  <2> HIDE DEF x
  <2>1. x \in Nat BY <1>3
  <2>2. CASE /\ last' = seqOf(x) /\ target' = x /\ asked' = Nobody
             /\ taken' = [taken EXCEPT ![x] = "once"]
    BY <1>3, <1>9, <2>1, <2>2 DEF Nobody
  <2>3. CASE last = seqOf(x) /\ UNCHANGED <<last, target, asked, taken>> BY <1>9, <2>3
  <2> QED BY <1>11, <2>2, <2>3
<1>13. FlowTypes' /\ NoneTwice'
  <2>1. toZybo' \in Seq(Answer)
    <3>1. Append(toZybo, a) \in Seq(Answer) BY <1>2, <1>6
    <3> QED BY <1>1, <1>2, <3>1, FitFacts
  <2>2. FlowTypes' BY <1>1, <1>2, <1>4, <1>9, <1>12, <2>1 DEF FlowTypes
  <2>3. \A i \in 1 .. Issues : taken'[i] # "twice"
    <3> HIDE DEF x
    <3> QED BY <1>3, <1>12 DEF FlowInv, NoneTwice
  <2> QED BY <2>2, <2>3 DEF NoneTwice
<1> HIDE DEF x
<1>14. CASE x = issue
  <2>1. Known'
    <3>1. CASE taken'[issue] = "once" BY <1>5, <1>14, <3>1 DEF Known
    <3>2. CASE taken'[issue] = taken[issue] /\ last = seqOf(issue)
      <4>1. Known BY <1>7, <3>2 DEF FlowInv, Remembered
      <4> QED BY <3>2, <4>1 DEF Known
    <3> QED BY <1>3, <1>9, <1>11, <1>14, <3>1, <3>2
  <2>2. AckLine(toZybo, issue, TRUE) BY <1>5 DEF FlowInv, LinesInOrder, AckLine
  <2>3. /\ AckLine(toZybo', issue, TRUE)
        /\ OnlyAck(toZybo, issue) => OnlyAck(toZybo', issue)
    <3>1. issue \in Nat \ {0} /\ a[2] = seqOf(issue) BY <1>2, <1>5, <1>6, <1>14
    <3>2. (a[2] = seqOf(issue) /\ TRUE) \/ (a[2] = seqOf(issue - 1) /\ ~TRUE) BY <3>1
    <3> QED BY <1>1, <1>2, <1>6, <2>2, <3>1, <3>2, AckAppend
  <2>4. LinesInOrder'
    <3>1. Known' = TRUE BY <2>1 DEF Known
    <3>2. AckLine(toZybo', issue', Known') BY <2>3, <3>1
    <3>3. Settled' => OnlyAck(toZybo', issue') BY <2>3 DEF FlowInv, LinesInOrder, Settled
    <3> QED BY <1>4, <1>14, <3>2, <3>3 DEF LinesInOrder
  <2>5. Remembered'
    <3>1. \A i \in 1 .. Issues : i > issue => taken'[i] = "no"
      BY <1>2, <1>12, <1>14 DEF FlowInv, Remembered
    <3> QED BY <1>12, <1>14, <2>1, <3>1 DEF Remembered
  <2>6. Numbered' /\ SettledIsKnown' BY <2>1 DEF FlowInv, Numbered, SettledIsKnown
  <2> QED BY <1>13, <2>4, <2>5, <2>6 DEF FlowInv
<1>15. CASE x # issue
  <2>1. x = issue - 1 /\ issue > 1 BY <1>2, <1>3, <1>4, <1>15
  <2>2. ~Known BY <1>1, <1>2, <1>4, <1>15, HeadIsOnly DEF x
  <2>3. taken'[issue] = taken[issue] BY <1>5, <1>12, <1>15
  <2>4. ~Known' BY <2>2, <2>3 DEF Known
  <2>5. ~Settled BY <1>5, <2>2 DEF FlowInv, SettledIsKnown
  <2>6. AckLine(toZybo, issue, FALSE) BY <2>2 DEF FlowInv, LinesInOrder, AckLine
  <2>7. AckLine(toZybo', issue, FALSE)
    <3>1. issue \in Nat \ {0} /\ a[2] = seqOf(issue - 1) BY <1>2, <1>5, <1>6, <2>1
    <3>2. (a[2] = seqOf(issue) /\ FALSE) \/ (a[2] = seqOf(issue - 1) /\ ~FALSE) BY <3>1
    <3> QED BY <1>1, <1>2, <1>6, <2>6, <3>1, <3>2, AckAppend
  <2>8. LinesInOrder'
    <3>1. Known' = FALSE BY <2>4 DEF Known
    <3>2. AckLine(toZybo', issue', Known') BY <2>7, <3>1
    <3>3. ~Settled' BY <2>5 DEF Settled
    <3> QED BY <1>4, <2>4, <3>2, <3>3 DEF LinesInOrder
  <2>9. Remembered'
    <3>1. \A i \in 1 .. Issues : i > issue => taken'[i] = "no"
      BY <1>2, <1>3, <1>12, <2>1 DEF FlowInv, Remembered
    <3>2. last' = seqOf(issue - 1) /\ issue # 0 BY <1>12, <2>1
    <3> QED BY <2>4, <3>1, <3>2 DEF Remembered
  <2>10. Numbered' /\ SettledIsKnown'
    BY <2>5 DEF FlowInv, Numbered, SettledIsKnown, Settled
  <2> QED BY <1>13, <2>8, <2>9, <2>10 DEF FlowInv
<1> QED BY <1>14, <1>15

\* Switching the torque off forgets what was taken, on the arm's side.
LEMMA ForgetKeeps ==
  ASSUME FlowInv, NEW fault, torqueOffAll(fault), UNCHANGED <<zyboPc, sequence, issue>>
  PROVE  FlowInv'
<1>1. /\ last' = Unset /\ target' = Nobody /\ job' = Nobody /\ asked' = Nobody
      /\ UNCHANGED <<toOmx, toZybo>>
      /\ taken' = [i \in 1 .. Issues |-> IF taken[i] = "once" THEN "forgotten" ELSE taken[i]]
  BY DEF torqueOffAll
<1>2. taken \in [1 .. Issues -> {"no", "once", "twice", "forgotten"}] /\ issue \in 0 .. Issues
  BY DEF FlowInv, FlowTypes
<1>3. /\ taken' \in [1 .. Issues -> {"no", "once", "twice", "forgotten"}]
      /\ \A i \in 1 .. Issues : /\ taken'[i] = "no" <=> taken[i] = "no"
                                /\ taken'[i] = "twice" <=> taken[i] = "twice"
                                /\ taken'[i] # "once"
  BY <1>1, <1>2
<1>4. issue > 0 => issue \in 1 .. Issues BY <1>2
<1>5. Known' <=> Known BY <1>3, <1>4 DEF Known
<1>6. UNCHANGED Known BY <1>5, KnownBool DEF Known
<1>7. FlowTypes'
  <2>1. target' \in Nat /\ job' \in Nat /\ asked' \in Nat BY <1>1 DEF Nobody
  <2> QED BY <1>1, <1>3, <2>1 DEF FlowInv, FlowTypes
<1>8. LinesInOrder' BY <1>1, <1>6 DEF FlowInv, LinesInOrder, Settled
<1>9. Remembered'
  <2>1. \A i \in 1 .. Issues : i > issue => taken'[i] = "no"
    BY <1>3 DEF FlowInv, Remembered
  <2>2. issue > 0 => taken'[issue] # "once" BY <1>3, <1>4
  <2>3. issue > 1 => taken'[issue - 1] # "once"
    <3>1. issue > 1 => issue - 1 \in 1 .. Issues BY <1>2, OmxAssumption
    <3> QED BY <1>3, <3>1
  <2> QED BY <1>1, <2>1, <2>2, <2>3 DEF Remembered, Known
<1>10. Numbered' /\ SettledIsKnown' /\ NoneTwice'
  BY <1>3, <1>6 DEF FlowInv, Numbered, SettledIsKnown, Settled, NoneTwice
<1> QED BY <1>7, <1>8, <1>9, <1>10 DEF FlowInv

\* Asking for a fresh target puts requests on the line, no acknowledgement.
LEMMA AskKeeps ==
  ASSUME FlowInv, NEW i \in Nat, sendUartRetry(i),
         UNCHANGED <<toOmx, taken, last, zyboPc, sequence, issue>>,
         target' \in Nat, job' \in Nat, asked' \in Nat
  PROVE  FlowInv'
<1>1. PICK n \in Nat :
        toZybo' = Fit(toZybo \o <<<<"RETRY", seqOf(i)>>, <<"RETRY", seqOf(i)>>>>, n)
  <2>1. Answers \in Nat /\ Answers - 1 \in Nat BY OmxAssumption
  <2> QED BY <2>1 DEF sendUartRetry
<1>2. seqOf(i) \in Int BY SeqFacts, OmxAssumption
<1>3. toZybo \in Seq(Answer) /\ issue \in Nat BY DEF FlowInv, FlowTypes
<1>4. /\ toZybo' \in Seq(Answer)
      /\ AckLine(toZybo, issue, Known) => AckLine(toZybo', issue, Known)
      /\ OnlyAck(toZybo, issue) => OnlyAck(toZybo', issue)
  BY <1>1, <1>2, <1>3, KnownBool, RetryAppend
<1>5. UNCHANGED <<Known, Settled>> BY DEF Known, Settled
<1>6. FlowTypes' BY <1>4 DEF FlowInv, FlowTypes
<1>7. LinesInOrder' BY <1>4, <1>5 DEF FlowInv, LinesInOrder
<1>8. Remembered' BY <1>5 DEF FlowInv, Remembered
<1>9. Numbered' /\ SettledIsKnown' /\ NoneTwice'
  BY <1>5 DEF FlowInv, Numbered, SettledIsKnown, NoneTwice
<1> QED BY <1>6, <1>7, <1>8, <1>9 DEF FlowInv

\* What a step of the arm's own program does to lines and memories.
Quieted == /\ UNCHANGED <<toOmx, toZybo, taken, last>>
           /\ target' \in Nat /\ job' \in Nat /\ asked' \in Nat
Forgets == \E fault \in BOOLEAN : torqueOffAll(fault)
Requests == \E i \in Nat : /\ sendUartRetry(i) /\ UNCHANGED <<toOmx, taken, last>>
                           /\ target' \in Nat /\ job' \in Nat /\ asked' \in Nat

LEMMA CycleSteps == ASSUME FlowTypes, Cycle PROVE Quieted \/ Requests
<1> USE DEF FlowTypes, Same
<1>1. CASE failCycle
  BY <1>1 DEF Cycle, failCycle, Quiet, Quieted, Nobody
<1>2. CASE \E pc \in Motions : MoveOn(pc)
  BY <1>2 DEF Cycle, MoveOn, Quiet, Quieted
<1>3. CASE Release /\ ~failCycle /\ ~MoveOn("return")
  BY <1>3 DEF Cycle, Release, Quiet, Quieted
<1>4. CASE cycleDone
  <2>1. UNCHANGED <<last, target, toOmx, taken>> BY DEF Cycle
  <2>2. job' = Nobody BY <1>4 DEF cycleDone
  <2>3. CASE job # Nobody /\ flags.request
    BY <1>4, <2>1, <2>2, <2>3 DEF cycleDone, Requests, Nobody
  <2>4. CASE ~(job # Nobody /\ flags.request)
    BY <1>4, <2>1, <2>2, <2>4 DEF cycleDone, Quiet, Quieted, Nobody
  <2> QED BY <2>3, <2>4
<1> QED BY <1>1, <1>2, <1>3, <1>4
        DEF Cycle, Pick, Grasp, Carry, Release, ReleaseAgain, GoHome, Motions

LEMMA LoopSteps == ASSUME FlowTypes, OmxLoop PROVE Quieted \/ Requests \/ Forgets
<1> USE DEF FlowTypes, Same
<1>1. CASE Parsed \/ RetryNotDue
  BY <1>1 DEF Parsed, RetryNotDue, Quiet, Quieted
<1>2. CASE Begin
  BY <1>2 DEF Begin, Quiet, Quieted, Nobody
<1>3. CASE Retry
  <2>1. UNCHANGED <<job, asked, last, target, toOmx, taken>> BY <1>3 DEF Retry, Repeat
  <2>2. CASE Asks BY <1>3, <2>1, <2>2 DEF Retry, Repeat, Requests
  <2>3. CASE ~Asks BY <1>3, <2>1, <2>3 DEF Retry, Repeat, Quieted
  <2> QED BY <2>2, <2>3
<1>4. CASE Console
  <2>1. CASE \E f \in BOOLEAN : torqueOffAll(f) BY <2>1 DEF Forgets
  <2>2. CASE torqueOffAll(flags.fault)
    <3>1. torqueOffAll(flags.fault = TRUE)
      BY <2>2 DEF torqueOffAll
    <3> QED BY <3>1 DEF Forgets
  <2>3. CASE ~torqueOffAll(flags.fault)
    BY <1>4, <2>3 DEF Console, Quiet, Quieted, Nobody
  <2> QED BY <2>2, <2>3
<1> QED BY <1>1, <1>2, <1>3, <1>4 DEF OmxLoop

LEMMA ArmKeeps ==
  ASSUME FlowInv, OmxNext, UNCHANGED <<zyboPc, sequence, issue>> PROVE FlowInv'
<1>1. CASE TakeTarget BY <1>1, TakeKeeps
<1>2. CASE OmxLoop \/ Cycle
  <2>1. FlowTypes BY DEF FlowInv
  <2>2. CASE Quieted
    <3>1. Numbered' /\ (Settled' => Settled)
          /\ zyboPc' \in {"idle", "send", "ack", "work", "gone"}
      BY DEF FlowInv, Numbered, Settled, FlowTypes
    <3> QED BY <2>2, <3>1, SameInv DEF Quieted
  <2>3. CASE Requests BY <2>3, AskKeeps DEF Requests
  <2>4. CASE Forgets BY <2>4, ForgetKeeps DEF Forgets
  <2> QED BY <1>2, <2>1, <2>2, <2>3, <2>4, CycleSteps, LoopSteps
<1>3. CASE ManualEnds
  <2>1. Quieted BY <1>3 DEF ManualEnds, Same, Quiet, Quieted, FlowInv, FlowTypes
  <2>2. Numbered' /\ (Settled' => Settled)
        /\ zyboPc' \in {"idle", "send", "ack", "work", "gone"}
    BY DEF FlowInv, Numbered, Settled, FlowTypes
  <2> QED BY <2>1, <2>2, SameInv DEF Quieted
<1>4. CASE Emergency BY <1>4, ForgetKeeps DEF Emergency
<1> QED BY <1>1, <1>2, <1>3, <1>4 DEF OmxNext, OmxMotion

LEMMA LoseTargetKeeps == ASSUME FlowInv, LoseTarget PROVE FlowInv'
<1>1. /\ toOmx # <<>> /\ toOmx' = Tail(toOmx)
      /\ UNCHANGED <<last, target, job, asked, taken, toZybo, zyboPc, sequence, issue>>
  BY DEF LoseTarget, outside
<1>2. toOmx \in Seq(1 .. Issues) /\ issue \in Nat BY DEF FlowInv, FlowTypes
<1>3. /\ toOmx' \in Seq(1 .. Issues)
      /\ TargetLine(toOmx, issue) => TargetLine(toOmx', issue)
      /\ OnlyTarget(toOmx, issue) => OnlyTarget(toOmx', issue)
  BY <1>1, <1>2, TargetTail
<1>4. UNCHANGED <<Known, Settled>> BY <1>1 DEF Known, Settled
<1>5. FlowTypes' BY <1>1, <1>3 DEF FlowInv, FlowTypes
<1>6. LinesInOrder' BY <1>1, <1>3, <1>4 DEF FlowInv, LinesInOrder
<1>7. Remembered' BY <1>1, <1>4 DEF FlowInv, Remembered
<1>8. Numbered' /\ SettledIsKnown' /\ NoneTwice'
  BY <1>1, <1>4 DEF FlowInv, Numbered, SettledIsKnown, NoneTwice
<1> QED BY <1>5, <1>6, <1>7, <1>8 DEF FlowInv

LEMMA FlowNextInv == FlowInv /\ [FlowNext]_flowVars => FlowInv'
<1> SUFFICES ASSUME FlowInv, [FlowNext]_flowVars PROVE FlowInv' OBVIOUS
<1>1. CASE Zybo \/ LoseAnswer BY <1>1, ZyboKeeps
<1>2. CASE Arm BY <1>2, ArmKeeps DEF Arm
<1>3. CASE LoseTarget BY <1>3, LoseTargetKeeps
<1>4. CASE UNCHANGED flowVars
  <2>1. UNCHANGED <<toOmx, toZybo, taken, last, issue, target, job, asked, zyboPc, sequence>>
    BY <1>4 DEF flowVars, omxVars
  <2>2. Numbered' /\ (Settled' => Settled) /\ zyboPc' \in {"idle", "send", "ack", "work", "gone"}
        /\ target' \in Nat /\ job' \in Nat /\ asked' \in Nat
    BY <2>1 DEF FlowInv, Numbered, Settled, FlowTypes
  <2> QED BY <2>1, <2>2, SameInv
<1> QED BY <1>1, <1>2, <1>3, <1>4 DEF FlowNext

\* Types, and what each side of the flow can know of the other.
THEOREM FlowInvHolds == FlowSpec => []FlowInv
  BY FlowInitInv, FlowNextInv, PTL DEF FlowSpec

\* Sequence numbers modulo any SeqMod > 1 suffice: an acknowledged target was taken,
\* and none twice (main.cc, omx_ik_area_test.ino).
THEOREM TakenOnceHolds == FlowSpec => []TakenOnce
<1>1. FlowInv => TakenOnce
  BY DEF FlowInv, SettledIsKnown, Numbered, NoneTwice, Known, Settled, TakenOnce
<1> QED BY <1>1, FlowInvHolds, PTL
==============================================================================

------------------------------ MODULE MotorLink ------------------------------
(* The shuttle computer's side of the motor link (fpga_serial.c, fpga_link.c): *)
(* the main thread sets speeds and closes the link, the send thread turns the  *)
(* speeds into pulses and writes one command per period, and the board of      *)
(* MotorBoard reads them from a line that may lose bytes.                       *)
EXTENDS MotorBoard

CONSTANTS Commands,     \* the <<left, right>> speeds the program asks for
          MaxSpeed,     \* controller_max_speed
          Deadzone, PwmCap,
          DefaultPulse, \* the pulse parameters of fpga_link_init
          DrivePulse,   \* those of set_pulse_params in robot_navigate.c
          LineCap,      \* bound: symbols on the wire
          MaxLoss       \* bound: symbols the line loses while one packet is received

ASSUME CommandsAssumption ==
  Commands \subseteq (-MaxSpeed..MaxSpeed) \X (-MaxSpeed..MaxSpeed)
ASSUME PwmAssumption == /\ Deadzone \in Nat \ {0} /\ PwmCap \in Nat
                        /\ MaxSpeed \in Nat \ {0} /\ Deadzone <= PwmCap
ASSUME PulseAssumption ==
  {DefaultPulse, DrivePulse} \subseteq
     [min : Int, kick : Int, burst : Nat \ {0}, kicks : Nat]
ASSUME LossAssumption == MaxLoss \in Nat /\ MaxLoss < PacketLen

VARIABLES current,      \* side -> speed asked for
          pulse,        \* [min, kick, burst, kicks]
          wheel,        \* side -> [acc, rem, pos] of the pulse generator
          running,      \* the flag both threads poll
          main,         \* where the main thread is
          sender,       \* where the send thread is
          out,          \* the pulses computed and not yet written
          lastId,       \* packets written, modulo 3
          lost,         \* symbols lost since the header of the packet being received
          cleanStop,    \* the program zeroed the speeds before closing
          turning       \* the sides that the last packet written turns (a ghost)

hostVars == <<current, pulse, wheel, running, main, sender, out, lastId, lost,
              cleanStop, turning>>
vars == <<boardVars, hostVars>>

Abs(n) == IF n < 0 THEN -n ELSE n
Sign(n) == IF n < 0 THEN -1 ELSE 1

\* speed_to_pwm: 0 stays 0, anything else is lifted over the dead zone and kept
\* below the cap.
Lifted(speed) ==
  Deadzone + (2 * Abs(speed) * (PwmCap - Deadzone) + MaxSpeed) \div (2 * MaxSpeed)
SpeedToPwm(speed) ==
  IF speed = 0 THEN 0
  ELSE Sign(speed) * (IF Lifted(speed) > PwmCap THEN PwmCap ELSE Lifted(speed))

Idle == [acc |-> 0, rem |-> 0, pos |-> 0]

\* Only pos <= kicks is ever asked, so pos is counted no further than that.
Advance(pos) == IF pos > pulse.kicks THEN pos ELSE pos + 1
Kicked(level, pos) == IF pos <= pulse.kicks /\ pulse.kick > level THEN pulse.kick ELSE level

\* fpga_link__pulse_speed: <<speed to send, state of the pulse generator>>.
Pulsed(level, w, desired) ==
  LET pos == Advance(w.pos)
  IN <<Sign(desired) * Kicked(level, pos), [w EXCEPT !.pos = pos]>>

\* Mutant: the accumulator is set, not increased.
PulseSpeedForgets(desired, w) ==
  IF desired = 0 THEN <<0, Idle>>
  ELSE IF pulse.min <= 0 \/ Abs(desired) >= pulse.min THEN Pulsed(Abs(desired), w, desired)
  ELSE <<0, [w EXCEPT !.acc = Abs(desired), !.pos = 0]>>

PulseSpeed(desired, w) ==
  LET a    == Abs(desired)
      full == pulse.min * pulse.burst
      acc  == w.acc + a
  IN CASE desired = 0 -> <<0, Idle>>
       [] desired # 0 /\ (pulse.min <= 0 \/ a >= pulse.min) -> Pulsed(a, w, desired)
       [] desired # 0 /\ a < pulse.min /\ w.rem > 0 ->
            Pulsed(pulse.min, [w EXCEPT !.rem = @ - 1], desired)
       [] desired # 0 /\ a < pulse.min /\ w.rem = 0 /\ acc >= full ->
            Pulsed(pulse.min, [w EXCEPT !.acc = acc - full, !.rem = pulse.burst - 1], desired)
       [] OTHER -> <<0, [w EXCEPT !.acc = acc, !.pos = 0]>>

Init == /\ BoardInit
        /\ current = [s \in Sides |-> 0]
        /\ pulse = DefaultPulse
        /\ wheel = [s \in Sides |-> Idle]
        /\ running = TRUE /\ main = "run" /\ sender = "poll"
        /\ out = [s \in Sides |-> 0]
        /\ lastId = 0 /\ lost = 0 /\ cleanStop = FALSE
        /\ turning = {}

\* fpga_link_set_speed, from any of the driving routines.
SetSpeed ==
  /\ main = "run"
  /\ \E c \in Commands : current' = [s \in Sides |-> IF s = "l" THEN c[1] ELSE c[2]]
  /\ UNCHANGED <<boardVars, pulse, wheel, running, main, sender, out, lastId, lost,
                 cleanStop, turning>>

\* fpga_link_set_pulse_params: the generator of both wheels starts over.
SetPulseParams ==
  /\ main = "run" /\ pulse # DrivePulse
  /\ pulse' = DrivePulse
  /\ wheel' = [s \in Sides |-> Idle]
  /\ UNCHANGED <<boardVars, current, running, main, sender, out, lastId, lost,
                 cleanStop, turning>>

\* Mutant: the speeds are left as they are.
CleanUpSleepsOnly ==
  /\ main = "run"
  /\ main' = "draining"
  /\ UNCHANGED <<boardVars, current, pulse, wheel, running, sender, out, lastId, lost,
                 cleanStop, turning>>

\* The end of run_shuttle: speeds to zero, then 100 ms of sleep in which the
\* send thread gets through at least one whole period ("draining").
CleanUp ==
  /\ main = "run"
  /\ main' = "draining"
  /\ current' = [s \in Sides |-> 0]
  /\ UNCHANGED <<boardVars, pulse, wheel, running, sender, out, lastId, lost,
                 cleanStop, turning>>

Write(pwm) ==
  /\ Len(line) + PacketLen <= LineCap
  /\ line' = line \o Packet(pwm, (lastId + 1) % 3)
  /\ lastId' = (lastId + 1) % 3
  /\ turning' = {s \in Sides : pwm[s] # 0}

\* fpga_link_stop, first half: the stop command goes out while the send thread
\* is still running. A failed start reaches it without zeroing the speeds.
StopWrite ==
  /\ main \in {"run", "drained"}
  /\ main' = "stopping"
  /\ cleanStop' = (main = "drained")
  /\ Write([s \in Sides |-> 0])
  /\ UNCHANGED <<buffer, duty, torn, timer, watchdog_brake, sw, current, pulse, wheel,
                 running, sender, out, lost>>

\* Mutant: the flag is left alone.
ClearRunningForgets ==
  /\ main = "stopping"
  /\ main' = "joining"
  /\ UNCHANGED <<boardVars, running, current, pulse, wheel, sender, out, lastId, lost,
                 cleanStop, turning>>

\* Second half: the flag, then the join.
ClearRunning ==
  /\ main = "stopping"
  /\ running' = FALSE /\ main' = "joining"
  /\ UNCHANGED <<boardVars, current, pulse, wheel, sender, out, lastId, lost,
                 cleanStop, turning>>

Join ==
  /\ main = "joining" /\ sender = "exited"
  /\ main' = "closed"
  /\ UNCHANGED <<boardVars, current, pulse, wheel, running, sender, out, lastId, lost,
                 cleanStop, turning>>

\* The process is killed: no stop command, no threads, nothing left of its memory.
Kill ==
  /\ main \notin {"closed", "dead"}
  /\ main' = "dead" /\ sender' = "exited" /\ running' = FALSE
  /\ current' = [s \in Sides |-> 0] /\ out' = [s \in Sides |-> 0]
  /\ wheel' = [s \in Sides |-> Idle] /\ pulse' = DefaultPulse
  /\ cleanStop' = FALSE /\ turning' = {}
  /\ UNCHANGED <<boardVars, lastId, lost>>

\* One turn of the send loop up to the unlock: the pulses of both wheels.
Compute ==
  /\ sender = "poll" /\ running
  /\ sender' = "write"
  /\ out' = [s \in Sides |-> SpeedToPwm(PulseSpeed(current[s], wheel[s])[1])]
  /\ wheel' = [s \in Sides |-> PulseSpeed(current[s], wheel[s])[2]]
  /\ main' = IF main = "draining" THEN "drainWrite" ELSE main
  /\ UNCHANGED <<boardVars, current, pulse, running, lastId, lost, cleanStop, turning>>

\* The write and the sleep that follow the unlock.
SendWrite ==
  /\ sender = "write"
  /\ sender' = "poll"
  /\ Write(out)
  /\ out' = [s \in Sides |-> 0]
  /\ main' = IF main = "drainWrite" THEN "drained" ELSE main
  /\ UNCHANGED <<buffer, duty, torn, timer, watchdog_brake, sw, current, pulse, wheel,
                 running, lost, cleanStop>>

SenderExit ==
  /\ sender = "poll" /\ ~running
  /\ sender' = "exited"
  /\ UNCHANGED <<boardVars, current, pulse, wheel, running, main, out, lastId, lost,
                 cleanStop, turning>>

\* Between two packets any number of symbols may be lost; what is bounded is how many
\* are lost inside one.
LoseByte ==
  /\ line # <<>> /\ line' = Tail(line)
  /\ IF buffer = <<>> THEN lost' = lost ELSE lost < MaxLoss /\ lost' = lost + 1
  /\ UNCHANGED <<buffer, duty, torn, timer, watchdog_brake, sw, current, pulse, wheel,
                 running, main, sender, out, lastId, cleanStop, turning>>

Receive ==
  /\ RxByte /\ lost' = IF buffer' = <<>> THEN 0 ELSE lost
  /\ UNCHANGED <<current, pulse, wheel, running, main, sender, out, lastId, cleanStop, turning>>

Send == Compute \/ SendWrite \/ SenderExit
MainThread == SetSpeed \/ SetPulseParams \/ CleanUp \/ StopWrite \/ ClearRunning \/ Join
Board == WatchdogTick \/ SwitchMode

Next == \/ MainThread \/ Kill \/ Send \/ LoseByte \/ Receive
        \/ Board /\ UNCHANGED hostVars

\* The operating system schedules the threads, the wire delivers and the clock
\* of the board runs on; nothing else has to happen.
Fairness == /\ WF_vars(Compute) /\ WF_vars(SendWrite) /\ WF_vars(SenderExit)
            /\ WF_vars(ClearRunning) /\ WF_vars(Join)
            /\ WF_vars(Receive)
            /\ WF_vars(WatchdogTick /\ UNCHANGED hostVars)

Spec == Init /\ [][Next]_vars /\ Fairness

----------------------------------------------------------------------------
PulseState == [acc : Nat, rem : Nat, pos : Nat]
Symbols == {Header, Blank, LineEnd} \cup [kind : {"pwm"}, pwm : Int, id : 0..2]

TypeOK ==
  /\ line \in Seq(Symbols) /\ buffer \in Seq(Symbols) /\ Len(buffer) < PacketLen
  /\ duty \in [Sides -> Int] /\ torn \in BOOLEAN
  /\ timer \in 0..TimerMax /\ watchdog_brake \in BOOLEAN
  /\ sw \in {"auto", "drive", "brake"}
  /\ current \in [Sides -> -MaxSpeed..MaxSpeed] /\ pulse \in {DefaultPulse, DrivePulse}
  /\ wheel \in [Sides -> PulseState]
  /\ running \in BOOLEAN /\ sender \in {"poll", "write", "exited"}
  /\ main \in {"run", "draining", "drainWrite", "drained", "stopping", "joining",
               "closed", "dead"}
  /\ out \in [Sides -> Int] /\ turning \subseteq Sides
  /\ lastId \in 0..2 /\ lost \in 0..MaxLoss /\ cleanStop \in BOOLEAN

\* The left and the right speed the board executes were sent in one command, as long
\* as fewer symbols are lost between a header the receiver takes and the end of what
\* it takes for that packet than a packet has: the receiver has no timeout and no
\* checksum, only the separators, and a whole packet's worth of lost symbols would
\* join the first half of one command to the second half of another (cmd_rx.sv).
NoTornCommand == ~torn

\* When the program has zeroed the speeds before it closes the link, nothing it
\* writes afterwards drives a wheel, even if the zero came in the middle of a
\* burst and even though the stop command is written before the send thread ends.
QuietAfterCleanStop ==
  cleanStop => turning = {}

\* fpga_link_stop ends the drive for good: also when the send thread overwrites
\* the stop command with the last speed, or the process dies, the wheels stand
\* still from some moment on (unless somebody uses the hand-test switches).
StopsForGood ==
  main \in {"stopping", "dead"} ~> [](Driven => sw # "auto")

\* No speed starves: a wheel that is asked to turn, however slowly, is pulsed
\* again and again as long as the request stands and the link is open.
NoStarvation ==
  \A s \in Sides :
    <>[](main = "run" /\ current[s] # 0 /\ pulse = DefaultPulse)
      => []<>(s \in turning)

\* The board is a dead-man switch, whatever the computer and the line do.
Guard == INSTANCE DeadMan WITH
           Limit <- TimerMax, age <- timer, expired <- watchdog_brake,
           driven <- Driven, manual <- (sw # "auto")
DeadManSwitch == Guard!DSpec
=============================================================================

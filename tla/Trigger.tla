------------------------------- MODULE Trigger -------------------------------
(* What starts the shuttle at a stop (trigger.c).  The load sensors: some     *)
(* lines that are lit while a box lies on them, polled until the box has come *)
(* (at A) or gone (at B) and the state has held for a while.  And the Enter   *)
(* key, beside the sensors or instead of them.                                *)
EXTENDS Naturals

CONSTANTS Lines,        \* sensors of a stop
          Debounce,     \* equal polls after the first one before a state counts
          Glitches      \* most polls in a row that may read wrong

ASSUME TriggerAssumption ==
  Lines \in Nat \ {0} /\ Debounce \in Nat /\ Glitches \in Nat /\ Glitches <= Debounce

VARIABLES type,         \* "sensors", with the key as an override, or "keyboard"
          load,         \* a box lies on the sensors of this stop
          glitches,     \* polls in a row that read wrong
          poll,         \* the waiting: see Open
          typed         \* a newline on stdin: "none", "old" (typed before the wait), "new"

sensorVars == <<load, glitches, poll>>
triggerVars == <<type, sensorVars, typed>>

\* trigger__present_from_count: at A any line means a box, at B more than half of
\* the lines that were lit when the car arrived.
present(on, baseline, want) == IF want THEN on >= 1 ELSE on > baseline \div 2

\* A poll reads the lines as they are, or, not too often in a row, anything.
Lit == IF load THEN Lines ELSE 0
Reads(on) ==
  \/ on = Lit /\ glitches' = 0
  \/ on # Lit /\ glitches < Glitches /\ glitches' = glitches + 1

\* People put the box on and take it off.
MoveBox == load' = ~load /\ UNCHANGED <<type, glitches, poll, typed>>

\* The lines of the chip can be had or not.
trigger_gpio_open == BOOLEAN

\* A key stays on stdin until it is read or drained, an old one before a new one.
Press(when) ==
  typed' = (IF typed = "none" THEN when ELSE typed) /\ UNCHANGED <<type, sensorVars>>
drain_stale_input == typed' = "none"
enter_pressed_now == typed # "none"

\* trigger_wait up to its loop: the first poll gives the baseline and tells
\* whether the other state has been seen yet.  true: some poll of the stable
\* state agreed with the box.
Open(want) ==
  \E on \in 0 .. Lines :
    LET v == present(on, on, want)
    IN /\ Reads(on)
       /\ poll' = [want |-> want, baseline |-> on, value |-> v, held |-> 0,
                   seen |-> v # want, true |-> v = load]
       /\ UNCHANGED load
\* The same for the keyboard alone.
OpenKeyboard == UNCHANGED sensorVars

\* Mutant: a change of the value does not start the count again.
HeldWithoutReset(v) == IF poll.held < Debounce THEN poll.held + 1 ELSE Debounce

Held(v) == IF v # poll.value THEN 0
           ELSE IF poll.held < Debounce THEN poll.held + 1 ELSE Debounce

\* One pass of the loop.  Fired: the wanted state has held, after the other one.
Poll ==
  \E on \in 0 .. Lines :
    LET v == present(on, poll.baseline, poll.want)
        held == Held(v)
    IN /\ Reads(on) /\ UNCHANGED load
       /\ poll' = [poll EXCEPT
            !.value = v, !.held = held,
            !.seen = @ \/ (held = Debounce /\ v # poll.want),
            !.true = (v = poll.value /\ @) \/ v = load]
Fired == poll.held = Debounce /\ poll.value = poll.want /\ poll.seen

\* trigger_poll_now, once, without a baseline.
poll_now(on, want) == IF want THEN on >= 1 ELSE on = 0

TriggerTypes ==
  /\ type \in {"sensors", "keyboard"} /\ typed \in {"none", "old", "new"}
  /\ load \in BOOLEAN /\ glitches \in 0 .. Glitches
  /\ poll \in [want : BOOLEAN, baseline : 0 .. Lines, value : BOOLEAN, held : 0 .. Debounce,
               seen : BOOLEAN, true : BOOLEAN]
TriggerInit ==
  /\ type \in {"sensors", "keyboard"} /\ typed = "none"
  /\ load \in BOOLEAN /\ glitches = 0
  /\ poll = [want |-> TRUE, baseline |-> 0, value |-> FALSE, held |-> 0, seen |-> FALSE,
             true |-> FALSE]
=============================================================================

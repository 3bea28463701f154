----------------------------- MODULE TimerIdeal -----------------------------
(***************************************************************************)
(* What a hardware timer promises (the fields of struct Timer in           *)
(* src/memory/timers.rs): a counter that advances once per period of its   *)
(* clock, one CPU cycle after the other, wraps at its width or after the   *)
(* target, and remembers that it reached either.                           *)
(***************************************************************************)
EXTENDS Integers

CONSTANTS
  Wrap,    \* number of values of the counter
  Frac,    \* fractions of a CPU cycle in which periods are counted
  Clocks,  \* the clock sources
  ClockSettings(_), \* the <<period, phase>> at which a clock may start
  Ticks    \* numbers of cycles an instruction may take

VARIABLES
  core,    \* the counter, the position in the period and the two flags
  conf     \* target, target_wrap, target_irq, the clock and its period

vars == <<core, conf>>

Values == 0 .. Wrap - 1

\* One CPU cycle; a period is never shorter
Cycle(s, c) ==
  LET hit  == s.counter = c.target
      over == s.counter = Wrap - 1
  IN IF s.phase + Frac < c.period
       THEN [s EXCEPT !.phase = @ + Frac]
       ELSE [counter |-> IF over \/ (hit /\ c.target_wrap) THEN 0
                         ELSE s.counter + 1,
             phase |-> s.phase + Frac - c.period,
             target_reached |-> s.target_reached \/ hit,
             overflow_reached |-> s.overflow_reached \/ over]

\* n CPU cycles, one after the other
After(n, s, c) ==
  LET state[k \in 0 .. n] == IF k = 0 THEN s ELSE Cycle(state[k - 1], c)
  IN state[n]

NewCore == [counter |-> 0, phase |-> 0, target_reached |-> FALSE,
            overflow_reached |-> FALSE]
NewConf == [target |-> 0, target_wrap |-> FALSE, target_irq |-> FALSE,
            clock |-> "SysClock", period |-> Frac]

Init == core = NewCore /\ conf = NewConf

Run(n) == core' = After(n, core, conf) /\ UNCHANGED conf

\* A write of a register, or a change of the video timings, restarts the clock
Restart(c, counter) ==
  \E s \in ClockSettings(c.clock) :
    /\ core' = [core EXCEPT !.counter = counter, !.phase = s[2]]
    /\ conf' = [c EXCEPT !.period = s[1]]

SetCounter(v) == Restart(conf, v)
SetTarget(v) == Restart([conf EXCEPT !.target = v], core.counter)
SetMode(wrap, irq, clk) ==
  Restart([conf EXCEPT !.target_wrap = wrap, !.target_irq = irq,
                       !.clock = clk], 0)
VideoTimingsChanged == Restart(conf, core.counter)

\* A read of the mode register resets the flags
ReadMode ==
  /\ core' = [core EXCEPT !.target_reached = FALSE, !.overflow_reached = FALSE]
  /\ UNCHANGED conf

Next == \/ \E n \in Ticks : Run(n)
        \/ \E v \in Values : SetCounter(v) \/ SetTarget(v)
        \/ \E w, i \in BOOLEAN, c \in Clocks : SetMode(w, i, c)
        \/ VideoTimingsChanged \/ ReadMode

Spec == Init /\ [][Next]_vars
=============================================================================

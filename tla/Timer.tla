------------------------------- MODULE Timer -------------------------------
(***************************************************************************)
(* A timer of src/memory/timers.rs as the emulator runs it: synchronised   *)
(* lazily and brought forward over all the elapsed cycles at once.         *)
(*                                                                         *)
(* Every operation is given the number e of CPU cycles that have elapsed   *)
(* since the last synchronisation (TimeKeeper::sync) and leaves the        *)
(* prediction, in cycles, to the time sheet of the timer.  Periods and     *)
(* phases are in 1/Frac CPU cycles (FracCycles).  `istat' is the timer's   *)
(* bit in the interrupt controller; the copy the mode register shows of    *)
(* the last pulse, which nothing else reads, is left out.                  *)
(***************************************************************************)
EXTENDS Integers

CONSTANTS
  Wrap,     \* number of values of the counter, 0x10000
  Frac,     \* 1 << FracCycles::frac_bits()
  Divider,  \* the divider of the divided clock, 8
  HSyncs,   \* <<period, phase>> of the GPU's HSync signal
  Never     \* Cycles::max_value()

VARIABLES counter, target, target_wrap, target_irq, clock, period, phase,
          target_reached, overflow_reached, istat

conf == <<target, target_wrap, target_irq, clock, period>>

Values == 0 .. Wrap - 1

\* The dotclock makes reconfigure panic: a program does not select it
Clocks == {"SysClock", "SysClockDiv8", "GpuHSync"}

\* The periods and phases reconfigure can give a clock
ClockSettings(c) ==
  CASE c = "SysClock" -> {<<Frac, 0>>}
    [] c = "SysClockDiv8" -> {<<Divider * Frac, 0>>}
    [] c = "GpuHSync" -> HSyncs

\* The type invariant; the phase stays within a period, so the subtraction in
\* predict_next_sync does not underflow.
TypeOK ==
  /\ counter \in Values /\ target \in Values
  /\ target_wrap \in BOOLEAN /\ target_irq \in BOOLEAN /\ clock \in Clocks
  /\ period \in Nat \ {0} /\ phase \in 0 .. period - 1
  /\ target_reached \in BOOLEAN /\ overflow_reached \in BOOLEAN
  /\ istat \in BOOLEAN

\* Timer::new
Init ==
  /\ counter = 0 /\ target = 0 /\ target_wrap = FALSE /\ target_irq = FALSE
  /\ clock = "SysClock" /\ period = Frac /\ phase = 0
  /\ target_reached = FALSE /\ overflow_reached = FALSE
  /\ istat = FALSE

----------------------------------------------------------------------------
\* The state Timer::sync computes, before the prediction.

Elapsed(e) == e * Frac + phase
Count(e) == counter + Elapsed(e) \div period

TargetPassed(e) == counter <= target /\ Count(e) > target

\* Mutant: off by one when the counter is reset at the target
WrapAtTarget == IF target_wrap /\ target > 0 THEN target ELSE Wrap

WrapValue == IF target_wrap THEN target + 1 ELSE Wrap

Overflow(e) == Count(e) >= WrapValue /\ WrapValue = Wrap

\* wrap_irq is refused by set_mode: only the target raises an interrupt
Raised(e) == target_irq /\ TargetPassed(e)

Now == [counter |-> counter, phase |-> phase, target_reached |-> target_reached,
        overflow_reached |-> overflow_reached]

\* Timer::sync returns early when no cycle has elapsed
Synced(e) ==
  IF e = 0 THEN Now
  ELSE [counter |-> IF Count(e) >= WrapValue THEN Count(e) % WrapValue
                    ELSE Count(e),
        phase |-> Elapsed(e) % period,
        target_reached |-> target_reached \/ TargetPassed(e),
        overflow_reached |-> overflow_reached \/ Overflow(e)]

\* Mutant: the rest of the current period is not taken off
PredictWholePeriods(cnt, tgt, irq, per, ph) ==
  IF ~irq THEN Never
  ELSE (per * (IF cnt <= tgt THEN tgt - cnt + 1 ELSE Wrap) + Frac - 1) \div Frac

\* predict_next_sync: cycles until the next synchronisation, rounded up
Predict(cnt, tgt, irq, per, ph) ==
  LET countdown == IF cnt <= tgt THEN tgt - cnt ELSE Wrap - 1 - cnt + tgt
  IN IF ~irq THEN Never
     ELSE (per * (countdown + 1) - ph + Frac - 1) \div Frac

\* What Timer::sync does to the interrupt
SyncIrq(e) == istat' = (istat \/ (e > 0 /\ Raised(e)))

----------------------------------------------------------------------------
\* The operations

\* Timer::sync, by the CPU when the date has come or by a load of a register
\* that changes nothing else
Sync(e) ==
  /\ counter' = Synced(e).counter /\ phase' = Synced(e).phase
  /\ target_reached' = Synced(e).target_reached
  /\ overflow_reached' = Synced(e).overflow_reached
  /\ SyncIrq(e)
  /\ UNCHANGED conf

\* Reading the mode register resets the flags
ReadMode(e) ==
  /\ counter' = Synced(e).counter /\ phase' = Synced(e).phase
  /\ target_reached' = FALSE /\ overflow_reached' = FALSE
  /\ SyncIrq(e)
  /\ UNCHANGED conf

\* The end of Timers::store: the clock decides the period and the phase
Reconfigure(e) ==
  /\ \E s \in ClockSettings(clock') : period' = s[1] /\ phase' = s[2]
  /\ target_reached' = Synced(e).target_reached
  /\ overflow_reached' = Synced(e).overflow_reached

SetCounter(e, v) ==
  /\ SyncIrq(e)
  /\ counter' = v /\ UNCHANGED <<target, target_wrap, target_irq, clock>>
  /\ Reconfigure(e)

SetTarget(e, v) ==
  /\ SyncIrq(e)
  /\ counter' = Synced(e).counter
  /\ target' = v /\ UNCHANGED <<target_wrap, target_irq, clock>>
  /\ Reconfigure(e)

\* Modes set_mode does not refuse
SetMode(e, wrap, irq, c) ==
  /\ SyncIrq(e)
  /\ counter' = 0
  /\ target_wrap' = wrap /\ target_irq' = irq /\ clock' = c
  /\ UNCHANGED target
  /\ Reconfigure(e)

\* Called by the GPU after a store that changes its timings
video_timings_changed(e) ==
  /\ clock = "GpuHSync"
  /\ SyncIrq(e)
  /\ counter' = Synced(e).counter
  /\ UNCHANGED <<target, target_wrap, target_irq, clock>>
  /\ Reconfigure(e)

\* The program acknowledges the interrupt in the interrupt controller
Ack ==
  /\ istat /\ istat' = FALSE
  /\ UNCHANGED <<counter, conf, phase, target_reached, overflow_reached>>
=============================================================================

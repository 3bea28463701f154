------------------------------- MODULE System -------------------------------
(***************************************************************************)
(* The CPU's main loop, the TimeKeeper, a timer, the GPU it takes its      *)
(* clock from and its bit of the interrupt controller, together: an        *)
(* instruction ticks and accesses the peripherals, run_next_instruction    *)
(* synchronises those whose date has come, and the timer, brought forward  *)
(* over all the cycles at once, raises its interrupt and asks for its next *)
(* date.  TimeKeeper gives the steps of the loop, Timer what the timer     *)
(* does in them; the GPU asks for the dates it likes.                      *)
(*                                                                         *)
(* `owed' remembers that the target was passed, with its interrupt on,     *)
(* since the program last acknowledged the interrupt.  `tame' tells the    *)
(* programs that keep the counter at or below the target from the others:  *)
(* their first instruction makes the counter wrap at the target.           *)
(***************************************************************************)
EXTENDS TimeKeeper

CONSTANTS Wrap, Frac, Divider, HSyncs,
          GpuDeltas  \* delays the GPU asks for

VARIABLES counter, target, target_wrap, target_irq, clock, period, phase,
          target_reached, overflow_reached, istat, owed, tame

T == INSTANCE Timer

\* What the timer needs of the GPU: HSync is not faster than the CPU and its
\* phase is within a period
ASSUME SystemAssumption ==
  /\ Peripherals = {"timer", "gpu"} /\ GpuDeltas \subseteq Deltas
  /\ Wrap \in Nat \ {0} /\ Frac \in Nat \ {0} /\ Divider \in Nat \ {0}
  /\ 0 \notin Ticks
  /\ \A s \in HSyncs : s[1] \in Nat /\ s[1] >= Frac /\ s[2] \in 0 .. s[1] - 1

timer == <<counter, target, target_wrap, target_irq, clock, period, phase,
           target_reached, overflow_reached, istat>>

systemVars == <<vars, timer, owed, tame>>

SystemInit == Init /\ T!Init /\ owed = FALSE /\ tame \in BOOLEAN

\* Cycles since the timer was last synchronised
Elapsed == now - timesheets["timer"].last_sync

Conf == [target |-> target, target_wrap |-> target_wrap,
         target_irq |-> target_irq, clock |-> clock, period |-> period]

Cycles == INSTANCE TimerIdeal WITH
            core <- T!Now, conf <- Conf,
            Clocks <- T!Clocks, ClockSettings <- T!ClockSettings

\* Does the timer, cycle by cycle, pass the target e cycles after it was last
\* synchronised, or before?
PassedTarget(e) ==
  Cycles!After(e, [T!Now EXCEPT !.target_reached = FALSE], Conf).target_reached

----------------------------------------------------------------------------
\* The date of the timer's sheet after set_next_sync_delta or no_sync_needed;
\* a synchronisation that returns early leaves it.
TimerDate(early) ==
  timesheets'["timer"].next_sync =
    IF early THEN timesheets["timer"].next_sync
    ELSE LET d == T!Predict(counter', target', target_irq', period', phase')
         IN IF d = Never THEN Never ELSE now + d

\* Gpu::sync always asks for a date
GpuDate == timesheets'["gpu"].next_sync \in {now + d : d \in GpuDeltas}

TimerLeft == UNCHANGED <<timer, owed, tame>>

Loop == (Check \/ UpdateSyncPending \/ Retire) /\ TimerLeft

SyncGpu == SyncOne("gpu") /\ (NeedsSync("gpu") => GpuDate) /\ TimerLeft

SyncTimer ==
  /\ SyncOne("timer")
  /\ IF NeedsSync("timer") THEN T!Sync(Elapsed) /\ TimerDate(Elapsed = 0)
                           ELSE UNCHANGED timer
  /\ UNCHANGED <<owed, tame>>

Execute(n) ==
  /\ tame => target_wrap \/ now = 0
  /\ Tick(n)
  /\ owed' = (owed \/ (target_irq /\ PassedTarget(Elapsed + n)))
  /\ UNCHANGED <<timer, tame>>

AccessGpu == Access("gpu") /\ GpuDate /\ TimerLeft

\* A store that leaves the timer with the clock of the GPU synchronises the
\* GPU first
GpuFresh == clock' = "GpuHSync" => timesheets["gpu"].last_sync = now

\* Loads of the registers
LoadCounter ==
  /\ pc = "access" /\ T!Sync(Elapsed)
  /\ Access("timer") /\ pc' = "check" /\ TimerDate(Elapsed = 0)
  /\ UNCHANGED <<owed, tame>>

LoadMode ==
  /\ pc = "access" /\ T!ReadMode(Elapsed)
  /\ Access("timer") /\ pc' = "check" /\ TimerDate(Elapsed = 0)
  /\ UNCHANGED <<owed, tame>>

\* Timers::store, around the setter of the register
Store ==
  /\ Access("timer") /\ pc' = "check"
  /\ GpuFresh
  /\ TimerDate(FALSE)
  /\ UNCHANGED <<owed, tame>>

StoreCounter(v) ==
  /\ pc = "access" /\ T!SetCounter(Elapsed, v) /\ Store
  /\ tame => v <= target

StoreTarget(v) ==
  /\ pc = "access" /\ T!SetTarget(Elapsed, v) /\ Store
  /\ tame => v >= counter'

StoreMode(w, i, c) ==
  /\ pc = "access" /\ T!SetMode(Elapsed, w, i, c) /\ Store
  /\ tame => w

\* A store to the GPU that changes the video timings
VideoTimingsChanged ==
  pc = "access" /\ T!video_timings_changed(Elapsed) /\ Store

\* A store to the status register of the interrupt controller
AckTimer ==
  /\ Retire /\ T!Ack /\ owed' = FALSE
  /\ UNCHANGED tame

SystemNext == \/ Loop \/ SyncGpu \/ SyncTimer \/ AccessGpu
              \/ LoadCounter \/ LoadMode \/ VideoTimingsChanged \/ AckTimer
              \/ \E v \in T!Values : StoreCounter(v) \/ StoreTarget(v)
              \/ \E w, i \in BOOLEAN, c \in T!Clocks : StoreMode(w, i, c)
              \/ \E n \in Ticks : Execute(n)

SystemSpec == SystemInit /\ [][SystemNext]_systemVars

----------------------------------------------------------------------------
(***************************************************************************)
(* A target interrupt reaches the CPU before the instruction that follows  *)
(* the one during which the counter passed the target: whenever an         *)
(* instruction starts, the target has not been passed since the timer was  *)
(* synchronised, and ("Raise interrupt when the counter reaches the        *)
(* `target`") what was passed before is in the interrupt controller until  *)
(* the program acknowledges it.  The second part is for programs that keep *)
(* the counter at or below the target.                                     *)
(***************************************************************************)
InterruptPunctual ==
  /\ T!TypeOK
  /\ pc = "run" => /\ target_irq => ~PassedTarget(Elapsed)
                   /\ tame /\ owed => istat

\* The lazy timer seen as the ideal one: what its state would be if it were
\* brought forward to the present, cycle by cycle.
Ideal == INSTANCE TimerIdeal WITH
           core <- Cycles!After(Elapsed, T!Now, Conf), conf <- Conf,
           Clocks <- T!Clocks, ClockSettings <- T!ClockSettings

\* Each operation of the program is the same operation of the ideal timer, and
\* the steps of the emulator are none
Implements ==
  /\ \A n \in Ticks : Execute(n) => Ideal!Run(n)
  /\ Loop \/ SyncGpu \/ SyncTimer \/ AccessGpu \/ AckTimer \/ LoadCounter =>
       UNCHANGED Ideal!vars
  /\ LoadMode => Ideal!ReadMode
  /\ \A v \in T!Values : /\ StoreCounter(v) => Ideal!SetCounter(v)
                         /\ StoreTarget(v) => Ideal!SetTarget(v)
  /\ \A w, i \in BOOLEAN, c \in T!Clocks :
       StoreMode(w, i, c) => Ideal!SetMode(w, i, c)
  /\ VideoTimingsChanged => Ideal!VideoTimingsChanged

(***************************************************************************)
(* Refinement: a program cannot tell the lazily synchronised timer from    *)
(* one that is emulated cycle by cycle, whenever and however often it is   *)
(* synchronised ("Peripheral's syncs should be idempotent").  It holds for *)
(* programs that keep the counter at or below the target.                  *)
(***************************************************************************)
RefinesIdeal ==
  /\ tame => Ideal!Init
  /\ [][tame => Implements]_systemVars
=============================================================================

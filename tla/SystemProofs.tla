---------------------------- MODULE SystemProofs ----------------------------
(***************************************************************************)
(* Proofs about the TimeKeeper with any peripherals, and about its         *)
(* composition with the main loop, a timer and the GPU, for any width of   *)
(* the counter, any clocks and any instruction times.  The composition is  *)
(* one of the behaviours of the TimeKeeper, whose theorems it inherits; no *)
(* interrupt of the timer is late; and the lazily synchronised timer       *)
(* implements the ideal one.                                               *)
(***************************************************************************)
EXTENDS System, TLAPS, WellFoundedInduction, NaturalsInduction

(***************************************************************************)
(* OneInstructionLate is not inductive: while Interconnect::sync runs, the *)
(* peripherals it has already visited have no date in the past.            *)
(***************************************************************************)
VisitedOnTime ==
  pc = "sync" => \A p \in Peripherals \ todo : timesheets[p].next_sync >= now

IInv == TypeOK /\ CacheIsEarliest /\ OneInstructionLate /\ VisitedOnTime

\* The invariant holds when all peripherals ask for a first synchronisation.
LEMMA InitInv == Init => IInv
  BY TimeKeeperAssumption
  DEF Init, IInv, TypeOK, CacheIsEarliest, OneInstructionLate, VisitedOnTime

\* Synchronising a peripheral gives its sheet a date that is not in the past
\* and keeps the cache below every sheet.
LEMMA SyncPeripheralLemma ==
  ASSUME TypeOK, CacheIsEarliest, NEW p \in Peripherals, NEW at \in now .. MaxNow,
         SyncPeripheral(p, at)
  PROVE  /\ next_sync' \in 0 .. Never
         /\ timesheets' \in [Peripherals ->
                               [last_sync : Nat, next_sync : 0 .. Never]]
         /\ timesheets'[p].last_sync = at
         /\ timesheets'[p].next_sync >= at
         /\ \A q \in Peripherals : /\ q # p => timesheets'[q] = timesheets[q]
                                   /\ next_sync' <= timesheets'[q].next_sync
<1>1. at \in Nat /\ at < Never
  BY TimeKeeperAssumption DEF TypeOK
<1> DEFINE Sheet(date) == timesheets' = [timesheets EXCEPT ![p] =
                                           [last_sync |-> at, next_sync |-> date]]
           Cache(date) == /\ next_sync' \in 0 .. Never
                          /\ next_sync' <= next_sync /\ next_sync' <= date
<1>2. \E date \in at .. Never : Sheet(date) /\ Cache(date)
  <2>1. ASSUME NEW d \in Deltas, Sheet(at + d), LowerNextSync(at + d)
        PROVE  \E date \in at .. Never : Sheet(date) /\ Cache(date)
    <3>1. at + d \in at .. Never
      BY <1>1, TimeKeeperAssumption DEF TypeOK
    <3>2. Cache(at + d)
      BY <2>1, <3>1, <1>1 DEF LowerNextSync, TypeOK
    <3> HIDE DEF Sheet, Cache
    <3> QED
      BY <2>1, <3>1, <3>2, Zenon
  <2>2. ASSUME Sheet(Never), UNCHANGED next_sync
        PROVE  \E date \in at .. Never : Sheet(date) /\ Cache(date)
    <3>1. Never \in at .. Never /\ Cache(Never)
      BY <1>1, <2>2, TimeKeeperAssumption DEF TypeOK
    <3> HIDE DEF Sheet, Cache
    <3> QED
      BY <2>2, <3>1, Zenon
  <2> QED
    BY <2>1, <2>2, Zenon DEF SyncPeripheral
<1>3. PICK date \in at .. Never : Sheet(date) /\ Cache(date)
  BY <1>2, Zenon
<1> QED
  BY <1>1, <1>3 DEF TypeOK, CacheIsEarliest

\* The steps of run_next_instruction and of Interconnect::sync keep it.
LEMMA NextInv == IInv /\ [Next]_vars => IInv'
<1> SUFFICES ASSUME IInv, [Next]_vars PROVE IInv'
  BY Zenon
<1> USE DEF IInv
<1>1. CASE Check
  BY <1>1 DEF Check, TypeOK, CacheIsEarliest, OneInstructionLate, VisitedOnTime
<1>2. ASSUME NEW p \in Peripherals, SyncOne(p) PROVE IInv'
  <2>1. CASE NeedsSync(p)
    <3>1. SyncPeripheral(p, now) /\ now \in now .. MaxNow
      BY <1>2, <2>1 DEF SyncOne, TypeOK
    <3> QED
      BY <1>2, <3>1, SyncPeripheralLemma
      DEF SyncOne, TypeOK, CacheIsEarliest, OneInstructionLate, VisitedOnTime
  <2>2. CASE ~NeedsSync(p)
    BY <1>2, <2>2 DEF SyncOne, NeedsSync, TypeOK, CacheIsEarliest,
       OneInstructionLate, VisitedOnTime
  <2> QED
    BY <2>1, <2>2, Zenon
<1>3. CASE UpdateSyncPending
  BY <1>3, Zenon DEF UpdateSyncPending, TypeOK, CacheIsEarliest,
     OneInstructionLate, VisitedOnTime
<1>4. ASSUME NEW n \in Ticks, Tick(n) PROVE IInv'
  BY <1>4, TimeKeeperAssumption
  DEF Tick, TypeOK, CacheIsEarliest, OneInstructionLate, VisitedOnTime
<1>5. ASSUME NEW p \in Peripherals, Access(p) PROVE IInv'
  <2>1. SyncPeripheral(p, now) /\ now \in now .. MaxNow
    BY <1>5 DEF Access, TypeOK
  <2>2. /\ pc = "access" /\ pc' \in {"access", "check"}
        /\ UNCHANGED <<now, todo, slice>>
    BY <1>5, Zenon DEF Access
  <2> HIDE <1>5
  <2> QED
    BY <2>1, <2>2, SyncPeripheralLemma
    DEF TypeOK, CacheIsEarliest, OneInstructionLate, VisitedOnTime
<1>6. CASE Retire
  BY <1>6, Zenon DEF Retire, TypeOK, CacheIsEarliest, OneInstructionLate,
     VisitedOnTime
<1>7. CASE UNCHANGED vars
  BY <1>7, Zenon DEF vars, TypeOK, CacheIsEarliest, OneInstructionLate,
     VisitedOnTime
<1> QED
  BY <1>1, <1>2, <1>3, <1>4, <1>5, <1>6, <1>7, Zenon DEF Next


(***************************************************************************)
(* The cached next_sync never exceeds the date of a time sheet.            *)
(***************************************************************************)
THEOREM CacheTheorem == Spec => [](TypeOK /\ CacheIsEarliest)
<1>1. Spec => []IInv
  BY InitInv, NextInv, PTL DEF Spec
<1> QED
  BY <1>1, PTL DEF IInv

(***************************************************************************)
(* No peripheral is synchronised more than one instruction late.           *)
(***************************************************************************)
THEOREM PunctualTheorem == Spec => []OneInstructionLate
<1>1. Spec => []IInv
  BY InitInv, NextInv, PTL DEF Spec
<1> QED
  BY <1>1, PTL DEF IInv

-----------------------------------------------------------------------------
\* Every step of the composition is a step of the TimeKeeper.
LEMMA StepIsTimeKeepers == [SystemNext]_systemVars => [Next]_vars
<1> SUFFICES ASSUME [SystemNext]_systemVars PROVE [Next]_vars
  BY Zenon
<1>1. "timer" \in Peripherals /\ "gpu" \in Peripherals
  BY SystemAssumption, Zenon
<1>2. CASE Loop
  BY <1>2, Zenon DEF Loop, Next
<1>3. CASE SyncGpu \/ AccessGpu
  BY <1>1, <1>3, Zenon DEF SyncGpu, AccessGpu, Next
<1>4. CASE SyncTimer \/ LoadCounter \/ LoadMode
  BY <1>1, <1>4, Zenon DEF SyncTimer, LoadCounter, LoadMode, Next
<1>5. CASE VideoTimingsChanged
  BY <1>1, <1>5, Zenon DEF VideoTimingsChanged, Store, Next
<1>6. CASE AckTimer
  BY <1>6, Zenon DEF AckTimer, Next
<1>7. ASSUME NEW v \in T!Values, StoreCounter(v) \/ StoreTarget(v)
      PROVE  Next
  BY <1>1, <1>7, Zenon DEF StoreCounter, StoreTarget, Store, Next
<1>8. ASSUME NEW w \in BOOLEAN, NEW i \in BOOLEAN, NEW c \in T!Clocks,
             StoreMode(w, i, c)
      PROVE  Next
  BY <1>1, <1>8, Zenon DEF StoreMode, Store, Next
<1>9. ASSUME NEW n \in Ticks, Execute(n) PROVE Next
  BY <1>9, Zenon DEF Execute, Next
<1>10. CASE UNCHANGED systemVars
  BY <1>10, Zenon DEF systemVars
<1> QED
  BY <1>2, <1>3, <1>4, <1>5, <1>6, <1>7, <1>8, <1>9, <1>10, Zenon DEF
     SystemNext

(***************************************************************************)
(* The composition implements the TimeKeeper specification: whatever the   *)
(* timer and the GPU ask for is a request it allows.                       *)
(***************************************************************************)
THEOREM SystemImplementsTimeKeeper == SystemSpec => Spec
<1>1. SystemInit => Init
  BY Zenon DEF SystemInit
<1> QED
  BY <1>1, StepIsTimeKeepers, PTL DEF SystemSpec, Spec

(***************************************************************************)
(* With a real timer and the GPU, no date is missed by more than one       *)
(* instruction, and the cached date is never late.                         *)
(***************************************************************************)
THEOREM SystemPunctual == SystemSpec => [](CacheIsEarliest /\ OneInstructionLate)
  BY SystemImplementsTimeKeeper, CacheTheorem, PunctualTheorem, PTL

----------------------------------------------------------------------------
\* The phase and the counter that Timer::sync computes are in range, whatever
\* the number of cycles that have elapsed.
LEMMA SyncedTyped ==
  ASSUME T!TypeOK, NEW e \in Nat
  PROVE  /\ T!Synced(e).counter \in T!Values
         /\ T!Synced(e).phase \in 0 .. period - 1
         /\ T!Synced(e).target_reached \in BOOLEAN
         /\ T!Synced(e).overflow_reached \in BOOLEAN
<1>1. T!Elapsed(e) \in Nat
  <2>1. e * Frac \in Nat
    BY SystemAssumption
  <2> QED
    BY <2>1 DEF T!Elapsed, T!TypeOK
<1>2. period \in Nat \ {0} /\ Wrap \in Nat \ {0}
  BY SystemAssumption, Zenon DEF T!TypeOK
<1>3. T!Elapsed(e) % period \in 0 .. period - 1
  BY <1>1, <1>2
<1>4. T!Elapsed(e) \div period \in Nat
  BY <1>1, <1>2
<1>5. T!Count(e) \in Nat
  BY <1>4 DEF T!Count, T!TypeOK, T!Values
<1>6. T!WrapValue \in 1 .. Wrap
  BY <1>2 DEF T!WrapValue, T!TypeOK, T!Values
<1>7. T!Count(e) % T!WrapValue \in 0 .. T!WrapValue - 1
  BY <1>5, <1>6
<1>8. (IF T!Count(e) >= T!WrapValue THEN T!Count(e) % T!WrapValue
       ELSE T!Count(e)) \in T!Values
  BY <1>5, <1>6, <1>7, <1>2 DEF T!Values
<1>9. /\ T!TargetPassed(e) \in BOOLEAN /\ T!Overflow(e) \in BOOLEAN
  BY Zenon DEF T!TargetPassed, T!Overflow
<1>10. CASE e = 0
  BY <1>10, Zenon DEF T!Synced, T!Now, T!TypeOK
<1>11. CASE e # 0
  BY <1>3, <1>8, <1>9, <1>11, Zenon DEF T!Synced, T!TypeOK
<1> QED
  BY <1>10, <1>11, Zenon

\* The settings of every clock have their phase within their period.
LEMMA SettingsTyped ==
  ASSUME NEW c \in T!Clocks, NEW s \in T!ClockSettings(c)
  PROVE  s[1] \in Nat \ {0} /\ s[2] \in 0 .. s[1] - 1
<1>1. CASE c = "SysClock"
  BY <1>1, SystemAssumption DEF T!ClockSettings
<1>2. CASE c = "SysClockDiv8"
  <2>1. Divider * Frac \in Nat \ {0}
    BY SystemAssumption
  <2>2. s = <<Divider * Frac, 0>>
    BY <1>2, Zenon DEF T!ClockSettings
  <2> QED
    BY <2>1, <2>2
<1>3. CASE c = "GpuHSync"
  BY <1>3, SystemAssumption DEF T!ClockSettings
<1> QED
  BY <1>1, <1>2, <1>3, Zenon DEF T!Clocks

\* The timer keeps its types through each of its operations.
LEMMA TimerTyped ==
  ASSUME TypeOK, T!TypeOK, [SystemNext]_systemVars
  PROVE  T!TypeOK'
<1>1. Elapsed \in Nat
  BY SystemAssumption DEF Elapsed, TypeOK
<1>2. /\ T!Synced(Elapsed).counter \in T!Values
      /\ T!Synced(Elapsed).phase \in 0 .. period - 1
      /\ T!Synced(Elapsed).target_reached \in BOOLEAN
      /\ T!Synced(Elapsed).overflow_reached \in BOOLEAN
  BY <1>1, SyncedTyped, Zenon
<1> DEFINE e == Elapsed
<1>3. T!SyncIrq(e) => istat' \in BOOLEAN
  BY Zenon DEF T!SyncIrq, T!TypeOK
<1>4. ASSUME T!Reconfigure(e), clock' \in T!Clocks
      PROVE  /\ period' \in Nat \ {0} /\ phase' \in 0 .. period' - 1
             /\ target_reached' \in BOOLEAN /\ overflow_reached' \in BOOLEAN
  <2>1. PICK s \in T!ClockSettings(clock') : period' = s[1] /\ phase' = s[2]
    BY <1>4, Zenon DEF T!Reconfigure
  <2> QED
    BY <1>2, <1>4, <2>1, SettingsTyped, Zenon DEF T!Reconfigure
<1> HIDE DEF e
<1>5. CASE UNCHANGED timer
  BY <1>5, Zenon DEF timer, T!TypeOK, T!Values
<1>6. CASE T!Sync(e) \/ T!ReadMode(e)
  BY <1>2, <1>3, <1>6, Zenon DEF e, T!Sync, T!ReadMode, T!conf, T!TypeOK
<1>7. ASSUME NEW v \in T!Values, T!SetCounter(e, v) \/ T!SetTarget(e, v)
      PROVE  T!TypeOK'
  <2>1. clock' \in T!Clocks /\ T!Reconfigure(e) /\ T!SyncIrq(e)
    BY <1>7, Zenon DEF T!SetCounter, T!SetTarget, T!TypeOK
  <2>2. /\ counter' \in T!Values /\ target' \in T!Values
        /\ target_wrap' \in BOOLEAN /\ target_irq' \in BOOLEAN
    BY <1>7, <1>2, Zenon DEF e, T!SetCounter, T!SetTarget, T!TypeOK
  <2> QED
    BY <1>3, <1>4, <2>1, <2>2, Zenon DEF T!TypeOK
<1>8. ASSUME NEW w \in BOOLEAN, NEW i \in BOOLEAN, NEW c \in T!Clocks,
             T!SetMode(e, w, i, c)
      PROVE  T!TypeOK'
  <2>1. clock' \in T!Clocks /\ T!Reconfigure(e) /\ T!SyncIrq(e)
    BY <1>8, Zenon DEF T!SetMode
  <2>2. /\ counter' \in T!Values /\ target' \in T!Values
        /\ target_wrap' \in BOOLEAN /\ target_irq' \in BOOLEAN
    BY <1>8, SystemAssumption DEF T!SetMode, T!TypeOK, T!Values
  <2> QED
    BY <1>3, <1>4, <2>1, <2>2, Zenon DEF T!TypeOK
<1>9. CASE T!video_timings_changed(e)
  <2>1. clock' \in T!Clocks /\ T!Reconfigure(e) /\ T!SyncIrq(e)
    BY <1>9, Zenon DEF T!video_timings_changed, T!TypeOK
  <2>2. /\ counter' \in T!Values /\ target' \in T!Values
        /\ target_wrap' \in BOOLEAN /\ target_irq' \in BOOLEAN
    BY <1>9, <1>2, Zenon DEF e, T!video_timings_changed, T!TypeOK
  <2> QED
    BY <1>3, <1>4, <2>1, <2>2, Zenon DEF T!TypeOK
<1>10. CASE T!Ack
  BY <1>10, Zenon DEF T!Ack, T!conf, T!TypeOK
<1> QED
  BY <1>5, <1>6, <1>7, <1>8, <1>9, <1>10, Zenon DEF e, SystemNext, Loop,
     TimerLeft, SyncGpu, SyncTimer, Execute, AccessGpu, LoadCounter, LoadMode,
     StoreCounter, StoreTarget, StoreMode, VideoTimingsChanged, AckTimer,
     systemVars

\* Timer::new has the right types.
LEMMA TimerInit == T!Init => T!TypeOK
<1> SUFFICES ASSUME T!Init PROVE T!TypeOK
  BY Zenon
<1>1. counter \in T!Values /\ target \in T!Values
  BY SystemAssumption DEF T!Init, T!Values
<1>2. period \in Nat \ {0} /\ phase \in 0 .. period - 1
  BY SystemAssumption DEF T!Init
<1>3. /\ target_wrap \in BOOLEAN /\ target_irq \in BOOLEAN
      /\ clock \in T!Clocks /\ istat \in BOOLEAN
      /\ target_reached \in BOOLEAN /\ overflow_reached \in BOOLEAN
  BY Zenon DEF T!Init, T!Clocks
<1> QED
  BY <1>1, <1>2, <1>3, Zenon DEF T!TypeOK

(***************************************************************************)
(* The phase of the timer stays within its period, so that the subtraction *)
(* of the phase in predict_next_sync does not underflow, and its counter   *)
(* within its width, through every operation and change of the clock.      *)
(***************************************************************************)
THEOREM TimerInRange == SystemSpec => []T!TypeOK
<1>1. SystemSpec => []TypeOK
  BY SystemImplementsTimeKeeper, CacheTheorem, PTL
<1>2. SystemInit => T!TypeOK
  BY TimerInit, Zenon DEF SystemInit
<1>3. TypeOK /\ T!TypeOK /\ [SystemNext]_systemVars => T!TypeOK'
  BY TimerTyped, Zenon
<1> QED
  BY <1>1, <1>2, <1>3, PTL DEF SystemSpec

----------------------------------------------------------------------------
\* Division rounds down.
LEMMA DivisionLemma ==
  \A a \in Nat, b \in Nat \ {0} :
    /\ a \div b \in Nat
    /\ (a \div b) * b <= a
    /\ a < (a \div b + 1) * b
  OBVIOUS

\* Multiplication by a positive number is monotonic.
LEMMA ProductLemma ==
  \A x, y \in Int, b \in Nat \ {0} : x * b < y * b => x < y
  OBVIOUS

\* Less than the predicted number of cycles makes less than k periods.
LEMMA TicksBefore ==
  ASSUME T!TypeOK, NEW k \in Nat \ {0}, NEW e \in Nat,
         e < (period * k - phase + Frac - 1) \div Frac
  PROVE  T!Elapsed(e) \div period < k
<1> DEFINE x == period * k - phase
           q == (x + Frac - 1) \div Frac
<1>1. period \in Nat \ {0} /\ phase \in 0 .. period - 1
  BY Zenon DEF T!TypeOK
<1>2. Frac \in Nat \ {0}
  BY SystemAssumption, Zenon
<1>3. period * k \in Nat /\ period * k >= period
  BY <1>1
<1>4. x \in Nat \ {0}
  BY <1>1, <1>3
<1>5. e < q
  BY Zenon
<1>6. q \in Nat /\ q * Frac <= x + Frac - 1
  BY <1>2, <1>4, DivisionLemma
<1> HIDE DEF q
<1>7. (e + 1) * Frac <= q * Frac
  BY <1>2, <1>5, <1>6
<1>8. e * Frac + phase < period * k
  BY <1>1, <1>2, <1>3, <1>6, <1>7
<1>9. T!Elapsed(e) \in Nat /\ T!Elapsed(e) < k * period
  BY <1>1, <1>2, <1>8 DEF T!Elapsed
<1> DEFINE d == T!Elapsed(e) \div period
<1>10. d \in Nat /\ d * period <= T!Elapsed(e)
  BY <1>1, <1>9, DivisionLemma, Zenon
<1> HIDE DEF d
<1>11. d * period < k * period
  BY <1>1, <1>9, <1>10
<1>12. d < k
  BY <1>1, <1>10, <1>11, ProductLemma
<1> QED BY <1>12, Zenon DEF d

\* The prediction counts the cycles up to the one that passes the target: no
\* smaller number of cycles passes it.
LEMMA PredictLemma ==
  ASSUME T!TypeOK, target_irq,
         NEW e \in Nat, e < T!Predict(counter, target, target_irq, period, phase)
  PROVE  ~T!TargetPassed(e)
<1>1. CASE counter > target
  BY <1>1 DEF T!TargetPassed, T!TypeOK, T!Values
<1>2. CASE counter <= target
  <2> DEFINE k == target - counter + 1
             d == T!Elapsed(e) \div period
  <2>1. k \in Nat \ {0} /\ counter \in Nat /\ target \in Nat
    BY <1>2 DEF T!TypeOK, T!Values
  <2>2. e < (period * k - phase + Frac - 1) \div Frac
    BY <1>2, Zenon DEF T!Predict
  <2> HIDE DEF k
  <2>3. d < k
    BY <2>1, <2>2, TicksBefore, Zenon
  <2>4. d \in Nat
    <3>1. e * Frac \in Nat /\ period \in Nat \ {0}
      BY SystemAssumption DEF T!TypeOK
    <3>2. T!Elapsed(e) \in Nat
      BY <3>1 DEF T!Elapsed, T!TypeOK
    <3> QED BY <3>1, <3>2, DivisionLemma, Zenon
  <2>5. T!Count(e) = counter + d
    BY Zenon DEF T!Count
  <2> HIDE DEF d
  <2>6. counter + d <= target
    BY <2>1, <2>3, <2>4 DEF k
  <2> QED BY <2>1, <2>4, <2>5, <2>6 DEF T!TargetPassed
<1> QED
  BY <1>1, <1>2 DEF T!TypeOK, T!Values

\* The prediction is at least one cycle.
LEMMA PredictPositive ==
  ASSUME NEW cnt \in T!Values, NEW tgt \in T!Values, NEW irq, irq,
         NEW per \in Nat \ {0}, NEW ph \in 0 .. per - 1
  PROVE  /\ T!Predict(cnt, tgt, irq, per, ph) \in Nat
         /\ T!Predict(cnt, tgt, irq, per, ph) > 0
<1> DEFINE k == (IF cnt <= tgt THEN tgt - cnt ELSE Wrap - 1 - cnt + tgt) + 1
           x == per * k - ph
           q == (x + Frac - 1) \div Frac
<1>1. k \in Nat \ {0}
  BY SystemAssumption DEF T!Values
<1>2. Frac \in Nat \ {0}
  BY SystemAssumption, Zenon
<1>3. T!Predict(cnt, tgt, irq, per, ph) = q
  BY Zenon DEF T!Predict
<1> HIDE DEF k
<1>4. per * k \in Nat /\ per * k >= per
  BY <1>1
<1>5. x \in Nat \ {0}
  BY <1>4
<1> HIDE DEF x
<1>6. q \in Nat /\ x + Frac - 1 < (q + 1) * Frac
  <2>1. x + Frac - 1 \in Nat
    BY <1>2, <1>5
  <2> QED
    BY <1>2, <2>1, DivisionLemma, Zenon
<1> HIDE DEF q
<1>7. 1 * Frac < (q + 1) * Frac
  BY <1>2, <1>5, <1>6
<1>8. q > 0
  BY <1>2, <1>6, <1>7, ProductLemma
<1> QED
  BY <1>3, <1>6, <1>8, Zenon

(***************************************************************************)
(* The inductive invariant about dates: with the interrupt on, the sheet   *)
(* of the timer holds the prediction made when it was last synchronised,   *)
(* and it is in the future when an instruction starts, because             *)
(* Interconnect::sync has been at the timer or had no reason to.           *)
(***************************************************************************)
Prediction == T!Predict(counter, target, target_irq, period, phase)

Scheduled ==
  target_irq =>
    /\ timesheets["timer"].next_sync =
         IF Prediction = Never THEN Never
         ELSE timesheets["timer"].last_sync + Prediction
    /\ pc = "run" \/ (pc = "sync" /\ "timer" \notin todo) =>
         timesheets["timer"].next_sync > now

\* The closed form of Timer::sync has not passed the target when an
\* instruction starts.
TargetAhead == pc = "run" /\ target_irq => ~T!TargetPassed(Elapsed)

\* A step that leaves timer and sheet alone keeps the dates.
LEMMA ScheduledElsewhere ==
  ASSUME Scheduled, UNCHANGED timer,
         timesheets'["timer"] = timesheets["timer"],
         target_irq /\ (pc' = "run" \/ (pc' = "sync" /\ "timer" \notin todo'))
           => timesheets["timer"].next_sync > now'
  PROVE  Scheduled'
<1>1. Prediction' = Prediction /\ target_irq' = target_irq
  BY Zenon DEF timer, Prediction, T!Predict
<1> QED
  BY <1>1, Zenon DEF Scheduled

\* A synchronisation of the timer gives its sheet the prediction, also when it
\* returns early.
LEMMA ScheduledByTimer ==
  ASSUME IInv, Scheduled, T!TypeOK', now' = now,
         SyncPeripheral("timer", now),
         \/ TimerDate(FALSE)
         \/ /\ Elapsed = 0 /\ TimerDate(TRUE)
            /\ UNCHANGED <<counter, target, target_irq, period, phase>>
  PROVE  Scheduled'
<1>1. /\ "timer" \in Peripherals /\ now \in now .. MaxNow /\ now \in Nat
      /\ TypeOK /\ CacheIsEarliest /\ now < Never
      /\ timesheets["timer"].last_sync \in Nat
  BY SystemAssumption, TimeKeeperAssumption DEF IInv, TypeOK
<1>2. timesheets'["timer"].last_sync = now
  BY <1>1, SyncPeripheralLemma, Zenon
<1> SUFFICES ASSUME target_irq' PROVE Scheduled'
  BY Zenon DEF Scheduled
<1>3. Prediction' \in Nat /\ Prediction' > 0
  BY PredictPositive, Zenon DEF Prediction, T!TypeOK
<1>4. timesheets'["timer"].next_sync = IF Prediction' = Never THEN Never
                                       ELSE now + Prediction'
  <2>1. CASE TimerDate(FALSE)
    BY <2>1, Zenon DEF TimerDate, Prediction
  <2>2. CASE /\ Elapsed = 0 /\ TimerDate(TRUE)
             /\ UNCHANGED <<counter, target, target_irq, period, phase>>
    <3>1. Prediction' = Prediction /\ target_irq
      BY <2>2, Zenon DEF Prediction, T!Predict
    <3>2. timesheets["timer"].last_sync = now
      BY <1>1, <2>2 DEF Elapsed
    <3>3. timesheets'["timer"].next_sync = timesheets["timer"].next_sync
      BY <2>2, Zenon DEF TimerDate
    <3> QED
      BY <3>1, <3>2, <3>3, Zenon DEF Scheduled
  <2> QED
    BY <2>1, <2>2, Zenon
<1>5. timesheets'["timer"].next_sync > now
  <2> DEFINE p == Prediction'
             d == timesheets'["timer"].next_sync
  <2>1. /\ p \in Nat /\ p > 0 /\ now \in Nat /\ Never > now
        /\ d = IF p = Never THEN Never ELSE now + p
    BY <1>1, <1>3, <1>4, TimeKeeperAssumption
  <2> HIDE DEF p, d
  <2>2. d > now
    BY <2>1
  <2> QED
    BY <2>2 DEF d
<1> QED
  BY <1>2, <1>4, <1>5, Zenon DEF Scheduled

\* The step that synchronises the timer, early or not.
LEMMA SyncDates ==
  ASSUME T!Sync(Elapsed) \/ T!ReadMode(Elapsed), TimerDate(Elapsed = 0)
  PROVE  \/ TimerDate(FALSE)
         \/ /\ Elapsed = 0 /\ TimerDate(TRUE)
            /\ UNCHANGED <<counter, target, target_irq, period, phase>>
<1>1. CASE Elapsed = 0
  <2>1. TimerDate(TRUE)
    BY <1>1, Zenon DEF TimerDate
  <2>2. UNCHANGED <<counter, target, target_irq, period, phase>>
    BY <1>1, Zenon DEF T!Sync, T!ReadMode, T!Synced, T!Now, T!conf
  <2> QED
    BY <1>1, <2>1, <2>2, Zenon
<1>2. CASE Elapsed # 0
  BY <1>2, Zenon DEF TimerDate
<1> QED
  BY <1>1, <1>2, Zenon

\* Every step keeps the dates of the timer.
LEMMA ScheduledLemma ==
  ASSUME IInv, IInv', T!TypeOK, T!TypeOK', Scheduled, [SystemNext]_systemVars
  PROVE  Scheduled'
<1>1. /\ "timer" \in Peripherals /\ "gpu" \in Peripherals /\ "gpu" # "timer"
      /\ TypeOK /\ CacheIsEarliest /\ now \in now .. MaxNow /\ now \in Nat
      /\ timesheets["timer"].next_sync \in Nat /\ next_sync \in Nat
      /\ next_sync <= timesheets["timer"].next_sync
  BY SystemAssumption, TimeKeeperAssumption DEF IInv, TypeOK, CacheIsEarliest
<1>2. CASE Loop
  <2>1. UNCHANGED timer
    BY <1>2, Zenon DEF Loop, TimerLeft
  <2>2. CASE Check
    BY <1>1, <2>1, <2>2, ScheduledElsewhere DEF Check
  <2>3. CASE UpdateSyncPending
    BY <1>1, <2>1, <2>3, ScheduledElsewhere, Zenon DEF UpdateSyncPending,
       Scheduled
  <2>4. CASE Retire
    BY <1>1, <2>1, <2>4, ScheduledElsewhere, Zenon DEF Retire
  <2> QED
    BY <1>2, <2>2, <2>3, <2>4, Zenon DEF Loop
<1>3. CASE SyncGpu
  <2>1. /\ UNCHANGED timer /\ timesheets'["timer"] = timesheets["timer"]
        /\ now' = now /\ pc = "sync" /\ pc' = pc /\ todo' = todo \ {"gpu"}
    BY <1>1, <1>3, SyncPeripheralLemma, Zenon DEF SyncGpu, SyncOne, TimerLeft
  <2> QED
    BY <1>1, <2>1, ScheduledElsewhere, Zenon DEF Scheduled
<1>4. CASE AccessGpu
  <2>1. /\ UNCHANGED timer /\ timesheets'["timer"] = timesheets["timer"]
        /\ now' = now /\ pc' \in {"access", "check"}
    BY <1>1, <1>4, SyncPeripheralLemma, Zenon DEF AccessGpu, Access, TimerLeft
  <2> QED
    BY <2>1, ScheduledElsewhere, Zenon
<1>5. CASE SyncTimer
  <2>1. CASE NeedsSync("timer")
    <3>1. /\ SyncPeripheral("timer", now) /\ now' = now
          /\ T!Sync(Elapsed) /\ TimerDate(Elapsed = 0)
      BY <1>5, <2>1, Zenon DEF SyncTimer, SyncOne
    <3> QED
      BY <3>1, SyncDates, ScheduledByTimer, Zenon
  <2>2. CASE ~NeedsSync("timer")
    <3>1. /\ UNCHANGED <<timer, timesheets, now>>
      BY <1>5, <2>2, Zenon DEF SyncTimer, SyncOne
    <3>2. timesheets["timer"].next_sync > now
      BY <1>1, <2>2 DEF NeedsSync
    <3> QED
      BY <3>1, <3>2, ScheduledElsewhere, Zenon
  <2> QED
    BY <2>1, <2>2, Zenon
<1>6. CASE LoadCounter \/ LoadMode
  <2>1. /\ SyncPeripheral("timer", now) /\ now' = now
        /\ T!Sync(Elapsed) \/ T!ReadMode(Elapsed)
        /\ TimerDate(Elapsed = 0)
    BY <1>6, Zenon DEF LoadCounter, LoadMode, Access
  <2> QED
    BY <2>1, SyncDates, ScheduledByTimer, Zenon
<1>7. CASE Store
  <2>1. SyncPeripheral("timer", now) /\ now' = now /\ TimerDate(FALSE)
    BY <1>7, Zenon DEF Store, Access
  <2> QED
    BY <2>1, ScheduledByTimer, Zenon
<1>8. CASE AckTimer
  <2>1. /\ UNCHANGED <<timesheets, now, todo>> /\ pc' = "check"
        /\ UNCHANGED <<counter, target, target_irq, period, phase>>
    BY <1>8, Zenon DEF AckTimer, Retire, T!Ack, T!conf
  <2>2. Prediction' = Prediction
    BY <2>1, Zenon DEF Prediction, T!Predict
  <2> QED
    BY <2>1, <2>2, Zenon DEF Scheduled
<1>9. ASSUME NEW n \in Ticks, Execute(n) PROVE Scheduled'
  <2>1. UNCHANGED <<timer, timesheets>> /\ pc' = "access"
    BY <1>9, Zenon DEF Execute, Tick
  <2> QED
    BY <2>1, ScheduledElsewhere, Zenon
<1>10. CASE UNCHANGED systemVars
  <2>1. UNCHANGED <<timer, timesheets, now, pc, todo>>
    BY <1>10, Zenon DEF systemVars, vars
  <2> QED
    BY <2>1, ScheduledElsewhere, Zenon DEF Scheduled
<1> QED
  BY <1>2, <1>3, <1>4, <1>5, <1>6, <1>7, <1>8, <1>9, <1>10, Zenon DEF
     SystemNext, StoreCounter, StoreTarget, StoreMode, VideoTimingsChanged

(***************************************************************************)
(* No target is passed unnoticed: whatever the program does to the timer   *)
(* and whatever the GPU does to its clock, when an instruction starts the  *)
(* counter has not passed the target since the timer was synchronised, so  *)
(* that the interrupt was raised before.  The prediction is exact enough,  *)
(* and it is never lost between the time sheet, the cached date and the    *)
(* order in which Interconnect::sync visits the peripherals.               *)
(***************************************************************************)
THEOREM NoTargetUnnoticed == SystemSpec => []TargetAhead
<1> DEFINE Inv == IInv /\ T!TypeOK /\ Scheduled
<1>1. SystemInit => Inv
  <2> SUFFICES ASSUME SystemInit PROVE Inv
    BY Zenon
  <2>1. Init /\ T!Init
    BY Zenon DEF SystemInit
  <2>2. ~target_irq
    BY <2>1, Zenon DEF T!Init
  <2> QED
    BY <2>1, <2>2, InitInv, TimerInit, Zenon DEF Scheduled
<1>2. Inv /\ [SystemNext]_systemVars => Inv'
  <2> SUFFICES ASSUME Inv, [SystemNext]_systemVars PROVE Inv'
    BY Zenon
  <2>1. IInv'
    BY StepIsTimeKeepers, NextInv, Zenon
  <2>2. T!TypeOK'
    BY TimerTyped, Zenon DEF IInv
  <2> QED
    BY <2>1, <2>2, ScheduledLemma, Zenon
<1>3. Inv => TargetAhead
  <2> SUFFICES ASSUME Inv, pc = "run", target_irq
               PROVE  ~T!TargetPassed(Elapsed)
    BY Zenon DEF TargetAhead
  <2>1. /\ timesheets["timer"].last_sync \in Nat /\ now \in Nat /\ now < Never
        /\ timesheets["timer"].last_sync <= now
    BY SystemAssumption, TimeKeeperAssumption DEF IInv, TypeOK
  <2>2. Prediction \in Nat
    BY PredictPositive, Zenon DEF Prediction, T!TypeOK
  <2>3. Elapsed \in Nat /\ Elapsed < Prediction
    BY <2>1, <2>2 DEF Elapsed, Scheduled
  <2> QED
    BY <2>3, PredictLemma, Zenon DEF Prediction
<1> QED
  BY <1>1, <1>2, <1>3, PTL DEF SystemSpec

-----------------------------------------------------------------------------
\* Induction over the numbers, for sets: a set that holds 0 and, with a number, the
\* next one, holds all of them.
LEMMA SetInduction ==
  ASSUME NEW S, 0 \in S, \A n \in Nat : n \in S => n + 1 \in S
  PROVE  Nat \subseteq S
<1> DEFINE R == OpToRel(<, Nat)
           M == Nat \ S
<1>1. IsWellFoundedOn(R, Nat)
  BY NatLessThanWellFounded, Zenon
<1>2. \A x, y \in Nat : x < y => <<x, y>> \in R
  BY Zenon DEF OpToRel
<1> SUFFICES ASSUME M # {} PROVE FALSE
  BY Zenon
<1> HIDE DEF R
<1>3. PICK x \in M : \A y \in M : ~(<<y, x>> \in R)
  BY <1>1, WFMin, Zenon
<1>4. x # 0 /\ x - 1 \in Nat /\ x - 1 < x /\ x \in Nat
  OBVIOUS
<1>5. x - 1 \in S
  BY <1>2, <1>3, <1>4, Zenon
<1>6. x - 1 + 1 = x
  BY <1>4
<1> QED BY <1>4, <1>5, <1>6, Zenon

\* f[k] is what k cycles make of s, for k up to n.
IsRun(f, n, s, c) ==
  f = [k \in 0 .. n |-> IF k = 0 THEN s ELSE Cycles!Cycle(f[k - 1], c)]

\* There is such a function for every number of cycles ...
LEMMA RunExists ==
  ASSUME NEW s, NEW c
  PROVE  \A n \in Nat : \E f : IsRun(f, n, s, c)
<1> DEFINE S == {n \in Nat : \E f : IsRun(f, n, s, c)}
<1>1. 0 \in S
  <2> DEFINE f == [k \in 0 .. 0 |-> s]
  <2>1. IsRun(f, 0, s, c)
    BY DEF IsRun
  <2> QED BY <2>1, Zenon
<1>2. ASSUME NEW n \in Nat, n \in S PROVE n + 1 \in S
  <2>1. PICK f : IsRun(f, n, s, c)
    BY <1>2, Zenon
  <2> DEFINE g == [k \in 0 .. n + 1 |-> IF k = n + 1 THEN Cycles!Cycle(f[n], c) ELSE f[k]]
  <2>2. ASSUME NEW k \in 0 .. n + 1
        PROVE  g[k] = IF k = 0 THEN s ELSE Cycles!Cycle(g[k - 1], c)
    <3>1. CASE k = n + 1
      <4>1. g[k] = Cycles!Cycle(f[n], c) /\ g[k - 1] = f[n]
        BY <3>1
      <4> QED BY <3>1, <4>1
    <3>2. CASE k \in 1 .. n
      <4>1. g[k] = f[k] /\ g[k - 1] = f[k - 1]
        BY <3>2
      <4>2. f[k] = Cycles!Cycle(f[k - 1], c)
        BY <2>1, <3>2 DEF IsRun
      <4> QED BY <3>2, <4>1, <4>2
    <3>3. CASE k = 0
      BY <2>1, <3>3 DEF IsRun
    <3> QED BY <3>1, <3>2, <3>3
  <2>3. IsRun(g, n + 1, s, c)
    BY <2>2, Zenon DEF IsRun
  <2> QED BY <2>3
<1> HIDE DEF S
<1>3. Nat \subseteq S
  BY <1>1, <1>2, SetInduction, Zenon
<1> QED BY <1>3, Zenon DEF S

\* ... and two of them agree where both are defined.
LEMMA RunUnique ==
  ASSUME NEW s, NEW c, NEW m \in Nat, NEW n \in Nat,
         NEW f, NEW g, IsRun(f, m, s, c), IsRun(g, n, s, c)
  PROVE  \A k \in Nat : k <= m /\ k <= n => f[k] = g[k]
<1> DEFINE S == {k \in Nat : k <= m /\ k <= n => f[k] = g[k]}
<1>1. 0 \in S
  BY DEF IsRun
<1>2. ASSUME NEW k \in Nat, k \in S PROVE k + 1 \in S
  <2> SUFFICES ASSUME k + 1 <= m, k + 1 <= n PROVE f[k + 1] = g[k + 1]
    OBVIOUS
  <2>1. f[k] = g[k]
    BY <1>2
  <2>2. f[k + 1] = Cycles!Cycle(f[k], c)
    BY DEF IsRun
  <2>3. g[k + 1] = Cycles!Cycle(g[k], c)
    BY DEF IsRun
  <2> QED BY <2>1, <2>2, <2>3, Zenon
<1> HIDE DEF S
<1>3. Nat \subseteq S
  BY <1>1, <1>2, SetInduction, Zenon
<1> QED BY <1>3, Zenon DEF S

\* So the recursive definition of After defines what it says.
LEMMA AfterRun ==
  ASSUME NEW s, NEW c, NEW n \in Nat
  PROVE  \E f : IsRun(f, n, s, c) /\ Cycles!After(n, s, c) = f[n]
<1> DEFINE f == CHOOSE f : IsRun(f, n, s, c)
<1>1. IsRun(f, n, s, c)
  BY RunExists, Zenon
<1>2. Cycles!After(n, s, c) = f[n]
  BY Zenon DEF Cycles!After, IsRun
<1> QED BY <1>1, <1>2, Zenon

\* No cycle changes nothing.
LEMMA AfterZero ==
  ASSUME NEW s, NEW c
  PROVE  Cycles!After(0, s, c) = s
  BY AfterRun DEF IsRun

\* The last of n + 1 cycles is one cycle of the timer.
LEMMA AfterNext ==
  ASSUME NEW s, NEW c, NEW n \in Nat
  PROVE  Cycles!After(n + 1, s, c) = Cycles!Cycle(Cycles!After(n, s, c), c)
<1>1. PICK f : IsRun(f, n, s, c) /\ Cycles!After(n, s, c) = f[n]
  BY AfterRun, Zenon
<1>2. PICK g : IsRun(g, n + 1, s, c) /\ Cycles!After(n + 1, s, c) = g[n + 1]
  BY AfterRun
<1>3. g[n + 1] = Cycles!Cycle(g[n], c)
  BY <1>2 DEF IsRun
<1>4. f[n] = g[n]
  BY <1>1, <1>2, RunUnique
<1> QED BY <1>1, <1>2, <1>3, <1>4, Zenon

\* m cycles and then n are m + n cycles: the timer may be brought forward in
\* any number of steps.
LEMMA AfterSum ==
  ASSUME NEW s, NEW c, NEW m \in Nat
  PROVE  \A n \in Nat :
           Cycles!After(m + n, s, c) = Cycles!After(n, Cycles!After(m, s, c), c)
<1> DEFINE S == {n \in Nat : Cycles!After(m + n, s, c)
                                = Cycles!After(n, Cycles!After(m, s, c), c)}
<1>1. 0 \in S
  BY AfterZero
<1>2. ASSUME NEW n \in Nat, n \in S PROVE n + 1 \in S
  <2>1. m + (n + 1) = (m + n) + 1 /\ m + n \in Nat
    OBVIOUS
  <2>2. Cycles!After(m + (n + 1), s, c) = Cycles!Cycle(Cycles!After(m + n, s, c), c)
    BY <2>1, AfterNext, Zenon
  <2>3. Cycles!After(n + 1, Cycles!After(m, s, c), c)
          = Cycles!Cycle(Cycles!After(n, Cycles!After(m, s, c), c), c)
    BY AfterNext, Zenon
  <2> QED BY <1>2, <2>2, <2>3
<1> HIDE DEF S
<1>3. Nat \subseteq S
  BY <1>1, <1>2, SetInduction, Zenon
<1> QED BY <1>3, Zenon DEF S

-----------------------------------------------------------------------------
\* A quotient and a remainder are the ones.
LEMMA Quotient ==
  ASSUME NEW a \in Nat, NEW p \in Nat \ {0}, NEW q \in Int, NEW r \in 0 .. p - 1,
         a = q * p + r
  PROVE  a \div p = q /\ (a % p) = r
  OBVIOUS

\* What a division leaves.
LEMMA QuotientRemainder ==
  ASSUME NEW a \in Nat, NEW p \in Nat \ {0}
  PROVE  a = (a \div p) * p + (a % p) /\ (a % p) \in 0 .. p - 1 /\ a \div p \in Nat
<1> DEFINE q == a \div p
           r == a - q * p
<1>1. q \in Nat /\ q * p <= a /\ a < (q + 1) * p
  BY DivisionLemma, Zenon
<1> HIDE DEF q
<1>2. q * p \in Nat /\ (q + 1) * p = q * p + p
  BY <1>1
<1>3. r \in 0 .. p - 1 /\ a = q * p + r
  BY <1>1, <1>2
<1> HIDE DEF r
<1>4. (a % p) = r
  BY <1>1, <1>3, Quotient
<1>5. a = q * p + (a % p) /\ (a % p) \in 0 .. p - 1 /\ q \in Nat
  BY <1>1, <1>3, <1>4, Zenon
<1> QED BY <1>5, Zenon DEF q

\* f more, at most a whole divisor, makes at most one more of it.
LEMMA CycleArithmetic ==
  ASSUME NEW a \in Nat, NEW p \in Nat \ {0}, NEW f \in Nat \ {0}, f <= p
  PROVE  IF (a % p) + f < p
           THEN (a + f) \div p = a \div p /\ ((a + f) % p) = (a % p) + f
           ELSE (a + f) \div p = a \div p + 1 /\ ((a + f) % p) = (a % p) + f - p
<1> DEFINE q == a \div p
           r == (a % p)
           b == a + f
<1>1. a = q * p + r /\ r \in 0 .. p - 1 /\ q \in Nat /\ b \in Nat
  <2>1. b \in Nat
    OBVIOUS
  <2> QED BY <2>1, QuotientRemainder, Zenon
<1> HIDE DEF q, r
<1>2. CASE r + f < p
  <2>1. b = q * p + (r + f) /\ r + f \in 0 .. p - 1
    BY <1>1, <1>2
  <2> HIDE DEF b
  <2>2. b \div p = q /\ (b % p) = r + f
    BY <1>1, <2>1, Quotient
  <2> QED BY <1>2, <2>2, Zenon DEF q, r, b
<1>3. CASE ~(r + f < p)
  <2> DEFINE k == q + 1
             m == r + f - p
  <2>1. b = k * p + m /\ m \in 0 .. p - 1 /\ k \in Int
    BY <1>1, <1>3
  <2> HIDE DEF b, k, m
  <2>2. b \div p = k /\ (b % p) = m
    BY <1>1, <2>1, Quotient, Zenon
  <2> QED BY <1>3, <2>2, Zenon DEF q, r, b, k, m
<1> QED BY <1>2, <1>3, Zenon

\* Counting up to w.
LEMMA Counting ==
  ASSUME NEW a \in Nat, NEW w \in Nat \ {0}
  PROVE  /\ (a % w) \in 0 .. w - 1
         /\ a < w => (a % w) = a
         /\ ((a + 1) % w) = IF (a % w) = w - 1 THEN 0 ELSE (a % w) + 1
<1>1. (a % w) \in 0 .. w - 1
  BY QuotientRemainder, Zenon
<1>2. a < w => (a % w) = a
  OBVIOUS
<1>3. IF (a % w) + 1 < w THEN ((a + 1) % w) = (a % w) + 1
      ELSE ((a + 1) % w) = (a % w) + 1 - w
  <2>1. 1 \in Nat \ {0} /\ 1 <= w
    OBVIOUS
  <2> QED BY <2>1, CycleArithmetic, Zenon
<1> DEFINE x == (a % w)
           y == ((a + 1) % w)
<1>4. y = IF x = w - 1 THEN 0 ELSE x + 1
  <2>1. x \in 0 .. w - 1 /\ IF x + 1 < w THEN y = x + 1 ELSE y = x + 1 - w
    BY <1>1, <1>3, Zenon
  <2> HIDE DEF x, y
  <2> QED BY <2>1
<1> QED BY <1>1, <1>2, <1>4, Zenon

\* The number of periods grows by at most one in a cycle.
LEMMA OneCycle ==
  ASSUME T!TypeOK, period >= Frac, NEW n \in Nat
  PROVE  /\ T!Count(n) \in Nat /\ T!Elapsed(n) \in Nat
         /\ IF (T!Elapsed(n) % period) + Frac < period
              THEN /\ T!Count(n + 1) = T!Count(n)
                   /\ (T!Elapsed(n + 1) % period) = (T!Elapsed(n) % period) + Frac
              ELSE /\ T!Count(n + 1) = T!Count(n) + 1
                   /\ (T!Elapsed(n + 1) % period) = (T!Elapsed(n) % period) + Frac - period
<1> DEFINE a == T!Elapsed(n)
           b == T!Elapsed(n + 1)
<1>1. /\ period \in Nat \ {0} /\ Frac \in Nat \ {0} /\ Frac <= period
      /\ phase \in Nat /\ counter \in Nat
  BY SystemAssumption DEF T!TypeOK, T!Values
<1>2. n * Frac \in Nat /\ (n + 1) * Frac = n * Frac + Frac
  BY <1>1
<1>3. a \in Nat /\ b = a + Frac
  BY <1>1, <1>2 DEF T!Elapsed
<1> HIDE DEF a, b
<1>4. IF (a % period) + Frac < period
        THEN b \div period = a \div period /\ (b % period) = (a % period) + Frac
        ELSE /\ b \div period = a \div period + 1
             /\ (b % period) = (a % period) + Frac - period
  BY <1>1, <1>3, CycleArithmetic, Zenon
<1>5. a \div period \in Nat
  BY <1>1, <1>3, QuotientRemainder, Zenon
<1>6. T!Count(n) = counter + a \div period /\ T!Count(n + 1) = counter + b \div period
  BY Zenon DEF T!Count, a, b
<1> QED BY <1>1, <1>3, <1>4, <1>5, <1>6 DEF a, b

\* The timer as it was last synchronised, with the flag t.
Start(t) == [counter |-> counter, phase |-> phase, target_reached |-> t,
             overflow_reached |-> overflow_reached]

\* What Timer::sync makes of the count.
Wrapped(a) == IF a >= T!WrapValue THEN a % T!WrapValue ELSE a

\* What Timer::sync computes for n cycles at once, from the flag t.
ClosedForm(n, t) ==
  [counter |-> Wrapped(T!Count(n)), phase |-> (T!Elapsed(n) % period),
   target_reached |-> t \/ T!TargetPassed(n),
   overflow_reached |-> overflow_reached \/ T!Overflow(n)]

\* One more count is one more count of the wrapped counter, which passes the
\* target, or overflows, as the count does.
LEMMA ClosedTick ==
  ASSUME T!TypeOK, counter <= target, NEW a \in Nat
  PROVE  /\ Wrapped(a) \in Nat
         /\ Wrapped(a + 1) =
              IF Wrapped(a) = Wrap - 1 \/ (Wrapped(a) = target /\ target_wrap)
                THEN 0 ELSE Wrapped(a) + 1
         /\ a + 1 > target <=> a > target \/ Wrapped(a) = target
         /\ (a + 1 >= T!WrapValue /\ T!WrapValue = Wrap) <=>
              (a >= T!WrapValue /\ T!WrapValue = Wrap) \/ Wrapped(a) = Wrap - 1
<1> DEFINE w == T!WrapValue
           x == (a % w)
           y == ((a + 1) % w)
<1>1. /\ w \in 1 .. Wrap /\ target \in 0 .. Wrap - 1 /\ Wrap \in Nat \ {0}
      /\ target_wrap => w = target + 1
      /\ ~target_wrap => w = Wrap
      /\ w > target
  BY SystemAssumption DEF T!WrapValue, T!TypeOK, T!Values
<1>2. /\ Wrapped(a) = IF a >= w THEN x ELSE a
      /\ Wrapped(a + 1) = IF a + 1 >= w THEN y ELSE a + 1
  BY Zenon DEF Wrapped
<1> HIDE DEF w
<1>3. /\ x \in 0 .. w - 1 /\ (a < w => x = a)
      /\ y = IF x = w - 1 THEN 0 ELSE x + 1
  <2>1. w \in Nat \ {0}
    BY <1>1
  <2> QED BY <2>1, Counting, Zenon
<1> HIDE DEF x, y
<1>4. /\ Wrapped(a) = x
      /\ Wrapped(a + 1) = IF x = w - 1 THEN 0 ELSE x + 1
  BY <1>1, <1>2, <1>3
<1>5. (a + 1 > target <=> a > target \/ x = target)
  BY <1>1, <1>3
<1>6. (a + 1 >= w /\ w = Wrap) <=> (a >= w /\ w = Wrap) \/ x = Wrap - 1
  BY <1>1, <1>3
<1>7. x = w - 1 <=> x = Wrap - 1 \/ (x = target /\ target_wrap)
  BY <1>1, <1>3
<1> QED BY <1>3, <1>4, <1>5, <1>6, <1>7 DEF w

\* The closed form for one more cycle is one cycle of the ideal timer.
LEMMA ClosedStep ==
  ASSUME T!TypeOK, period >= Frac, counter <= target, NEW n \in Nat, NEW t \in BOOLEAN
  PROVE  Cycles!Cycle(ClosedForm(n, t), Conf) = ClosedForm(n + 1, t)
<1> DEFINE s == ClosedForm(n, t)
           a == T!Count(n)
           over == s.counter = Wrap - 1
           hit == s.counter = target
<1>1. /\ s.counter = Wrapped(a) /\ s.phase = (T!Elapsed(n) % period)
      /\ s.target_reached = (t \/ T!TargetPassed(n))
      /\ s.overflow_reached = (overflow_reached \/ T!Overflow(n))
  BY Zenon DEF ClosedForm
<1>2. Conf.target = target /\ Conf.target_wrap = target_wrap /\ Conf.period = period
  BY Zenon DEF Conf
<1>3. /\ a \in Nat
      /\ IF s.phase + Frac < period
           THEN /\ T!Count(n + 1) = a
                /\ (T!Elapsed(n + 1) % period) = s.phase + Frac
           ELSE /\ T!Count(n + 1) = a + 1
                /\ (T!Elapsed(n + 1) % period) = s.phase + Frac - period
  BY <1>1, OneCycle, Zenon
<1>4. CASE s.phase + Frac < period
  <2>1. Cycles!Cycle(s, Conf) = [s EXCEPT !.phase = s.phase + Frac]
    BY <1>2, <1>4, Zenon DEF Cycles!Cycle
  <2>2. T!TargetPassed(n + 1) = T!TargetPassed(n) /\ T!Overflow(n + 1) = T!Overflow(n)
    BY <1>3, <1>4, Zenon DEF T!TargetPassed, T!Overflow
  <2>3. T!Count(n + 1) = a /\ (T!Elapsed(n + 1) % period) = s.phase + Frac
    BY <1>3, <1>4, Zenon
  <2>4. ClosedForm(n + 1, t) =
          [counter |-> Wrapped(a), phase |-> s.phase + Frac,
           target_reached |-> t \/ T!TargetPassed(n),
           overflow_reached |-> overflow_reached \/ T!Overflow(n)]
    BY <2>2, <2>3, Zenon DEF ClosedForm
  <2>5. [s EXCEPT !.phase = s.phase + Frac] =
          [counter |-> Wrapped(a), phase |-> s.phase + Frac,
           target_reached |-> t \/ T!TargetPassed(n),
           overflow_reached |-> overflow_reached \/ T!Overflow(n)]
    <3> DEFINE x == s.phase + Frac
               cc == Wrapped(a)
               pp == T!Elapsed(n) % period
               tr == t \/ T!TargetPassed(n)
               ov == overflow_reached \/ T!Overflow(n)
    <3>1. s = [counter |-> cc, phase |-> pp, target_reached |-> tr, overflow_reached |-> ov]
      BY Zenon DEF ClosedForm
    <3> HIDE DEF s, x, cc, pp, tr, ov
    <3>2. [s EXCEPT !.phase = x] =
            [counter |-> cc, phase |-> x, target_reached |-> tr, overflow_reached |-> ov]
      BY <3>1
    <3> QED BY <3>2, Zenon DEF x, cc, tr, ov
  <2> QED BY <2>1, <2>4, <2>5, Zenon
<1>5. CASE ~(s.phase + Frac < period)
  <2>1. Cycles!Cycle(s, Conf) =
          [counter |-> IF over \/ (hit /\ target_wrap) THEN 0 ELSE s.counter + 1,
           phase |-> s.phase + Frac - period,
           target_reached |-> s.target_reached \/ hit,
           overflow_reached |-> s.overflow_reached \/ over]
    BY <1>2, <1>5, Zenon DEF Cycles!Cycle
  <2>2. /\ Wrapped(a + 1) = IF over \/ (hit /\ target_wrap) THEN 0 ELSE s.counter + 1
        /\ a + 1 > target <=> a > target \/ hit
        /\ (a + 1 >= T!WrapValue /\ T!WrapValue = Wrap) <=>
              (a >= T!WrapValue /\ T!WrapValue = Wrap) \/ over
    BY <1>1, <1>3, ClosedTick, Zenon
  <2>3. T!Count(n + 1) = a + 1 /\ (T!Elapsed(n + 1) % period) = s.phase + Frac - period
    BY <1>3, <1>5, Zenon
  <2>4. (t \/ T!TargetPassed(n + 1)) = ((t \/ T!TargetPassed(n)) \/ hit)
    BY <2>2, <2>3, Zenon DEF T!TargetPassed
  <2>5. (overflow_reached \/ T!Overflow(n + 1))
          = ((overflow_reached \/ T!Overflow(n)) \/ over)
    BY <2>2, <2>3, Zenon DEF T!Overflow
  <2>6. ClosedForm(n + 1, t) =
          [counter |-> Wrapped(a + 1), phase |-> s.phase + Frac - period,
           target_reached |-> t \/ T!TargetPassed(n + 1),
           overflow_reached |-> overflow_reached \/ T!Overflow(n + 1)]
    BY <2>3, Zenon DEF ClosedForm
  <2> HIDE DEF s, over, hit
  <2> QED BY <1>1, <2>1, <2>2, <2>4, <2>5, <2>6, Zenon DEF s
<1> QED BY <1>4, <1>5, Zenon

\* For no cycle it is the timer itself.
LEMMA ClosedStart ==
  ASSUME T!TypeOK, counter <= target, NEW t \in BOOLEAN
  PROVE  ClosedForm(0, t) = Start(t) /\ ~T!TargetPassed(0)
<1>1. /\ period \in Nat \ {0} /\ phase \in 0 .. period - 1 /\ counter \in 0 .. Wrap - 1
      /\ target \in 0 .. Wrap - 1 /\ Wrap \in Nat \ {0} /\ Frac \in Nat
  BY SystemAssumption, Zenon DEF T!TypeOK, T!Values
<1>2. T!Elapsed(0) = phase
  BY <1>1 DEF T!Elapsed
<1>3. phase \div period = 0 /\ phase % period = phase
  <2>1. phase = 0 * period + phase /\ phase \in Nat
    BY <1>1
  <2> QED BY <1>1, <2>1, Quotient
<1>4. T!Count(0) = counter
  BY <1>1, <1>2, <1>3 DEF T!Count
<1>5. T!WrapValue \in Nat /\ T!WrapValue > target
  BY <1>1 DEF T!WrapValue
<1>6. Wrapped(T!Count(0)) = counter /\ ~T!TargetPassed(0) /\ ~T!Overflow(0)
  BY <1>1, <1>4, <1>5 DEF Wrapped, T!TargetPassed, T!Overflow
<1>7. (t \/ T!TargetPassed(0)) = t /\ (overflow_reached \/ T!Overflow(0)) = overflow_reached
  BY <1>6, Zenon DEF T!TypeOK
<1> QED BY <1>2, <1>3, <1>6, <1>7, Zenon DEF ClosedForm, Start

(***************************************************************************)
(* The closed form of Timer::sync is what the ideal timer does in n single *)
(* cycles, for every n, whenever the counter starts at or below the target *)
(* and a period is not shorter than a CPU cycle.                           *)
(***************************************************************************)
LEMMA ClosedFormLemma ==
  ASSUME T!TypeOK, period >= Frac, counter <= target, NEW t \in BOOLEAN
  PROVE  \A n \in Nat : Cycles!After(n, Start(t), Conf) = ClosedForm(n, t)
<1> DEFINE S == {n \in Nat : Cycles!After(n, Start(t), Conf) = ClosedForm(n, t)}
<1>1. 0 \in S
  BY AfterZero, ClosedStart, Zenon
<1>2. ASSUME NEW n \in Nat, n \in S PROVE n + 1 \in S
  <2>1. Cycles!After(n + 1, Start(t), Conf)
          = Cycles!Cycle(Cycles!After(n, Start(t), Conf), Conf)
    BY AfterNext, Zenon
  <2> QED BY <1>2, <2>1, ClosedStep
<1> HIDE DEF S
<1>3. Nat \subseteq S
  BY <1>1, <1>2, SetInduction, Zenon
<1> QED BY <1>3, Zenon DEF S

-----------------------------------------------------------------------------
\* Above the target, the counter goes round before it reaches it.
Round(a) == IF a >= Wrap THEN a - Wrap ELSE a

\* The timer after n cycles, as long as it has not come to the target.
RoundForm(n) ==
  [counter |-> Round(T!Count(n)), phase |-> T!Elapsed(n) % period,
   target_reached |-> FALSE,
   overflow_reached |-> overflow_reached \/ T!Count(n) >= Wrap]

\* One more count.
LEMMA RoundTick ==
  ASSUME T!TypeOK, counter > target, NEW a \in Nat, a >= counter, a < Wrap + target
  PROVE  /\ Round(a) # target
         /\ Round(a + 1) = IF Round(a) = Wrap - 1 THEN 0 ELSE Round(a) + 1
         /\ a + 1 >= Wrap <=> a >= Wrap \/ Round(a) = Wrap - 1
<1>1. target \in 0 .. Wrap - 1 /\ Wrap \in Nat \ {0} /\ counter \in Nat
  BY SystemAssumption DEF T!TypeOK, T!Values
<1> QED BY <1>1 DEF Round

\* One more cycle.
LEMMA RoundStep ==
  ASSUME T!TypeOK, period >= Frac, counter > target, NEW n \in Nat,
         T!Count(n + 1) <= Wrap + target
  PROVE  Cycles!Cycle(RoundForm(n), Conf) = RoundForm(n + 1) /\ T!Count(n) <= Wrap + target
<1> DEFINE s == RoundForm(n)
           a == T!Count(n)
           over == s.counter = Wrap - 1
           hit == s.counter = target
<1>1. /\ s.counter = Round(a) /\ s.phase = T!Elapsed(n) % period
      /\ s.target_reached = FALSE
      /\ s.overflow_reached = (overflow_reached \/ a >= Wrap)
  BY Zenon DEF RoundForm
<1>2. Conf.target = target /\ Conf.target_wrap = target_wrap /\ Conf.period = period
  BY Zenon DEF Conf
<1>3. /\ a \in Nat /\ T!Elapsed(n) \in Nat
      /\ IF s.phase + Frac < period
           THEN /\ T!Count(n + 1) = a
                /\ T!Elapsed(n + 1) % period = s.phase + Frac
           ELSE /\ T!Count(n + 1) = a + 1
                /\ T!Elapsed(n + 1) % period = s.phase + Frac - period
  BY <1>1, OneCycle, Zenon
<1>0. /\ target \in 0 .. Wrap - 1 /\ Wrap \in Nat \ {0} /\ counter \in Nat
      /\ period \in Nat \ {0}
  BY SystemAssumption DEF T!TypeOK, T!Values
<1>6. a >= counter
  BY <1>0, <1>3, QuotientRemainder DEF T!Count
<1>7. a <= Wrap + target
  <2> DEFINE b == T!Count(n + 1)
  <2>1. (b = a \/ b = a + 1) /\ b <= Wrap + target
    BY <1>3, Zenon
  <2> HIDE DEF a, b
  <2> QED BY <1>0, <1>3, <2>1
<1>4. CASE s.phase + Frac < period
  <2>1. Cycles!Cycle(s, Conf) = [s EXCEPT !.phase = s.phase + Frac]
    BY <1>2, <1>4, Zenon DEF Cycles!Cycle
  <2>3. T!Count(n + 1) = a /\ T!Elapsed(n + 1) % period = s.phase + Frac
    BY <1>3, <1>4, Zenon
  <2>4. RoundForm(n + 1) =
          [counter |-> Round(a), phase |-> s.phase + Frac, target_reached |-> FALSE,
           overflow_reached |-> overflow_reached \/ a >= Wrap]
    BY <2>3, Zenon DEF RoundForm
  <2>5. [s EXCEPT !.phase = s.phase + Frac] =
          [counter |-> Round(a), phase |-> s.phase + Frac, target_reached |-> FALSE,
           overflow_reached |-> overflow_reached \/ a >= Wrap]
    <3> DEFINE x == s.phase + Frac
               cc == Round(a)
               pp == T!Elapsed(n) % period
               tr == FALSE
               ov == overflow_reached \/ a >= Wrap
    <3>1. s = [counter |-> cc, phase |-> pp, target_reached |-> tr, overflow_reached |-> ov]
      BY Zenon DEF RoundForm
    <3> HIDE DEF s, x, cc, pp, tr, ov
    <3>2. [s EXCEPT !.phase = x] =
            [counter |-> cc, phase |-> x, target_reached |-> tr, overflow_reached |-> ov]
      BY <3>1
    <3> QED BY <3>2, Zenon DEF x, cc, tr, ov
  <2> QED BY <1>7, <2>1, <2>4, <2>5, Zenon
<1>5. CASE ~(s.phase + Frac < period)
  <2>1. Cycles!Cycle(s, Conf) =
          [counter |-> IF over \/ (hit /\ target_wrap) THEN 0 ELSE s.counter + 1,
           phase |-> s.phase + Frac - period,
           target_reached |-> s.target_reached \/ hit,
           overflow_reached |-> s.overflow_reached \/ over]
    BY <1>2, <1>5, Zenon DEF Cycles!Cycle
  <2>3. T!Count(n + 1) = a + 1 /\ T!Elapsed(n + 1) % period = s.phase + Frac - period
    BY <1>3, <1>5, Zenon
  <2>7. a < Wrap + target
    <3> DEFINE b == T!Count(n + 1)
    <3>1. b = a + 1 /\ b <= Wrap + target
      BY <2>3, Zenon
    <3> HIDE DEF a, b
    <3> QED BY <1>0, <1>3, <3>1
  <2>2. /\ ~hit
        /\ Round(a + 1) = IF over THEN 0 ELSE s.counter + 1
        /\ a + 1 >= Wrap <=> a >= Wrap \/ over
    BY <1>1, <1>3, <1>6, <2>7, RoundTick, Zenon
  <2>5. (overflow_reached \/ a + 1 >= Wrap) = ((overflow_reached \/ a >= Wrap) \/ over)
    BY <2>2, Zenon
  <2>6. RoundForm(n + 1) =
          [counter |-> Round(a + 1), phase |-> s.phase + Frac - period,
           target_reached |-> FALSE,
           overflow_reached |-> overflow_reached \/ a + 1 >= Wrap]
    BY <2>3, Zenon DEF RoundForm
  <2>8. (IF over \/ (hit /\ target_wrap) THEN 0 ELSE s.counter + 1) = Round(a + 1)
    BY <2>2, Zenon
  <2>9. (s.target_reached \/ hit) = FALSE
    BY <1>1, <2>2, Zenon
  <2> HIDE DEF s, over, hit, a
  <2>10. Cycles!Cycle(s, Conf) = RoundForm(n + 1)
    BY <1>1, <2>1, <2>5, <2>6, <2>8, <2>9, Zenon
  <2> QED BY <1>7, <2>10, Zenon DEF s, a
<1> QED BY <1>4, <1>5, Zenon

\* Above the target the ideal timer goes round and does not pass the target
\* before it is there.
LEMMA RoundLemma ==
  ASSUME T!TypeOK, period >= Frac, counter > target
  PROVE  \A n \in Nat : T!Count(n) <= Wrap + target =>
            Cycles!After(n, Start(FALSE), Conf) = RoundForm(n)
<1> DEFINE S == {n \in Nat : T!Count(n) <= Wrap + target =>
                              Cycles!After(n, Start(FALSE), Conf) = RoundForm(n)}
<1>1. 0 \in S
  <2>1. /\ period \in Nat \ {0} /\ phase \in 0 .. period - 1 /\ counter \in 0 .. Wrap - 1
        /\ Wrap \in Nat \ {0} /\ Frac \in Nat
    BY SystemAssumption, Zenon DEF T!TypeOK, T!Values
  <2>2. T!Elapsed(0) = phase
    BY <2>1 DEF T!Elapsed
  <2>3. phase \div period = 0 /\ phase % period = phase
    <3>1. phase = 0 * period + phase /\ phase \in Nat
      BY <2>1
    <3> QED BY <2>1, <3>1, Quotient
  <2>4. T!Count(0) = counter
    BY <2>1, <2>2, <2>3 DEF T!Count
  <2>5. Round(T!Count(0)) = counter /\ ~(T!Count(0) >= Wrap)
    BY <2>1, <2>4 DEF Round
  <2>6. (overflow_reached \/ T!Count(0) >= Wrap) = overflow_reached
    BY <2>5, Zenon DEF T!TypeOK
  <2>7. RoundForm(0) = Start(FALSE)
    BY <2>2, <2>3, <2>5, <2>6, Zenon DEF RoundForm, Start
  <2> QED BY <2>7, AfterZero, Zenon
<1>2. ASSUME NEW n \in Nat, n \in S PROVE n + 1 \in S
  <2>1. Cycles!After(n + 1, Start(FALSE), Conf)
          = Cycles!Cycle(Cycles!After(n, Start(FALSE), Conf), Conf)
    BY AfterNext, Zenon
  <2>2. T!Count(n + 1) <= Wrap + target =>
          Cycles!After(n + 1, Start(FALSE), Conf) = RoundForm(n + 1)
    BY <1>2, <2>1, RoundStep, Zenon
  <2>3. n + 1 \in Nat
    OBVIOUS
  <2> QED BY <2>2, <2>3, Zenon
<1> HIDE DEF S
<1>3. Nat \subseteq S
  BY <1>1, <1>2, SetInduction, Zenon
<1> QED BY <1>3, Zenon DEF S

\* No cycle before the predicted one passes the target.
LEMMA PassedLemma ==
  ASSUME T!TypeOK, period >= Frac, target_irq, NEW e \in Nat,
         e < T!Predict(counter, target, target_irq, period, phase)
  PROVE  ~PassedTarget(e)
<1>1. [T!Now EXCEPT !.target_reached = FALSE] = Start(FALSE)
  <2> DEFINE f == FALSE
  <2> HIDE DEF f
  <2>1. [T!Now EXCEPT !.target_reached = f] = Start(f)
    BY DEF T!Now, Start
  <2> QED BY <2>1, Zenon DEF f
<1>2. CASE counter <= target
  <2>1. Cycles!After(e, Start(FALSE), Conf) = ClosedForm(e, FALSE)
    BY <1>2, ClosedFormLemma, Zenon
  <2>2. ClosedForm(e, FALSE).target_reached = T!TargetPassed(e)
    BY Zenon DEF ClosedForm, T!TargetPassed
  <2>3. ~T!TargetPassed(e)
    BY PredictLemma, Zenon
  <2> QED BY <1>1, <2>1, <2>2, <2>3, Zenon DEF PassedTarget
<1>3. CASE counter > target
  <2> DEFINE k == Wrap - counter + target
  <2>1. /\ counter \in 0 .. Wrap - 1 /\ target \in 0 .. Wrap - 1
        /\ Wrap \in Nat \ {0} /\ period \in Nat \ {0}
    BY SystemAssumption, Zenon DEF T!TypeOK, T!Values
  <2>2. k \in Nat \ {0} /\ (Wrap - 1 - counter + target) + 1 = k
    BY <2>1
  <2>3. e < (period * k - phase + Frac - 1) \div Frac
    BY <1>3, <2>1, <2>2 DEF T!Predict
  <2> HIDE DEF k
  <2>4. T!Elapsed(e) \div period < k
    BY <2>2, <2>3, TicksBefore, Zenon
  <2>5. T!Elapsed(e) \div period \in Nat
    BY <2>1, OneCycle, QuotientRemainder, Zenon
  <2>6. T!Count(e) <= Wrap + target
    <3> DEFINE d == T!Elapsed(e) \div period
    <3>1. d \in Nat /\ d < Wrap - counter + target /\ T!Count(e) = counter + d
      BY <2>4, <2>5, Zenon DEF T!Count, k
    <3> HIDE DEF d
    <3> QED BY <2>1, <3>1
  <2>7. Cycles!After(e, Start(FALSE), Conf).target_reached = FALSE
    <3>1. Cycles!After(e, Start(FALSE), Conf) = RoundForm(e)
      BY <1>3, <2>6, RoundLemma, Zenon
    <3>2. RoundForm(e).target_reached = FALSE
      BY Zenon DEF RoundForm
    <3> QED BY <3>1, <3>2, Zenon
  <2> QED BY <1>1, <2>7, Zenon DEF PassedTarget
<1> QED BY <1>2, <1>3 DEF T!TypeOK, T!Values

-----------------------------------------------------------------------------
\* HSync is not faster than the CPU.
LongPeriod == period >= Frac
\* A tame program keeps the counter at or below the target, except during its
\* first instruction, where no cycle is left to count.
Below == tame => counter <= target \/ (~target_wrap /\ Elapsed = 0 /\ now > 0)
\* What a tame program is owed is in the interrupt controller or will be with
\* the next synchronisation.
Pledged == tame /\ owed => istat \/ (target_irq /\ T!TargetPassed(Elapsed))

\* Three of the four kinds of steps, as the timer sees them: it is left alone,
\* its interrupt is acknowledged, or it is synchronised and written to; the
\* fourth is Execute.
TimerStands == UNCHANGED <<timer, owed, tame, now>> /\ Elapsed' = Elapsed
TimerAcked == T!Ack /\ ~owed' /\ UNCHANGED <<tame, now>> /\ Elapsed' = Elapsed
TimerSynced == /\ Elapsed' = 0 /\ UNCHANGED <<owed, tame, now>>
               /\ \/ T!Sync(Elapsed) \/ T!ReadMode(Elapsed)
                  \/ T!video_timings_changed(Elapsed)
                  \/ \E v \in T!Values : T!SetCounter(Elapsed, v) /\ (tame => v <= target)
                  \/ \E v \in T!Values : T!SetTarget(Elapsed, v) /\ (tame => v >= counter')
                  \/ \E w, i \in BOOLEAN, c \in T!Clocks :
                       T!SetMode(Elapsed, w, i, c) /\ (tame => w)

\* After a synchronisation nothing has elapsed.
LEMMA SheetSynced ==
  ASSUME IInv, SyncPeripheral("timer", now), now' = now
  PROVE  Elapsed' = 0
<1>1. /\ "timer" \in Peripherals /\ now \in now .. MaxNow /\ now \in Nat
      /\ TypeOK /\ CacheIsEarliest
  BY SystemAssumption, TimeKeeperAssumption DEF IInv, TypeOK
<1>2. timesheets'["timer"].last_sync = now
  BY <1>1, SyncPeripheralLemma, Zenon
<1> QED BY <1>1, <1>2 DEF Elapsed

\* The timer is not ahead of the CPU.
LEMMA ElapsedType ==
  IInv => Elapsed \in Nat /\ now \in Nat /\ timesheets["timer"].last_sync \in Nat
  BY SystemAssumption DEF Elapsed, TypeOK, IInv

\* Every step is of one of the four kinds.
LEMMA Kinds ==
  ASSUME IInv, [SystemNext]_systemVars
  PROVE  \/ TimerStands \/ TimerAcked \/ TimerSynced
         \/ \E n \in Ticks : Execute(n)
<1>1. /\ "timer" \in Peripherals /\ "gpu" \in Peripherals /\ "gpu" # "timer"
      /\ now \in now .. MaxNow /\ TypeOK /\ CacheIsEarliest
  BY SystemAssumption, TimeKeeperAssumption DEF IInv, TypeOK
<1>2. CASE Loop
  BY <1>2, Zenon DEF Loop, TimerLeft, Check, UpdateSyncPending, Retire,
     TimerStands, Elapsed
<1>3. CASE SyncGpu \/ AccessGpu
  <2>1. /\ UNCHANGED <<timer, owed, tame>> /\ timesheets'["timer"] = timesheets["timer"]
        /\ now' = now
    BY <1>1, <1>3, SyncPeripheralLemma, Zenon DEF SyncGpu, SyncOne, AccessGpu,
       Access, TimerLeft
  <2> QED BY <2>1, Zenon DEF TimerStands, Elapsed
<1>4. CASE SyncTimer
  <2>1. CASE NeedsSync("timer")
    BY <1>4, <2>1, SheetSynced, Zenon DEF SyncTimer, SyncOne, TimerSynced
  <2>2. CASE ~NeedsSync("timer")
    BY <1>4, <2>2, Zenon DEF SyncTimer, SyncOne, TimerStands, Elapsed
  <2> QED BY <2>1, <2>2, Zenon
<1>5. CASE LoadCounter \/ LoadMode
  BY <1>5, SheetSynced, Zenon DEF LoadCounter, LoadMode, Access, TimerSynced
<1>6. CASE VideoTimingsChanged
  BY <1>6, SheetSynced, Zenon DEF VideoTimingsChanged, Store, Access,
     TimerSynced
<1>7. CASE AckTimer
  BY <1>7, Zenon DEF AckTimer, Retire, TimerAcked, Elapsed
<1>8. ASSUME NEW v \in T!Values, StoreCounter(v) PROVE TimerSynced
  BY <1>8, SheetSynced, Zenon DEF StoreCounter, Store, Access, TimerSynced
<1>9. ASSUME NEW v \in T!Values, StoreTarget(v) PROVE TimerSynced
  BY <1>9, SheetSynced, Zenon DEF StoreTarget, Store, Access, TimerSynced
<1>10. ASSUME NEW w \in BOOLEAN, NEW i \in BOOLEAN, NEW c \in T!Clocks,
              StoreMode(w, i, c)
       PROVE  TimerSynced
  BY <1>10, SheetSynced, Zenon DEF StoreMode, Store, Access, TimerSynced
<1>11. CASE UNCHANGED systemVars
  BY <1>11, Zenon DEF systemVars, vars, TimerStands, Elapsed
<1> QED
  BY <1>2, <1>3, <1>4, <1>5, <1>6, <1>7, <1>8, <1>9, <1>10, <1>11, Zenon DEF
     SystemNext

\* An instruction lets its cycles elapse for the timer.
LEMMA ExecuteElapsed ==
  ASSUME IInv, NEW n \in Ticks, Execute(n)
  PROVE  /\ Elapsed' = Elapsed + n /\ UNCHANGED timer /\ n \in Nat \ {0}
         /\ now' = now + n /\ tame' = tame /\ pc = "run"
<1>1. n \in Nat \ {0}
  BY SystemAssumption, TimeKeeperAssumption, Zenon
<1>2. timesheets' = timesheets /\ now' = now + n
  BY Zenon DEF Execute, Tick
<1> QED BY <1>1, <1>2, ElapsedType DEF Execute, Elapsed, Tick

\* No clock is faster than the CPU.
LEMMA SettingsLong ==
  ASSUME NEW c \in T!Clocks, NEW s \in T!ClockSettings(c)
  PROVE  s[1] \in Nat /\ s[1] >= Frac
<1>1. CASE c = "SysClock"
  BY <1>1, SystemAssumption DEF T!ClockSettings
<1>2. CASE c = "SysClockDiv8"
  <2>1. Divider * Frac \in Nat /\ Divider * Frac >= Frac
    BY SystemAssumption
  <2>2. s = <<Divider * Frac, 0>>
    BY <1>2, Zenon DEF T!ClockSettings
  <2> QED BY <2>1, <2>2, Zenon
<1>3. CASE c = "GpuHSync"
  BY <1>3, SystemAssumption, Zenon DEF T!ClockSettings
<1> QED BY <1>1, <1>2, <1>3, Zenon DEF T!Clocks

\* Every clock reconfigure chooses has a long enough period.
LEMMA LongLemma ==
  ASSUME IInv, T!TypeOK, T!TypeOK', LongPeriod, [SystemNext]_systemVars
  PROVE  LongPeriod'
<1>1. CASE period' = period
  BY <1>1, Zenon DEF LongPeriod
<1>2. ASSUME NEW e, T!Reconfigure(e) PROVE LongPeriod'
  <2>1. PICK s \in T!ClockSettings(clock') : period' = s[1]
    BY <1>2, Zenon DEF T!Reconfigure
  <2>2. clock' \in T!Clocks
    BY Zenon DEF T!TypeOK
  <2> QED BY <2>1, <2>2, SettingsLong, Zenon DEF LongPeriod
<1>3. CASE TimerStands \/ TimerAcked \/ \E n \in Ticks : Execute(n)
  BY <1>1, <1>3, Zenon DEF TimerStands, TimerAcked, T!Ack, T!conf, Execute,
     timer
<1>4. CASE TimerSynced
  BY <1>1, <1>2, <1>4, Zenon DEF TimerSynced, T!Sync, T!ReadMode, T!conf,
     T!SetCounter, T!SetTarget, T!SetMode, T!video_timings_changed
<1> QED BY <1>3, <1>4, Kinds, Zenon

\* A counter that wraps at the target stays below it.
LEMMA SyncedBelow ==
  ASSUME T!TypeOK, NEW e \in Nat, counter <= target, target_wrap
  PROVE  T!Synced(e).counter <= target
<1>1. target \in 0 .. Wrap - 1 /\ Wrap \in Nat \ {0}
  BY SystemAssumption, Zenon DEF T!TypeOK, T!Values
<1>2. T!WrapValue = target + 1
  BY Zenon DEF T!WrapValue
<1>3. T!Count(e) \in Nat
  <2>1. T!Elapsed(e) \in Nat
    <3>1. e * Frac \in Nat
      BY SystemAssumption
    <3> QED BY <3>1 DEF T!Elapsed, T!TypeOK
  <2> QED BY <2>1, QuotientRemainder DEF T!Count, T!TypeOK, T!Values
<1>4. T!Count(e) % (target + 1) \in 0 .. target
  BY <1>1, <1>3
<1>5. CASE e = 0
  BY <1>5, Zenon DEF T!Synced, T!Now
<1>6. CASE e # 0
  BY <1>1, <1>2, <1>3, <1>4, <1>6 DEF T!Synced
<1> QED BY <1>5, <1>6, Zenon

\* Tame programs stay at or below the target.
LEMMA BelowLemma ==
  ASSUME IInv, T!TypeOK, T!TypeOK', Below, [SystemNext]_systemVars
  PROVE  Below'
<1> SUFFICES ASSUME tame'
             PROVE  (counter <= target \/ (~target_wrap /\ Elapsed = 0 /\ now > 0))'
  BY Zenon DEF Below
<1>0. /\ Elapsed \in Nat /\ now \in Nat /\ counter \in Nat /\ target \in Nat
      /\ Elapsed <= now
  BY ElapsedType DEF T!TypeOK, T!Values, Elapsed
<1>1. CASE TimerStands
  BY <1>1, Zenon DEF TimerStands, Below, timer
<1>2. CASE TimerAcked
  BY <1>2, Zenon DEF TimerAcked, Below, T!Ack, T!conf
<1>3. ASSUME NEW n \in Ticks, Execute(n) PROVE counter' <= target'
  <2>1. tame /\ UNCHANGED timer /\ (target_wrap \/ now = 0)
    BY <1>3, Zenon DEF Execute
  <2>2. counter <= target
    BY <1>0, <2>1 DEF Below
  <2> QED BY <2>1, <2>2, Zenon DEF timer
<1>4. CASE TimerSynced
  <2>1. Elapsed' = 0 /\ now' = now /\ tame
    BY <1>4, Zenon DEF TimerSynced
  <2>2. ASSUME counter' = T!Synced(Elapsed).counter, UNCHANGED <<target, target_wrap>>
        PROVE  (counter <= target \/ (~target_wrap /\ Elapsed = 0 /\ now > 0))'
    <3>1. CASE Elapsed = 0
      <4>1. counter' = counter
        BY <2>2, <3>1, Zenon DEF T!Synced, T!Now
      <4> QED BY <2>1, <2>2, <3>1, <4>1, Zenon DEF Below
    <3>2. CASE Elapsed # 0
      <4>1. counter <= target
        BY <2>1, <3>2, Zenon DEF Below
      <4>2. CASE target_wrap
        BY <1>0, <2>2, <4>1, <4>2, SyncedBelow, Zenon
      <4>3. CASE ~target_wrap
        <5>1. now' > 0
          BY <1>0, <2>1, <3>2
        <5> QED BY <2>1, <2>2, <4>3, <5>1, Zenon
      <4> QED BY <4>2, <4>3, Zenon
    <3> QED BY <3>1, <3>2, Zenon
  <2>3. CASE T!Sync(Elapsed) \/ T!ReadMode(Elapsed) \/ T!video_timings_changed(Elapsed)
    BY <2>2, <2>3, Zenon DEF T!Sync, T!ReadMode, T!video_timings_changed,
       T!conf
  <2>4. ASSUME NEW v \in T!Values, T!SetCounter(Elapsed, v), v <= target
        PROVE  counter' <= target'
    BY <2>4, Zenon DEF T!SetCounter
  <2>5. ASSUME NEW v \in T!Values, T!SetTarget(Elapsed, v), v >= counter'
        PROVE  counter' <= target'
    <3>1. target' = v /\ v \in Nat /\ counter' \in Nat
      BY <2>5 DEF T!SetTarget, T!TypeOK, T!Values
    <3> QED BY <2>5, <3>1, Zenon
  <2>6. ASSUME NEW w \in BOOLEAN, NEW i \in BOOLEAN, NEW c \in T!Clocks,
               T!SetMode(Elapsed, w, i, c)
        PROVE  counter' <= target'
    BY <1>0, <2>6 DEF T!SetMode
  <2> QED BY <1>4, <2>1, <2>3, <2>4, <2>5, <2>6, Zenon DEF TimerSynced
<1> QED BY <1>1, <1>2, <1>3, <1>4, Kinds, Zenon

-----------------------------------------------------------------------------
\* The closed form of Timer::sync is the timer brought forward cycle by cycle.
LEMMA SyncedIsAfter ==
  ASSUME T!TypeOK, LongPeriod, NEW e \in Nat, counter <= target \/ e = 0
  PROVE  Cycles!After(e, T!Now, Conf) = T!Synced(e)
<1>1. CASE e = 0
  BY <1>1, AfterZero, Zenon DEF T!Synced
<1>2. CASE e # 0
  <2>1. target_reached \in BOOLEAN /\ T!Now = Start(target_reached)
    BY Zenon DEF T!TypeOK, T!Now, Start
  <2>2. Cycles!After(e, Start(target_reached), Conf) = ClosedForm(e, target_reached)
    BY <1>2, <2>1, ClosedFormLemma, Zenon DEF LongPeriod
  <2>3. T!Synced(e) = ClosedForm(e, target_reached)
    BY <1>2, Zenon DEF T!Synced, ClosedForm, Wrapped
  <2> QED BY <2>1, <2>2, <2>3, Zenon
<1> QED BY <1>1, <1>2, Zenon

\* For a tame program, what passes the target cycle by cycle passes it in the
\* closed form.
LEMMA PassedIsPassed ==
  ASSUME T!TypeOK, LongPeriod, NEW e \in Nat, counter <= target
  PROVE  PassedTarget(e) <=> T!TargetPassed(e)
<1>1. [T!Now EXCEPT !.target_reached = FALSE] = Start(FALSE)
  <2> DEFINE f == FALSE
  <2> HIDE DEF f
  <2>1. [T!Now EXCEPT !.target_reached = f] = Start(f)
    BY DEF T!Now, Start
  <2> QED BY <2>1, Zenon DEF f
<1>2. Cycles!After(e, Start(FALSE), Conf) = ClosedForm(e, FALSE)
  BY ClosedFormLemma, Zenon DEF LongPeriod
<1>3. ClosedForm(e, FALSE).target_reached = T!TargetPassed(e)
  BY Zenon DEF ClosedForm, T!TargetPassed
<1> QED BY <1>1, <1>2, <1>3, Zenon DEF PassedTarget

\* No interrupt that is owed gets lost, whichever operation synchronises the
\* timer.
LEMMA PledgedLemma ==
  ASSUME IInv, T!TypeOK, LongPeriod, Below, TargetAhead, Pledged, [SystemNext]_systemVars
  PROVE  Pledged'
<1> SUFFICES ASSUME tame', owed'
             PROVE  istat' \/ (target_irq /\ T!TargetPassed(Elapsed))'
  BY Zenon DEF Pledged
<1>0. Elapsed \in Nat
  BY ElapsedType, Zenon
<1>1. CASE TimerStands
  <2>1. (target_irq /\ T!TargetPassed(Elapsed))' = (target_irq /\ T!TargetPassed(Elapsed))
    BY <1>1, Zenon DEF TimerStands, timer, T!TargetPassed, T!Count, T!Elapsed
  <2>2. istat' = istat /\ tame /\ owed
    BY <1>1, Zenon DEF TimerStands, timer
  <2> QED BY <2>1, <2>2, Zenon DEF Pledged
<1>2. CASE TimerAcked
  BY <1>2, Zenon DEF TimerAcked
<1>3. ASSUME NEW n \in Ticks, Execute(n)
      PROVE  istat' \/ (target_irq /\ T!TargetPassed(Elapsed))'
  <2>1. /\ Elapsed' = Elapsed + n /\ UNCHANGED timer /\ n \in Nat \ {0}
        /\ tame /\ pc = "run" /\ Elapsed + n \in Nat
    <3>1. /\ Elapsed' = Elapsed + n /\ UNCHANGED timer /\ n \in Nat \ {0}
          /\ tame' = tame /\ pc = "run"
      BY <1>3, ExecuteElapsed, Zenon
    <3> QED BY <1>0, <3>1
  <2>2. CASE owed
    <3>1. ~(target_irq /\ T!TargetPassed(Elapsed))
      BY <2>1, Zenon DEF TargetAhead
    <3> QED BY <2>1, <2>2, <3>1, Zenon DEF Pledged, timer
  <2>3. CASE ~owed
    <3>1. target_irq /\ PassedTarget(Elapsed + n)
      BY <1>3, <2>3, Zenon DEF Execute
    <3>2. counter <= target
      <4>1. target_wrap \/ now = 0
        BY <1>3, <2>1, Zenon DEF Execute
      <4> QED BY <2>1, <4>1, ElapsedType DEF Below
    <3>3. T!TargetPassed(Elapsed + n)
      BY <2>1, <3>1, <3>2, PassedIsPassed, Zenon
    <3>4. (target_irq /\ T!TargetPassed(Elapsed))'
            = (target_irq /\ T!TargetPassed(Elapsed + n))
      BY <2>1, Zenon DEF timer, T!TargetPassed, T!Count, T!Elapsed
    <3> QED BY <3>1, <3>3, <3>4, Zenon
  <2> QED BY <2>2, <2>3, Zenon
<1>4. CASE TimerSynced
  <2>1. T!SyncIrq(Elapsed) /\ tame /\ owed
    BY <1>4, Zenon DEF TimerSynced, T!Sync, T!ReadMode, T!SetCounter,
       T!SetTarget, T!SetMode, T!video_timings_changed
  <2>2. istat \/ (target_irq /\ T!TargetPassed(Elapsed))
    BY <2>1, Zenon DEF Pledged
  <2>3. CASE istat
    BY <2>1, <2>3, Zenon DEF T!SyncIrq
  <2>4. CASE target_irq /\ T!TargetPassed(Elapsed)
    <3>1. Elapsed # 0
      <4> SUFFICES ASSUME Elapsed = 0 PROVE FALSE
        BY Zenon
      <4>1. counter <= target /\ T!TargetPassed(0)
        BY <2>4, Zenon DEF T!TargetPassed
      <4>2. TRUE \in BOOLEAN
        BY Zenon
      <4> QED BY <4>1, <4>2, ClosedStart, Zenon
    <3>2. Elapsed > 0 /\ T!Raised(Elapsed)
      BY <1>0, <2>4, <3>1 DEF T!Raised
    <3> QED BY <2>1, <3>2, Zenon DEF T!SyncIrq
  <2> QED BY <2>2, <2>3, <2>4, Zenon
<1> QED BY <1>1, <1>2, <1>3, <1>4, Kinds, Zenon

(***************************************************************************)
(* The inductive invariant of the composition: the TimeKeeper's, the       *)
(* timer's types, the dates of its sheet, and what was said above of its   *)
(* period, its counter and the interrupts owed.                            *)
(***************************************************************************)
SystemInv == IInv /\ T!TypeOK /\ Scheduled /\ LongPeriod /\ Below /\ Pledged

\* When an instruction starts, the predicted cycle is still to come.
LEMMA InvAhead ==
  IInv /\ T!TypeOK /\ Scheduled =>
    (pc = "run" /\ target_irq => Elapsed \in Nat /\ Elapsed < Prediction)
<1> SUFFICES ASSUME IInv, T!TypeOK, Scheduled, pc = "run", target_irq
             PROVE  Elapsed \in Nat /\ Elapsed < Prediction
  BY Zenon
<1>1. /\ timesheets["timer"].last_sync \in Nat /\ now \in Nat /\ now < Never
      /\ timesheets["timer"].last_sync <= now
  BY SystemAssumption, TimeKeeperAssumption DEF IInv, TypeOK
<1>2. Prediction \in Nat
  BY PredictPositive, Zenon DEF Prediction, T!TypeOK
<1> QED BY <1>1, <1>2 DEF Elapsed, Scheduled

\* It holds of the initial state ...
LEMMA SystemInvInit == SystemInit => SystemInv
<1> SUFFICES ASSUME SystemInit PROVE SystemInv
  BY Zenon
<1>1. Init /\ T!Init /\ owed = FALSE
  BY Zenon DEF SystemInit
<1>2. ~target_irq /\ counter <= target /\ period = Frac
  BY <1>1 DEF T!Init
<1> QED BY <1>1, <1>2, InitInv, TimerInit, SystemAssumption
        DEF SystemInv, Scheduled, LongPeriod, Below, Pledged

\* ... and every step preserves it.
LEMMA SystemInvNext == SystemInv /\ [SystemNext]_systemVars => SystemInv'
<1> SUFFICES ASSUME SystemInv, [SystemNext]_systemVars PROVE SystemInv'
  BY Zenon
<1>1. IInv'
  BY StepIsTimeKeepers, NextInv, Zenon DEF SystemInv
<1>2. T!TypeOK'
  BY TimerTyped, Zenon DEF SystemInv, IInv
<1>3. TargetAhead
  BY InvAhead, PredictLemma, Zenon DEF SystemInv, Prediction, TargetAhead
<1> QED BY <1>1, <1>2, <1>3, ScheduledLemma, LongLemma, BelowLemma,
           PledgedLemma, Zenon DEF SystemInv

(***************************************************************************)
(* Timer::sync, predict_next_sync and the TimeKeeper together: a target    *)
(* interrupt reaches the CPU before the instruction that follows the one   *)
(* during which the counter, counted cycle by cycle, passed the target,    *)
(* for any width of the counter, any clocks, any instruction times and any *)
(* order in which the peripherals are visited.  What a tame program is     *)
(* owed is in the interrupt controller whenever an instruction starts.     *)
(***************************************************************************)
THEOREM InterruptsPunctual == SystemSpec => []InterruptPunctual
<1>1. SystemInv => InterruptPunctual
  <2> SUFFICES ASSUME SystemInv PROVE InterruptPunctual
    BY Zenon
  <2>1. T!TypeOK
    BY Zenon DEF SystemInv
  <2>2. ASSUME pc = "run", target_irq
        PROVE  ~PassedTarget(Elapsed) /\ ~T!TargetPassed(Elapsed)
    BY <2>2, InvAhead, PassedLemma, PredictLemma, Zenon DEF SystemInv,
       Prediction, LongPeriod
  <2>3. ASSUME pc = "run", tame, owed PROVE istat
    BY <2>2, <2>3, Zenon DEF SystemInv, Pledged
  <2> QED BY <2>1, <2>2, <2>3, Zenon DEF InterruptPunctual
<1> QED BY <1>1, SystemInvInit, SystemInvNext, PTL DEF SystemSpec

-----------------------------------------------------------------------------
\* The refinement mapping: the timer brought forward to the present.
Core == Cycles!After(Elapsed, T!Now, Conf)

\* The mapping of the next state.
LEMMA CorePrimed == Core' = Cycles!After(Elapsed', T!Now', Conf')
  BY Zenon DEF Core, Cycles!After, Cycles!Cycle

\* The ideal timer of the mapping advances as the one After speaks of.
LEMMA IdealAfter ==
  ASSUME NEW n \in Nat, NEW s, NEW c PROVE Ideal!After(n, s, c) = Cycles!After(n, s, c)
  BY Zenon DEF Ideal!After, Cycles!After, Ideal!Cycle, Cycles!Cycle

\* Timer::new is the ideal timer's initial state.
LEMMA IdealInit == SystemInit => Ideal!Init
<1> SUFFICES ASSUME SystemInit PROVE Ideal!Init
  BY Zenon
<1>1. Elapsed = 0
  BY SystemAssumption DEF SystemInit, Init, Elapsed
<1>2. Cycles!After(Elapsed, T!Now, Conf) = T!Now
  BY <1>1, AfterZero, Zenon
<1>3. T!Now = Ideal!NewCore /\ Conf = Ideal!NewConf
  BY Zenon DEF SystemInit, T!Init, T!Now, Conf, Ideal!NewCore, Ideal!NewConf
<1> QED BY <1>2, <1>3, Zenon DEF Ideal!Init

\* An instruction runs the ideal timer for its cycles.
LEMMA RunRefines ==
  ASSUME SystemInv, NEW n \in Ticks, Execute(n) PROVE Ideal!Run(n)
<1>1. /\ Elapsed' = Elapsed + n /\ UNCHANGED timer /\ n \in Nat /\ Elapsed \in Nat
  BY ExecuteElapsed, ElapsedType, Zenon DEF SystemInv
<1>2. T!Now' = T!Now /\ Conf' = Conf
  BY <1>1, Zenon DEF timer, T!Now, Conf
<1>3. Core' = Cycles!After(n, Core, Conf)
  BY <1>1, <1>2, CorePrimed, AfterSum, Zenon DEF Core
<1> QED BY <1>1, <1>2, <1>3, IdealAfter, Zenon DEF Ideal!Run, Core

\* For a tame program the lazy timer, brought forward, is the ideal one.
LEMMA CoreIsSynced == SystemInv /\ tame => Core = T!Synced(Elapsed)
<1> SUFFICES ASSUME SystemInv, tame PROVE Core = T!Synced(Elapsed)
  BY Zenon
<1>1. counter <= target \/ Elapsed = 0
  BY Zenon DEF SystemInv, Below
<1> QED BY <1>1, ElapsedType, SyncedIsAfter, Zenon DEF SystemInv, Core

\* The four fields of a synchronised timer.
LEMMA SyncedRecord ==
  ASSUME NEW e
  PROVE  T!Synced(e) = [counter |-> T!Synced(e).counter, phase |-> T!Synced(e).phase,
                        target_reached |-> T!Synced(e).target_reached,
                        overflow_reached |-> T!Synced(e).overflow_reached]
<1> DEFINE c == IF T!Count(e) >= T!WrapValue THEN T!Count(e) % T!WrapValue ELSE T!Count(e)
           p == T!Elapsed(e) % period
           t == target_reached \/ T!TargetPassed(e)
           o == overflow_reached \/ T!Overflow(e)
<1>1. T!Synced(e) = IF e = 0 THEN T!Now
                    ELSE [counter |-> c, phase |-> p, target_reached |-> t,
                          overflow_reached |-> o]
  BY Zenon DEF T!Synced
<1> HIDE DEF c, p, t, o
<1> QED BY <1>1 DEF T!Now

\* After a synchronisation the timer is the ideal one.
LEMMA CoreFresh ==
  ASSUME Elapsed' = 0 PROVE Core' = T!Now'
  BY CorePrimed, AfterZero, Zenon

\* A step that leaves the timer and its sheet alone is none of the ideal
\* timer.
LEMMA CoreStands ==
  ASSUME Elapsed' = Elapsed,
         UNCHANGED <<counter, T!conf, phase, target_reached, overflow_reached>>
  PROVE  UNCHANGED Ideal!vars
<1>1. T!Now' = T!Now /\ Conf' = Conf
  BY Zenon DEF T!Now, Conf, T!conf
<1>2. Core' = Core
  BY <1>1, CorePrimed, Zenon DEF Core
<1> QED BY <1>1, <1>2, Zenon DEF Ideal!vars, Core

\* Nor is a synchronisation.
LEMMA SyncRefines ==
  ASSUME SystemInv, tame, Elapsed' = 0, T!Sync(Elapsed) PROVE UNCHANGED Ideal!vars
<1>1. T!Now' = T!Synced(Elapsed)
  BY SyncedRecord, Zenon DEF T!Sync, T!Now
<1>2. Conf' = Conf
  BY Zenon DEF T!Sync, T!conf, Conf
<1>3. Core' = Core
  BY <1>1, CoreFresh, CoreIsSynced, Zenon
<1> QED BY <1>2, <1>3, Zenon DEF Ideal!vars, Core

\* A read of the mode register resets the flags of the ideal timer.
LEMMA ReadModeRefines ==
  ASSUME SystemInv, tame, Elapsed' = 0, T!ReadMode(Elapsed) PROVE Ideal!ReadMode
<1> DEFINE f == FALSE
           c == T!Synced(Elapsed).counter
           p == T!Synced(Elapsed).phase
           t == T!Synced(Elapsed).target_reached
           o == T!Synced(Elapsed).overflow_reached
<1>1. Core = [counter |-> c, phase |-> p, target_reached |-> t, overflow_reached |-> o]
  BY CoreIsSynced, SyncedRecord, Zenon
<1>2. T!Now' = [counter |-> c, phase |-> p, target_reached |-> f, overflow_reached |-> f]
  BY Zenon DEF T!ReadMode, T!Now
<1> HIDE DEF c, p, t, o, f
<1>3. [Core EXCEPT !.target_reached = f, !.overflow_reached = f] =
        [counter |-> c, phase |-> p, target_reached |-> f, overflow_reached |-> f]
  <2> DEFINE q == [Core EXCEPT !.target_reached = f]
  <2>1. q = [counter |-> c, phase |-> p, target_reached |-> f, overflow_reached |-> o]
    BY <1>1
  <2>2. [Core EXCEPT !.target_reached = f, !.overflow_reached = f]
          = [q EXCEPT !.overflow_reached = f]
    BY Zenon
  <2> HIDE DEF q
  <2> QED BY <2>1, <2>2
<1>4. Core' = [Core EXCEPT !.target_reached = f, !.overflow_reached = f]
  BY <1>2, <1>3, CoreFresh, Zenon
<1>5. Conf' = Conf
  BY Zenon DEF T!ReadMode, T!conf, Conf
<1> QED BY <1>4, <1>5, Zenon DEF Ideal!ReadMode, Core, f

\* The end of Timers::store, after any setter, restarts the ideal timer.
LEMMA RestartRefines ==
  ASSUME SystemInv, tame, Elapsed' = 0, T!Reconfigure(Elapsed), NEW k, counter' = k,
         NEW cf, cf = [target |-> target', target_wrap |-> target_wrap',
                       target_irq |-> target_irq', clock |-> clock', period |-> period]
  PROVE  Ideal!Restart(cf, k)
<1> DEFINE c == T!Synced(Elapsed).counter
           p == T!Synced(Elapsed).phase
           t == T!Synced(Elapsed).target_reached
           o == T!Synced(Elapsed).overflow_reached
<1>0. PICK s \in T!ClockSettings(clock') : period' = s[1] /\ phase' = s[2]
  BY Zenon DEF T!Reconfigure
<1>1. Core = [counter |-> c, phase |-> p, target_reached |-> t, overflow_reached |-> o]
  BY CoreIsSynced, SyncedRecord, Zenon
<1>2. T!Now' = [counter |-> k, phase |-> s[2], target_reached |-> t, overflow_reached |-> o]
  BY <1>0, Zenon DEF T!Reconfigure, T!Now
<1> HIDE DEF c, p, t, o
<1>3. Core' = [Core EXCEPT !.counter = k, !.phase = s[2]]
  <2> DEFINE q == [Core EXCEPT !.counter = k]
  <2>1. q = [counter |-> k, phase |-> p, target_reached |-> t, overflow_reached |-> o]
    BY <1>1
  <2>2. [Core EXCEPT !.counter = k, !.phase = s[2]] = [q EXCEPT !.phase = s[2]]
    BY Zenon
  <2> HIDE DEF q
  <2> QED BY <1>2, <2>1, <2>2, CoreFresh
<1>4. Conf' = [cf EXCEPT !.period = s[1]]
  BY <1>0 DEF Conf
<1>5. cf.clock = clock'
  BY Zenon
<1> QED BY <1>0, <1>3, <1>4, <1>5, Zenon DEF Ideal!Restart, Core

\* A store synchronises the timer.
LEMMA StoreSynced ==
  ASSUME SystemInv, Store PROVE Elapsed' = 0
  BY SheetSynced, Zenon DEF SystemInv, Store, Access

\* The write of the counter.
LEMMA StoreCounterRefines ==
  ASSUME SystemInv, tame, NEW v \in T!Values, StoreCounter(v) PROVE Ideal!SetCounter(v)
<1>1. /\ Elapsed' = 0 /\ counter' = v /\ T!Reconfigure(Elapsed)
      /\ UNCHANGED <<target, target_wrap, target_irq, clock>>
  BY StoreSynced, Zenon DEF StoreCounter, T!SetCounter
<1>2. Conf = [target |-> target', target_wrap |-> target_wrap',
              target_irq |-> target_irq', clock |-> clock', period |-> period]
  BY <1>1, Zenon DEF Conf
<1> QED BY <1>1, <1>2, RestartRefines, Zenon DEF Ideal!SetCounter

\* The write of the target.
LEMMA StoreTargetRefines ==
  ASSUME SystemInv, tame, NEW v \in T!Values, StoreTarget(v) PROVE Ideal!SetTarget(v)
<1>1. /\ Elapsed' = 0 /\ counter' = T!Synced(Elapsed).counter /\ T!Reconfigure(Elapsed)
      /\ target' = v /\ UNCHANGED <<target_wrap, target_irq, clock>>
  BY StoreSynced, Zenon DEF StoreTarget, T!SetTarget
<1>2. [Conf EXCEPT !.target = v] =
        [target |-> target', target_wrap |-> target_wrap',
         target_irq |-> target_irq', clock |-> clock', period |-> period]
  BY <1>1 DEF Conf
<1>3. counter' = Core.counter
  BY <1>1, CoreIsSynced, Zenon
<1>4. Ideal!Restart([Conf EXCEPT !.target = v], Core.counter)
  BY <1>1, <1>2, <1>3, RestartRefines, Zenon
<1> QED BY <1>4, Zenon DEF Ideal!SetTarget, Core

\* The write of the mode.
LEMMA StoreModeRefines ==
  ASSUME SystemInv, tame, NEW w \in BOOLEAN, NEW i \in BOOLEAN, NEW c \in T!Clocks,
         StoreMode(w, i, c)
  PROVE  Ideal!SetMode(w, i, c)
<1>1. /\ Elapsed' = 0 /\ counter' = 0 /\ T!Reconfigure(Elapsed) /\ target' = target
      /\ target_wrap' = w /\ target_irq' = i /\ clock' = c
  BY StoreSynced, Zenon DEF StoreMode, T!SetMode
<1> DEFINE a == [Conf EXCEPT !.target_wrap = w]
           b == [a EXCEPT !.target_irq = i]
<1>2. [Conf EXCEPT !.target_wrap = w, !.target_irq = i, !.clock = c]
        = [b EXCEPT !.clock = c]
  BY Zenon
<1>3. a = [target |-> target, target_wrap |-> w, target_irq |-> target_irq,
           clock |-> clock, period |-> period]
  BY DEF Conf
<1> HIDE DEF a
<1>4. b = [target |-> target, target_wrap |-> w, target_irq |-> i,
           clock |-> clock, period |-> period]
  BY <1>3
<1> HIDE DEF b
<1>5. [b EXCEPT !.clock = c] =
        [target |-> target', target_wrap |-> target_wrap',
         target_irq |-> target_irq', clock |-> clock', period |-> period]
  BY <1>1, <1>4
<1>6. Ideal!Restart([b EXCEPT !.clock = c], 0)
  BY <1>1, <1>5, RestartRefines, Zenon
<1> QED BY <1>2, <1>6, Zenon DEF Ideal!SetMode

\* The change of the video timings.
LEMMA TimingsRefine ==
  ASSUME SystemInv, tame, VideoTimingsChanged PROVE Ideal!VideoTimingsChanged
<1>1. /\ Elapsed' = 0 /\ counter' = T!Synced(Elapsed).counter /\ T!Reconfigure(Elapsed)
      /\ UNCHANGED <<target, target_wrap, target_irq, clock>>
  BY StoreSynced, Zenon DEF VideoTimingsChanged, T!video_timings_changed
<1>2. Conf = [target |-> target', target_wrap |-> target_wrap',
              target_irq |-> target_irq', clock |-> clock', period |-> period]
  BY <1>1, Zenon DEF Conf
<1>3. counter' = Core.counter
  BY <1>1, CoreIsSynced, Zenon
<1>4. Ideal!Restart(Conf, Core.counter)
  BY <1>1, <1>2, <1>3, RestartRefines, Zenon
<1> QED BY <1>4, Zenon DEF Ideal!VideoTimingsChanged, Core

\* The main loop, the synchronisations, the GPU, an acknowledgement and a load
\* of the counter change nothing the ideal timer shows.
LEMMA EmulatorRefines ==
  ASSUME SystemInv, tame,
         Loop \/ SyncGpu \/ SyncTimer \/ AccessGpu \/ AckTimer \/ LoadCounter
  PROVE  UNCHANGED Ideal!vars
<1>1. /\ "timer" \in Peripherals /\ "gpu" \in Peripherals /\ "gpu" # "timer"
      /\ now \in now .. MaxNow /\ TypeOK /\ CacheIsEarliest /\ IInv
  BY SystemAssumption, TimeKeeperAssumption DEF SystemInv, IInv, TypeOK
<1>2. CASE Loop
  BY <1>2, CoreStands, Zenon DEF Loop, TimerLeft, timer, Check,
     UpdateSyncPending, Retire, Elapsed, T!conf
<1>3. CASE SyncGpu \/ AccessGpu
  <2>1. /\ UNCHANGED timer /\ timesheets'["timer"] = timesheets["timer"] /\ now' = now
    BY <1>1, <1>3, SyncPeripheralLemma, Zenon DEF SyncGpu, SyncOne, AccessGpu,
       Access, TimerLeft
  <2> QED BY <2>1, CoreStands, Zenon DEF timer, Elapsed, T!conf
<1>4. CASE SyncTimer
  <2>1. CASE NeedsSync("timer")
    BY <1>1, <1>4, <2>1, SheetSynced, SyncRefines, Zenon DEF SyncTimer,
       SyncOne
  <2>2. CASE ~NeedsSync("timer")
    BY <1>4, <2>2, CoreStands, Zenon DEF SyncTimer, SyncOne, timer, Elapsed,
       T!conf
  <2> QED BY <2>1, <2>2, Zenon
<1>5. CASE AckTimer
  BY <1>5, CoreStands, Zenon DEF AckTimer, Retire, T!Ack, Elapsed
<1>6. CASE LoadCounter
  BY <1>1, <1>6, SheetSynced, SyncRefines, Zenon DEF LoadCounter, Access
<1> QED BY <1>2, <1>3, <1>4, <1>5, <1>6, Zenon

\* Each step of a tame program is the ideal timer's step.
LEMMA StepRefines == SystemInv => (tame => Implements)
<1> SUFFICES ASSUME SystemInv, tame PROVE Implements
  BY Zenon
<1>1. LoadMode => Ideal!ReadMode
  <2> SUFFICES ASSUME LoadMode PROVE Ideal!ReadMode
    BY Zenon
  <2>1. Elapsed' = 0 /\ T!ReadMode(Elapsed)
    BY SheetSynced, Zenon DEF LoadMode, Access, SystemInv
  <2> QED BY <2>1, ReadModeRefines, Zenon
<1> QED
  BY <1>1, RunRefines, EmulatorRefines, StoreCounterRefines,
     StoreTargetRefines, StoreModeRefines, TimingsRefine, Zenon DEF Implements

(***************************************************************************)
(* Refinement: a program that keeps the counter at or below the target     *)
(* cannot tell the lazily synchronised timer of src/memory/timers.rs,      *)
(* brought forward over all elapsed cycles at once, from one that is       *)
(* emulated cycle by cycle, for every width, clock and instruction time,   *)
(* and however often it is synchronised.                                   *)
(***************************************************************************)
THEOREM TimerRefinesIdeal == SystemSpec => RefinesIdeal
<1>1. SystemInit => (tame => Ideal!Init)
  BY IdealInit, Zenon
<1>2. SystemInv /\ [SystemNext]_systemVars => [tame => Implements]_systemVars
  BY StepRefines, Zenon
<1> QED BY <1>1, <1>2, SystemInvInit, SystemInvNext, PTL DEF SystemSpec, RefinesIdeal
=============================================================================

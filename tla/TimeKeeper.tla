----------------------------- MODULE TimeKeeper -----------------------------
(***************************************************************************)
(* The lazy synchronisation of src/timekeeper.rs, with its use by the CPU  *)
(* (Cpu::run_next_instruction) and by Interconnect::sync.  Every           *)
(* peripheral has a time sheet with the date up to which it has been       *)
(* emulated and the date by which it asked to be called; the TimeKeeper    *)
(* caches the earliest of these dates in its own next_sync.                *)
(*                                                                         *)
(* `pc' is the point of run_next_instruction: "check" tests sync_pending,  *)
(* "sync" goes through the peripherals, "run" starts an instruction and    *)
(* "access" is where it has ticked and may access peripherals.  What a     *)
(* peripheral asks for when it is synchronised is any date.                *)
(***************************************************************************)
EXTENDS Integers, FiniteSets

CONSTANTS
  Peripherals, \* the peripherals with a time sheet
  Deltas,      \* delays a peripheral may ask for
  Ticks,       \* numbers of cycles an instruction may take
  MaxNow,      \* bound: date at which the model stops
  Never        \* Cycles::max_value()

ASSUME TimeKeeperAssumption ==
  /\ IsFiniteSet(Peripherals) /\ Peripherals # {}
  /\ Deltas \subseteq Nat /\ Ticks \subseteq Nat
  /\ MaxNow \in Nat
  /\ Never \in Nat /\ MaxNow < Never
  /\ \A d \in Deltas : MaxNow + d < Never

VARIABLES now, next_sync, timesheets, pc, todo, slice

vars == <<now, next_sync, timesheets, pc, todo, slice>>

\* The type invariant; no peripheral is emulated ahead of the CPU, so the
\* subtraction of TimeSheet::sync does not underflow.
TypeOK ==
  /\ now \in 0 .. MaxNow /\ next_sync \in 0 .. Never
  /\ timesheets \in [Peripherals -> [last_sync : Nat, next_sync : 0 .. Never]]
  /\ \A p \in Peripherals : timesheets[p].last_sync <= now
  /\ pc \in {"check", "sync", "run", "access"}
  /\ todo \subseteq Peripherals
  /\ slice \in Nat

\* Everything is synchronised before the first instruction
Init ==
  /\ now = 0 /\ next_sync = 0
  /\ timesheets = [p \in Peripherals |-> [last_sync |-> 0, next_sync |-> 0]]
  /\ pc = "check" /\ todo = {} /\ slice = 0

NeedsSync(p) == timesheets[p].next_sync <= now

\* Mutant: the cached date is not lowered
SetNextSyncSheetOnly(date) == next_sync' = next_sync

\* The second half of set_next_sync_delta
LowerNextSync(date) ==
  next_sync' = IF date < next_sync THEN date ELSE next_sync

\* TimeKeeper::sync followed by the peripheral's prediction: a date
\* (set_next_sync_delta) or none (no_sync_needed)
SyncPeripheral(p, at) ==
  \/ \E d \in Deltas :
       /\ timesheets' = [timesheets EXCEPT ![p] = [last_sync |-> at,
                                                   next_sync |-> at + d]]
       /\ LowerNextSync(at + d)
  \/ /\ timesheets' = [timesheets EXCEPT ![p] = [last_sync |-> at,
                                                 next_sync |-> Never]]
     /\ UNCHANGED next_sync

----------------------------------------------------------------------------
Check ==
  /\ pc = "check"
  /\ IF next_sync <= now THEN pc' = "sync" /\ todo' = Peripherals
                         ELSE pc' = "run" /\ UNCHANGED todo
  /\ UNCHANGED <<now, next_sync, timesheets, slice>>

\* One `if needs_sync' of Interconnect::sync
SyncOne(p) ==
  /\ pc = "sync" /\ p \in todo
  /\ todo' = todo \ {p}
  /\ IF NeedsSync(p) THEN SyncPeripheral(p, now)
                     ELSE UNCHANGED <<timesheets, next_sync>>
  /\ UNCHANGED <<now, pc, slice>>

\* Mutant: the cached date is taken from the first sheet found
UpdateSyncPendingAny ==
  /\ pc = "sync" /\ todo = {}
  /\ \E p \in Peripherals : next_sync' = timesheets[p].next_sync
  /\ pc' = "run"
  /\ UNCHANGED <<now, timesheets, todo, slice>>

UpdateSyncPending ==
  /\ pc = "sync" /\ todo = {}
  /\ \E p \in Peripherals :
       /\ \A q \in Peripherals :
            timesheets[p].next_sync <= timesheets[q].next_sync
       /\ next_sync' = timesheets[p].next_sync
  /\ pc' = "run"
  /\ UNCHANGED <<now, timesheets, todo, slice>>

\* The instruction takes n cycles ...
Tick(n) ==
  /\ pc = "run" /\ now + n <= MaxNow
  /\ now' = now + n /\ slice' = n
  /\ pc' = "access"
  /\ UNCHANGED <<next_sync, timesheets, todo>>

\* ... and may access peripherals, which synchronises them ...
Access(p) ==
  /\ pc = "access"
  /\ SyncPeripheral(p, now)
  /\ pc' \in {"access", "check"}
  /\ UNCHANGED <<now, todo, slice>>

\* ... or none
Retire ==
  /\ pc = "access" /\ pc' = "check"
  /\ UNCHANGED <<now, next_sync, timesheets, todo, slice>>

Next == \/ Check \/ UpdateSyncPending \/ Retire
        \/ \E p \in Peripherals : SyncOne(p) \/ Access(p)
        \/ \E n \in Ticks : Tick(n)

Spec == Init /\ [][Next]_vars

----------------------------------------------------------------------------
(***************************************************************************)
(* The cached date is never later than the date of a time sheet ("Next     *)
(* time a peripheral needs an update"), although every peripheral writes   *)
(* its own sheet at any moment and only one of the two places that write   *)
(* the cache looks at all the sheets.                                      *)
(***************************************************************************)
CacheIsEarliest ==
  \A p \in Peripherals : next_sync <= timesheets[p].next_sync

(***************************************************************************)
(* No deadline is missed by more than the instruction that was running     *)
(* when it passed: sync_pending is tested between any two instructions,    *)
(* and an instruction never starts with a date in the past.                *)
(***************************************************************************)
OneInstructionLate ==
  \A p \in Peripherals :
    /\ pc = "run" => timesheets[p].next_sync >= now
    /\ timesheets[p].next_sync >= now - slice
=============================================================================

----------------------------- MODULE GpuTiming ------------------------------
(***************************************************************************)
(* The video timings of src/gpu/mod.rs: the position of the beam, the      *)
(* vertical blanking interrupt, the frame counter, and the date at which   *)
(* the GPU asks to be synchronised next.                                   *)
(*                                                                         *)
(* `gpu' is the part of struct Gpu that sync reads and writes, with the    *)
(* two things sync does to the shared state: istat is the VBlank bit of    *)
(* the interrupt controller, frame the parity of the frame counter.  A CPU *)
(* cycle is Ratio / Frac GPU ticks; phase is the part of a tick, in 1/Frac, *)
(* left over by the last synchronisation.  `since' and `due' are the CPU   *)
(* cycles since that synchronisation, and those after which the next one   *)
(* is forced.                                                              *)
(***************************************************************************)
EXTENDS Integers

CONSTANTS
  Timings,     \* [vmode -> [ticks, lines]]: ticks of a line, lines of a frame
  Ratio, Frac,
  Ranges,      \* vertical ranges <<start, end>> the program sets
  ResetRange,  \* the vertical range after a reset
  MaxTick,     \* bound: CPU cycles of an instruction
  Never        \* a date that is not reached

ASSUME GpuTimingAssumption ==
  /\ \A m \in DOMAIN Timings :
       Timings[m] \in [ticks : Nat \ {0}, lines : Nat \ {0}]
  /\ {"Ntsc", "Pal"} = DOMAIN Timings
  /\ Ratio \in Nat \ {0} /\ Frac \in Nat \ {0} /\ MaxTick \in Nat \ {0}
  \* An instruction is shorter than a line, which has about 2150 cycles
  /\ \A m \in DOMAIN Timings : MaxTick * Ratio <= Timings[m].ticks * Frac
  /\ Ranges \subseteq Nat \X Nat /\ ResetRange \in Nat \X Nat /\ Never \in Nat

VARIABLES
  gpu, since, due,
  shown       \* history: the field of the last frame, "none" after a store

vars == <<gpu, since, due, shown>>

Fields == {"Top", "Bottom"}
Ticks(g) == Timings[g.vmode].ticks
Lines(g) == Timings[g.vmode].lines

(* Every field has its type and the beam never leaves the screen: after any
   store, sync (236-299) brings display_line and display_line_tick back
   inside the timings of the new video mode. *)
TypeOK ==
  /\ gpu \in [line : Nat, tick : Nat, phase : 0 .. Frac - 1,
              vmode : DOMAIN Timings, start : Nat, end : Nat,
              interlaced : BOOLEAN, field : Fields,
              vblank : BOOLEAN, istat : BOOLEAN, frame : {0, 1}]
  /\ gpu.line <= Lines(gpu) /\ gpu.tick < Ticks(gpu)
  /\ since \in Nat /\ due \in Nat /\ shown \in Fields \cup {"none"}

----------------------------------------------------------------------------
\* sync

InVBlank(g) == g.line < g.start \/ g.line >= g.end

OtherField(f) == IF f = "Top" THEN "Bottom" ELSE "Top"

\* Mutant: the field misses a frame that ends with line 0
AdvanceFieldLate(g, n) ==
  LET time == g.phase + n * Ratio
      ticks == g.tick + time \div Frac
      line == g.line + ticks \div Ticks(g)
      new == line > Lines(g)
  IN [g EXCEPT !.phase = time % Frac,
               !.tick = ticks % Ticks(g),
               !.line = IF new THEN line % Lines(g) ELSE line,
               !.field = IF line > Lines(g) + 1 /\ g.interlaced
                         THEN OtherField(@) ELSE @]

\* The beam n cycles later
Advance(g, n) ==
  LET time == g.phase + n * Ratio
      ticks == g.tick + time \div Frac
      line == g.line + ticks \div Ticks(g)
      new == line > Lines(g)
      odd == (line \div Lines(g)) % 2 = 1
  IN [g EXCEPT !.phase = time % Frac,
               !.tick = ticks % Ticks(g),
               !.line = IF new THEN line % Lines(g) ELSE line,
               !.field = IF new /\ g.interlaced /\ odd
                         THEN OtherField(@) ELSE @]

\* Mutant: vblank_interrupt is updated before it is compared
EdgesSwapped(g) ==
  LET new == [g EXCEPT !.vblank = InVBlank(g)]
  IN [new EXCEPT !.istat = @ \/ (~new.vblank /\ InVBlank(g)),
                 !.frame = IF new.vblank /\ ~InVBlank(g) THEN 1 - @ ELSE @]

\* The two edges of the vertical blanking
Edges(g) ==
  LET blank == InVBlank(g)
  IN [g EXCEPT !.istat = @ \/ (~g.vblank /\ blank),
               !.frame = IF g.vblank /\ ~blank THEN 1 - @ ELSE @,
               !.vblank = blank]

Sync(g, n) == Edges(Advance(g, n))

----------------------------------------------------------------------------
\* predict_next_sync

\* Mutant of LinesAhead: without the "various -1"
LinesAheadNoMinusOne(g) ==
  CASE g.line >= g.end -> (Lines(g) - g.line) + g.start
    [] g.line < g.end /\ g.line < g.start -> g.start - g.line
    [] OTHER -> g.end - g.line

\* Whole lines between the next line and the next edge of the blanking
LinesAhead(g) ==
  CASE g.line >= g.end -> (Lines(g) - g.line) + (g.start - 1)
    [] g.line < g.end /\ g.line < g.start -> g.start - 1 - g.line
    [] OTHER -> g.end - 1 - g.line

\* The date, in unsigned arithmetic: a negative one is never reached
Predict(g) ==
  LET delta == (Ticks(g) - g.tick + LinesAhead(g) * Ticks(g)) * Frac - g.phase
  IN IF delta < 0 THEN Never ELSE (delta + Ratio - 1) \div Ratio

----------------------------------------------------------------------------
Init ==
  /\ \E r \in Ranges :
       gpu = [line |-> 0, tick |-> 0, phase |-> 0, vmode |-> "Ntsc",
              start |-> r[1], end |-> r[2], interlaced |-> FALSE,
              field |-> "Top", vblank |-> FALSE, istat |-> FALSE, frame |-> 0]
  /\ since = 0 /\ due = 0 /\ shown = "none"

\* An instruction of n cycles; a pending synchronisation comes first
Tick(n) ==
  /\ since < due /\ since + n < Never
  /\ since' = since + n
  /\ UNCHANGED <<gpu, due, shown>>

\* A sync that changes no setting
SyncNow ==
  /\ gpu' = Sync(gpu, since)
  /\ since' = 0 /\ due' = Predict(gpu')
  /\ shown' = IF gpu'.frame # gpu.frame THEN gpu'.field ELSE shown

\* Forced before the next instruction once the date is reached
ForcedSync == since >= due /\ due # Never /\ SyncNow

\* A load, or a store that does not change the timings
Access == since < due /\ SyncNow

\* A GP1 store: store syncs, the command leaves the registers of g and syncs
\* again
Store(g) ==
  /\ since < due
  /\ gpu' = Sync(g, 0)
  /\ since' = 0 /\ due' = Predict(gpu') /\ shown' = "none"

\* GP1(0x07)
gp1_display_vertical_range(r) ==
  Store([Sync(gpu, since) EXCEPT !.start = r[1], !.end = r[2]])

\* GP1(0x08)
gp1_display_mode(m, i) ==
  Store([Sync(gpu, since) EXCEPT !.vmode = m, !.interlaced = i,
                                 !.field = "Top"])

\* GP1(0x00): the fractional phase is kept
gp1_reset ==
  Store([Sync(gpu, since) EXCEPT
           !.vmode = "Ntsc", !.interlaced = TRUE, !.field = "Top",
           !.line = 0, !.tick = 0,
           !.start = ResetRange[1], !.end = ResetRange[2]])

\* The program acknowledges the interrupt in the interrupt controller
AckVBlank ==
  /\ gpu.istat /\ since < due
  /\ gpu' = [gpu EXCEPT !.istat = FALSE]
  /\ UNCHANGED <<since, due, shown>>

Run == (\E n \in 1 .. MaxTick : Tick(n)) \/ ForcedSync

\* The program reads registers and draws, and leaves the video mode alone
Watch == Run \/ Access \/ AckVBlank

----------------------------------------------------------------------------
(* The forced synchronisation is neither late nor early: between two
   synchronisations no edge of the vertical blanking goes by, so an interrupt
   is not lost or late however long the CPU stays away, and at the predicted
   date there is an edge ("make sure we're never triggered too early", 347).
   It relates predict_next_sync to what sync would compute at every cycle,
   whatever store changed the mode or the range in between; and the beam is
   inside the timings of the mode. *)
PredictionExact ==
  /\ TypeOK
  /\ due > 0 =>
       /\ \A n \in 0 .. due - 1 : Sync(gpu, n).vblank = gpu.vblank
       /\ Sync(gpu, due).vblank # gpu.vblank
=============================================================================

-------------------------------- MODULE Isa ---------------------------------
(***************************************************************************)
(* What a program sees of the CPU: its instructions take effect one after  *)
(* the other, a taken branch together with the instruction in its delay    *)
(* slot, and nothing else happens.  There are no interrupts, no kernel and *)
(* no loads in flight.  An instruction that traps is stepped over.         *)
(***************************************************************************)
EXTENDS Mips

VARIABLES code, pc, regs, lo, gte, cell

vars == <<code, pc, regs, lo, gte, cell>>

State == [pc |-> pc, regs |-> regs, lo |-> lo, gte |-> gte, cell |-> cell]

Set(s, r, v) == IF r = 0 THEN s ELSE [s EXCEPT !.regs[r] = v]

\* What the instruction i at address a does to everything but the pc
Effect(s, i, a) ==
  LET x == s.regs[i.s]
      y == s.regs[i.t]
      word == IF Misaligned(x + i.imm) THEN y ELSE s.cell
  IN CASE i.op = "alu"  -> Set(s, i.d, Compute(x, y))
       [] i.op = "alui" -> Set(s, i.t, Compute(x, i.imm))
       [] i.op = "add"  -> IF Overflows(x, y) THEN s ELSE Set(s, i.d, x + y)
       [] i.op = "mtlo" -> [s EXCEPT !.lo = x]
       [] i.op = "mflo" -> Set(s, i.d, s.lo)
       [] i.op = "lw"   -> Set(s, i.t, word)
       [] i.op = "lwl"  -> Set(s, i.t, Merge(y, s.cell))
       [] i.op = "mfc2" -> Set(s, i.t, s.gte)
       [] i.op = "mtc2" -> [s EXCEPT !.gte = y]
       [] i.op = "gte"  -> [s EXCEPT !.gte = Compute(@, 0)]
       [] i.op = "sw"   -> IF Misaligned(x + i.imm) THEN s
                           ELSE [s EXCEPT !.cell = y]
       [] i.op \in {"bal", "jal"} -> Set(s, Link, a + 8)
       [] i.op = "jalr" -> Set(s, i.d, a + 8)
       [] OTHER -> s

Taken(s, i) ==
  i.op \in {"beq", "bal"} => s.regs[i.s] = s.regs[i.t]

Target(s, i, a) ==
  IF i.op \in {"jr", "jalr"} THEN s.regs[i.s] ELSE i.imm

Step(s) ==
  LET i == code[s.pc]
      after == Effect(s, i, s.pc)
  IN IF IsBranch(i) /\ Taken(s, i)
       THEN [Effect(after, code[s.pc + 4], s.pc + 4) EXCEPT
               !.pc = Target(s, i, s.pc)]
       ELSE [after EXCEPT !.pc = s.pc + 4]

Init ==
  /\ pc = 0 /\ regs \in [0 .. 2 -> 0 .. Wrap] /\ regs[0] = 0
  /\ lo = 0 /\ gte = 0 /\ cell \in 0 .. Wrap

Next ==
  /\ State' = Step(State)
  /\ UNCHANGED code

Spec == Init /\ [][Next]_vars
=============================================================================

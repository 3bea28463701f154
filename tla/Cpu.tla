-------------------------------- MODULE Cpu ---------------------------------
(***************************************************************************)
(* The CPU of src/cpu/mod.rs with the system coprocessor of                *)
(* src/cpu/cop0.rs: the branch and load delay slots, exceptions and        *)
(* interrupts.  `cpu' is the struct Cpu.  One step is one call of          *)
(* run_next_instruction; the operators on a CPU m follow the methods that  *)
(* update self.                                                            *)
(*                                                                         *)
(* mode are the three interrupt enable bits of SR (the user mode bits move *)
(* with them and nothing reads them).  The value of SR that MTC0 writes is *)
(* a bit per word.  The interrupt masks of SR are set, and the handler is  *)
(* at one address.  cell stands for the data memory.                       *)
(*                                                                         *)
(* `done' is a history variable: what the program has computed at the last *)
(* instruction it will not run again, with the load in flight landed.      *)
(* `modes' is the stack of interrupt enables an unbounded stack would      *)
(* have, as far as it is known.  `careful' tells whether the program is    *)
(* one that respects the delay slots; `done' only follows those.           *)
(***************************************************************************)
EXTENDS Mips

CONSTANTS
  Texts,          \* programs that respect the delay slots
  InitRegs,       \* values of the registers 1 and 2 when they start
  WildTexts,      \* any programs
  WildRegs,       \* values of the registers 1 and 2 when they start
  DebugOnBreak    \* is the debugger called on BREAK?

ASSUME CpuAssumption ==
  /\ \A t \in Texts \cup WildTexts : t \in [1 .. UserWords -> Instructions]
  /\ \A t \in Texts : Respects(t)
  /\ InitRegs \subseteq [1 .. 2 -> Values]
  /\ WildRegs \subseteq [1 .. 2 -> 0 .. Wrap]
  /\ DebugOnBreak \in BOOLEAN

VARIABLES code, careful, cpu, irq, done, modes

vars == <<code, careful, cpu, irq, done, modes>>

Causes == {"None", "Interrupt", "LoadAddressError", "StoreAddressError",
           "SysCall", "Break", "IllegalInstruction", "CoprocessorError",
           "Overflow"}

Words == -4 .. 2 * Handler + 4
NoLoad == [reg |-> 0, val |-> 0]

\* The type invariant; register 0 reads as zero, whatever instruction or load
\* delay writes it
TypeOK ==
  /\ cpu.pc \in Words /\ cpu.next_pc \in Words /\ cpu.current_pc \in Words
  /\ cpu.regs \in [Regs -> Words] /\ cpu.regs[0] = 0
  /\ cpu.lo \in Words /\ cpu.gte \in Words /\ cpu.cell \in Words
  /\ cpu.load \in [reg : Regs, val : Words]
  /\ cpu.branch \in BOOLEAN /\ cpu.delay_slot \in BOOLEAN
  /\ cpu.mode \in [1 .. 3 -> BOOLEAN]
  /\ cpu.cause \in Causes /\ cpu.bd \in BOOLEAN
  /\ cpu.epc \in Words
  /\ irq \in BOOLEAN /\ careful \in BOOLEAN
  /\ Len(modes) <= 3

\* The kernel has enabled the interrupts and jumped to the program
Init ==
  /\ careful \in BOOLEAN
  /\ code \in {Image(t) : t \in IF careful THEN Texts ELSE WildTexts}
  /\ \E r \in IF careful THEN InitRegs ELSE WildRegs :
       cpu = [pc |-> 0, next_pc |-> 4, current_pc |-> 0,
              regs |-> [q \in Regs |-> IF q \in 1 .. 2 THEN r[q] ELSE 0],
              lo |-> 0, gte |-> 0, cell |-> 0, load |-> NoLoad, branch |-> FALSE,
              delay_slot |-> FALSE, mode |-> <<TRUE, FALSE, FALSE>>,
              cause |-> "None", bd |-> FALSE, epc |-> 0]
  /\ irq = FALSE
  /\ done = [pc |-> 0, regs |-> [r \in 0 .. 2 |-> cpu.regs[r]],
             lo |-> 0, gte |-> 0, cell |-> 0]
  /\ modes = <<TRUE>>

----------------------------------------------------------------------------
\* Registers and the load in flight

SetReg(m, r, v) == [m EXCEPT !.regs[r] = v, !.regs[0] = 0]

DelayedLoad(m) ==
  [SetReg(m, m.load.reg, m.load.val) EXCEPT !.load = NoLoad]

\* A load to the same register cancels the older one
DelayedLoadChain(m, r, v) ==
  [IF m.load.reg = r THEN m ELSE SetReg(m, m.load.reg, m.load.val)
     EXCEPT !.load = [reg |-> r, val |-> v]]

----------------------------------------------------------------------------
\* Exceptions

\* Mutant: EPC is the instruction in the delay slot itself
EnterExceptionInSlot(m, cause) ==
  [m EXCEPT !.mode = <<FALSE, m.mode[1], m.mode[2]>>,
            !.cause = cause, !.bd = m.delay_slot, !.epc = m.current_pc]

\* Mutant: the interrupts are masked, but the stack is not pushed
EnterExceptionFlat(m, cause) ==
  [m EXCEPT !.mode[1] = FALSE,
            !.cause = cause, !.bd = m.delay_slot,
            !.epc = IF m.delay_slot THEN m.current_pc - 4 ELSE m.current_pc]

EnterException(m, cause) ==
  [m EXCEPT !.mode = <<FALSE, m.mode[1], m.mode[2]>>,
            !.cause = cause, !.bd = m.delay_slot,
            !.epc = IF m.delay_slot THEN m.current_pc - 4 ELSE m.current_pc]

\* There is no delay slot before the handler
Exception(m, cause) ==
  [EnterException(m, cause) EXCEPT !.pc = Handler, !.next_pc = Handler + 4]

\* Mutant: the mode is not popped
ReturnStays(m) == m

\* The oldest mode is kept
ReturnFromException(m) ==
  [m EXCEPT !.mode = <<m.mode[2], m.mode[3], m.mode[3]>>]

----------------------------------------------------------------------------
\* Instructions: the inputs are read first, then the load in flight lands,
\* then the output is written

\* op_sll to op_srav, op_addu, op_subu, op_and to op_sltu
Alu(m, i) ==
  SetReg(DelayedLoad(m), i.d, Compute(m.regs[i.s], m.regs[i.t]))

\* op_addiu to op_lui
AluImmediate(m, i) ==
  SetReg(DelayedLoad(m), i.t, Compute(m.regs[i.s], i.imm))

\* op_add, op_sub, op_addi
Add(m, i) ==
  IF Overflows(m.regs[i.s], m.regs[i.t])
    THEN Exception(DelayedLoad(m), "Overflow")
    ELSE SetReg(DelayedLoad(m), i.d, m.regs[i.s] + m.regs[i.t])

\* op_mthi, op_mtlo; op_mult and op_div set both
MoveToLo(m, i) == [DelayedLoad(m) EXCEPT !.lo = m.regs[i.s]]

\* op_mfhi, op_mflo
MoveFromLo(m, i) == SetReg(DelayedLoad(m), i.d, m.lo)

\* branch: the target is taken at the end of the delay slot
BranchTo(m, target) == [m EXCEPT !.next_pc = target, !.branch = TRUE]

\* op_beq, op_bne, op_blez, op_bgtz
Beq(m, i) ==
  IF m.regs[i.s] = m.regs[i.t]
    THEN BranchTo(DelayedLoad(m), i.imm) ELSE DelayedLoad(m)

\* op_bxx with the link, which does not depend on the test
Bxx(m, i) ==
  LET linked == SetReg(DelayedLoad(m), Link, m.next_pc)
  IN IF m.regs[i.s] = m.regs[i.t] THEN BranchTo(linked, i.imm) ELSE linked

J(m, i) == BranchTo(DelayedLoad(m), i.imm)
Jal(m, i) == SetReg(J(m, i), Link, m.next_pc)

Jr(m, i) == BranchTo(DelayedLoad(m), m.regs[i.s])
Jalr(m, i) == SetReg(Jr(m, i), i.d, m.next_pc)

Trap(m, cause) == Exception(DelayedLoad(m), cause)

Break(m) == IF DebugOnBreak THEN DelayedLoad(m) ELSE Trap(m, "Break")

\* op_lb, op_lh, op_lw, op_lbu, op_lhu
Lw(m, i) ==
  IF Misaligned(m.regs[i.s] + i.imm)
    THEN Trap(m, "LoadAddressError")
    ELSE DelayedLoadChain(m, i.t, m.cell)

\* op_lwl, op_lwr: merged with the value that is being loaded
Lwl(m, i) ==
  LET cur == IF m.load.reg = i.t THEN m.load.val ELSE m.regs[i.t]
  IN DelayedLoadChain(m, i.t, Merge(cur, m.cell))

\* op_sb, op_sh, op_sw, and op_swl, op_swr which are always aligned
Sw(m, i) ==
  IF Misaligned(m.regs[i.s] + i.imm)
    THEN Trap(m, "StoreAddressError")
    ELSE [DelayedLoad(m) EXCEPT !.cell = m.regs[i.t]]

\* Register 14 (EPC)
Mfc0(m, i) == DelayedLoadChain(m, i.t, m.epc)

\* Register 12 (SR)
Mtc0(m, i) ==
  LET bits == m.regs[i.t] \div 4
  IN [DelayedLoad(m) EXCEPT
        !.mode = [k \in 1 .. 3 |-> (bits \div 2 ^ (k - 1)) % 2 = 1]]

Rfe(m) == ReturnFromException(DelayedLoad(m))

\* A GTE command does not land the load in flight
Gte(m) == [m EXCEPT !.gte = Compute(@, 0)]

\* op_mfc2, op_cfc2; op_mtc2, op_ctc2
Mfc2(m, i) == DelayedLoadChain(m, i.t, m.gte)
Mtc2(m, i) == [DelayedLoad(m) EXCEPT !.gte = m.regs[i.t]]

Lwc2(m, i) ==
  IF Misaligned(m.regs[i.s] + i.imm)
    THEN Trap(m, "LoadAddressError")
    ELSE [DelayedLoad(m) EXCEPT !.gte = m.cell]

Swc2(m, i) ==
  IF Misaligned(m.regs[i.s] + i.imm)
    THEN Trap(m, "LoadAddressError")
    ELSE [DelayedLoad(m) EXCEPT !.cell = m.gte]

\* The kernel's own decision: only an interrupted instruction is run again
Skip(m, i) ==
  SetReg(DelayedLoad(m), i.d,
         m.regs[i.s] + (IF m.cause = "Interrupt" THEN 0 ELSE 4))

DecodeAndExecute(m, i) ==
  CASE i.op = "alu"  -> Alu(m, i)
    [] i.op = "alui" -> AluImmediate(m, i)
    [] i.op = "add"  -> Add(m, i)
    [] i.op = "mtlo" -> MoveToLo(m, i)
    [] i.op = "mflo" -> MoveFromLo(m, i)
    [] i.op = "beq"  -> Beq(m, i)
    [] i.op = "bal"  -> Bxx(m, i)
    [] i.op = "j"    -> J(m, i)
    [] i.op = "jal"  -> Jal(m, i)
    [] i.op = "jr"   -> Jr(m, i)
    [] i.op = "jalr" -> Jalr(m, i)
    [] i.op = "syscall" -> Trap(m, "SysCall")
    [] i.op = "break"   -> Break(m)
    [] i.op = "illegal" -> Trap(m, "IllegalInstruction")
    [] i.op = "cop1" -> Trap(m, "CoprocessorError")
    [] i.op = "lw"   -> Lw(m, i)
    [] i.op = "lwl"  -> Lwl(m, i)
    [] i.op = "sw"   -> Sw(m, i)
    [] i.op = "ack"  -> DelayedLoad(m)
    [] i.op = "mfc0" -> Mfc0(m, i)
    [] i.op = "mtc0" -> Mtc0(m, i)
    [] i.op = "rfe"  -> Rfe(m)
    [] i.op = "gte"  -> Gte(m)
    [] i.op = "mfc2" -> Mfc2(m, i)
    [] i.op = "mtc2" -> Mtc2(m, i)
    [] i.op = "lwc2" -> Lwc2(m, i)
    [] i.op = "swc2" -> Swc2(m, i)
    [] i.op = "skip" -> Skip(m, i)

----------------------------------------------------------------------------
\* run_next_instruction

\* The opcode that is_gte_op compares with is the one of COP1
IsGteOp(i) == i.op = "cop1"

IrqActive == irq /\ cpu.mode[1]

\* The pc is moved on and the flag of the last branch becomes the one of
\* the delay slot before the instruction runs
Fetched ==
  [cpu EXCEPT !.current_pc = cpu.pc,
              !.pc = cpu.next_pc, !.next_pc = cpu.next_pc + 4,
              !.delay_slot = cpu.branch, !.branch = FALSE]

\* The instruction of the program took effect and was not a branch that
\* waits for its delay slot.  The kernel resumes a trap after it.
Commit ==
  done' = IF careful /\ cpu.pc \in UserCode /\ ~cpu'.branch
            THEN LET m == DelayedLoad(cpu') IN
                 [pc |-> IF m.pc = Handler THEN cpu.pc + 4 ELSE m.pc,
                  regs |-> [r \in 0 .. 2 |-> m.regs[r]],
                  lo |-> m.lo, gte |-> m.gte, cell |-> m.cell]
            ELSE done

\* Instructions that end in an exception
Raises(m, i) ==
  \/ i.op \in {"syscall", "illegal", "cop1"}
  \/ i.op = "break" /\ ~DebugOnBreak
  \/ i.op = "add" /\ Overflows(m.regs[i.s], m.regs[i.t])
  \/ i.op \in {"lw", "sw", "lwc2", "swc2"} /\ Misaligned(m.regs[i.s] + i.imm)

\* The entry of an exception
Push(ms) == [k \in 1 .. IF Len(ms) < 3 THEN Len(ms) + 1 ELSE 3 |->
               IF k = 1 THEN FALSE ELSE ms[k - 1]]

Execute(op) ==
  /\ ~Misaligned(cpu.pc) /\ ~IrqActive
  /\ code[cpu.pc].op = op
  /\ cpu' = DecodeAndExecute(Fetched, code[cpu.pc])
  /\ irq' = (irq /\ op # "ack")
  /\ Commit
  /\ modes' = CASE op = "rfe" -> IF modes = <<>> THEN <<>> ELSE Tail(modes)
                [] op = "mtc0" -> cpu'.mode
                [] Raises(Fetched, code[cpu.pc]) -> Push(modes)
                [] OTHER -> modes
  /\ UNCHANGED <<code, careful>>

TakeInterrupt ==
  /\ ~Misaligned(cpu.pc) /\ IrqActive
  /\ cpu' = Exception(IF IsGteOp(code[cpu.pc])
                        THEN DecodeAndExecute(Fetched, code[cpu.pc])
                        ELSE Fetched, "Interrupt")
  /\ modes' = IF IsGteOp(code[cpu.pc]) THEN Push(Push(modes)) ELSE Push(modes)
  /\ UNCHANGED <<code, careful, irq, done>>

\* Returns before the flags of the delay slot are updated
MisalignedPc ==
  /\ Misaligned(cpu.pc)
  /\ cpu' = Exception([cpu EXCEPT !.current_pc = cpu.pc], "LoadAddressError")
  /\ modes' = Push(modes)
  /\ UNCHANGED <<code, careful, irq, done>>

\* A device raises its interrupt; no device is enabled under the other
\* programs, which may have left their own code
Raise ==
  /\ careful /\ ~irq /\ irq' = TRUE
  /\ UNCHANGED <<code, careful, cpu, done, modes>>

Step == (\E op \in Ops : Execute(op)) \/ TakeInterrupt \/ MisalignedPc

Next == Step \/ Raise

Spec == Init /\ [][Next]_vars

\* The emulator never stops running instructions
FairSpec == Spec /\ WF_vars(Step)

----------------------------------------------------------------------------
\* Properties

\* Interrupts, traps and the two delay slots are invisible to a program that
\* respects them: what its instructions have computed at each point where it
\* would be resumed is what they compute one after the other.  (The load
\* delay, branch delay, EPC and the early return of an exception.)
Ideal == INSTANCE Isa WITH pc <- done.pc, regs <- done.regs, lo <- done.lo,
                           gte <- done.gte, cell <- done.cell
RefinesIsa == Ideal!Spec

\* Every exception gets back to the program, with interrupts enabled.
HandlerReturns ==
  careful /\ cpu.pc \notin UserCode ~> cpu.pc \in UserCode /\ cpu.mode[1]

\* The three modes of SR are the top of the stack that exceptions push and
\* RFE pops, through nested exceptions and writes to SR, so that a program
\* whose handler is careful runs with the interrupts it was started with; and
\* the state keeps its types.
ModeStackIsAStack ==
  /\ TypeOK
  /\ careful /\ cpu.pc \in UserCode => cpu.mode[1]
  /\ \A k \in 1 .. Len(modes) : cpu.mode[k] = modes[k]
=============================================================================

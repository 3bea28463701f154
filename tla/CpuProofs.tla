----------------------------- MODULE CpuProofs ------------------------------
(***************************************************************************)
(* The CPU runs every program that respects the delay slots as Isa says,   *)
(* whenever its interrupts come: for any length of the program, any        *)
(* programs and any values they start with.                                *)
(*                                                                         *)
(* The inductive invariant says where the CPU is (Phase): at the           *)
(* instruction `done' continues with, in the delay slot of a taken branch, *)
(* or at one of the five instructions of the handler, and what the         *)
(* registers, the load in flight, EPC and the modes are worth there.  Of   *)
(* an interrupt in a delay slot the CPU keeps the link that the branch has *)
(* already written, and runs the branch again: Seen allows for both sets   *)
(* of registers, and RerunLemma shows that the branch does not mind.       *)
(***************************************************************************)
EXTENDS Cpu, TLAPS

----------------------------------------------------------------------------
\* The operators on the record cpu

\* The record cpu, and what a program sees of it
CpuRecs ==
  [pc : Int, next_pc : Int, current_pc : 0 .. 2 * Handler + 4, regs : [Regs -> Words],
   lo : Words, gte : Words, cell : Words, load : [reg : Regs, val : Words],
   branch : BOOLEAN, delay_slot : BOOLEAN, mode : [1 .. 3 -> BOOLEAN],
   cause : Causes, bd : BOOLEAN, epc : Words]

Cpus == {m \in CpuRecs : m.regs[0] = 0}

\* The fields that control what runs next, and the others
Control(m) == <<m.pc, m.next_pc, m.current_pc, m.branch, m.delay_slot, m.mode,
                m.cause, m.bd, m.epc>>
Data(m) == <<m.lo, m.gte, m.cell>>

\* The value of a register once the load in flight has landed
Land(m, r) ==
  IF r = 0 THEN 0 ELSE IF r = m.load.reg THEN m.load.val ELSE m.regs[r]

\* What Cpu::set_reg does to a register: zero stays zero.
LEMMA SetRegLemma ==
  ASSUME NEW m \in CpuRecs, NEW r \in Regs, NEW v \in Words,
         NEW n, n = SetReg(m, r, v)
  PROVE  /\ n \in Cpus /\ Control(n) = Control(m) /\ Data(n) = Data(m)
         /\ n.load = m.load
         /\ \A q \in Regs : n.regs[q] = IF q = 0 THEN 0 ELSE IF q = r THEN v ELSE m.regs[q]
<1>1. m.regs \in [Regs -> Words] /\ 0 \in Regs /\ 0 \in Words
  BY UserWordsAssumption DEF CpuRecs, Regs, Words, Handler, Wrap
<1> DEFINE f == [[m.regs EXCEPT ![r] = v] EXCEPT ![0] = 0]
<1>2. f \in [Regs -> Words]
  BY <1>1, Zenon
<1>3. \A q \in Regs : f[q] = IF q = 0 THEN 0 ELSE IF q = r THEN v ELSE m.regs[q]
  BY <1>1, Zenon
<1>4. n = [m EXCEPT !.regs = f]
  BY <1>1, Zenon DEF SetReg, CpuRecs
<1> HIDE DEF f
<1>5. n \in CpuRecs /\ n.regs = f /\ n.load = m.load
  BY <1>2, <1>4, Zenon DEF CpuRecs
<1>6. Control(n) = Control(m) /\ Data(n) = Data(m)
  BY <1>4, Zenon DEF CpuRecs, Control, Data
<1> QED BY <1>1, <1>3, <1>5, <1>6, Zenon DEF Cpus

\* Cpu::delayed_load lands the load in flight and changes nothing else.
LEMMA DelayedLoadLemma ==
  ASSUME NEW m \in Cpus, NEW n, n = DelayedLoad(m)
  PROVE  /\ n \in Cpus /\ Control(n) = Control(m) /\ Data(n) = Data(m)
         /\ n.load = NoLoad
         /\ \A q \in Regs : n.regs[q] = Land(m, q)
<1> DEFINE k == SetReg(m, m.load.reg, m.load.val)
<1>1. m \in CpuRecs /\ m.load.reg \in Regs /\ m.load.val \in Words
  BY Zenon DEF Cpus, CpuRecs
<1>2. /\ k \in Cpus /\ Control(k) = Control(m) /\ Data(k) = Data(m)
      /\ \A q \in Regs : k.regs[q] = Land(m, q)
  BY <1>1, SetRegLemma DEF Land
<1>3. n = [k EXCEPT !.load = NoLoad]
  BY Zenon DEF DelayedLoad
<1> HIDE DEF k
<1>4. NoLoad \in [reg : Regs, val : Words]
  BY UserWordsAssumption DEF NoLoad, Regs, Words, Handler, Wrap
<1> DEFINE none == NoLoad
<1> HIDE DEF none
<1>5. /\ n \in CpuRecs /\ n.load = none /\ n.regs = k.regs /\ Control(n) = Control(k)
      /\ Data(n) = Data(k)
  BY <1>2, <1>3, <1>4, Zenon DEF Cpus, CpuRecs, Control, Data, none
<1> QED BY <1>2, <1>5, Zenon DEF Cpus, none

\* Cpu::delayed_load_chain lands the older load unless the new one replaces
\* it.
LEMMA ChainLemma ==
  ASSUME NEW m \in Cpus, NEW r \in Regs, NEW v \in Words,
         NEW n, n = DelayedLoadChain(m, r, v)
  PROVE  /\ n \in Cpus /\ Control(n) = Control(m) /\ Data(n) = Data(m)
         /\ n.load = [reg |-> r, val |-> v]
         /\ \A q \in Regs : Land(n, q) = IF q = 0 THEN 0 ELSE IF q = r THEN v ELSE Land(m, q)
<1> DEFINE k == IF m.load.reg = r THEN m ELSE SetReg(m, m.load.reg, m.load.val)
           l == [reg |-> r, val |-> v]
<1>1. m \in CpuRecs /\ m.load.reg \in Regs /\ m.load.val \in Words
  BY Zenon DEF Cpus, CpuRecs
<1>2. /\ k \in Cpus /\ Control(k) = Control(m) /\ Data(k) = Data(m)
      /\ \A q \in Regs : q # r /\ q # 0 => k.regs[q] = Land(m, q)
  <2>1. CASE m.load.reg = r
    BY <2>1, Zenon DEF Land
  <2>2. CASE m.load.reg # r
    BY <1>1, <2>2, SetRegLemma DEF Land
  <2> QED BY <2>1, <2>2, Zenon
<1>3. n = [k EXCEPT !.load = l]
  BY Zenon DEF DelayedLoadChain
<1> HIDE DEF k
<1>4. l \in [reg : Regs, val : Words] /\ l.reg = r /\ l.val = v
  BY Zenon
<1> HIDE DEF l
<1>5. /\ n \in CpuRecs /\ n.load = l /\ n.regs = k.regs /\ Control(n) = Control(k)
      /\ Data(n) = Data(k)
  BY <1>2, <1>3, <1>4, Zenon DEF Cpus, CpuRecs, Control, Data
<1>6. \A q \in Regs : Land(n, q) = IF q = 0 THEN 0 ELSE IF q = r THEN v ELSE Land(m, q)
  BY <1>2, <1>4, <1>5, Zenon DEF Land
<1> QED BY <1>2, <1>5, <1>6, Zenon DEF Cpus, l

\* What an exception does to the control.
Excepted(n, m, c) ==
  /\ n.pc = Handler /\ n.next_pc = Handler + 4 /\ n.current_pc = m.current_pc
  /\ n.branch = m.branch /\ n.delay_slot = m.delay_slot
  /\ n.mode = <<FALSE, m.mode[1], m.mode[2]>> /\ n.cause = c
  /\ n.epc = IF m.delay_slot THEN m.current_pc - 4 ELSE m.current_pc

\* Cpu::exception changes the control and no register.
LEMMA ExceptionLemma ==
  ASSUME NEW m \in Cpus, NEW c \in Causes, NEW n, n = Exception(m, c)
  PROVE  /\ n \in Cpus /\ Data(n) = Data(m) /\ n.load = m.load /\ n.regs = m.regs
         /\ Excepted(n, m, c)
<1> DEFINE f == FALSE
           mode == <<f, m.mode[1], m.mode[2]>>
           bd == m.delay_slot
           epc == IF m.delay_slot THEN m.current_pc - 4 ELSE m.current_pc
           h == Handler
           h4 == Handler + 4
<1>1. m \in CpuRecs
  BY Zenon DEF Cpus
<1>2. mode \in [1 .. 3 -> BOOLEAN]
  <2>1. f \in BOOLEAN /\ m.mode[1] \in BOOLEAN /\ m.mode[2] \in BOOLEAN
    BY <1>1 DEF CpuRecs
  <2> DEFINE a == m.mode[1]
             b == m.mode[2]
  <2> HIDE DEF a, b, f
  <2>2. <<f, a, b>> \in [1 .. 3 -> BOOLEAN]
    BY <2>1 DEF a, b
  <2> QED BY <2>2, Zenon DEF a, b
<1>3. bd \in BOOLEAN /\ epc \in Words /\ h \in Int /\ h4 \in Int
  BY <1>1, UserWordsAssumption DEF CpuRecs, Handler, Wrap, Words
<1>4. n = [m EXCEPT !.mode = mode, !.cause = c, !.bd = bd, !.epc = epc,
                    !.pc = h, !.next_pc = h4]
  <2>1. EnterException(m, c) = [m EXCEPT !.mode = mode, !.cause = c, !.bd = bd, !.epc = epc]
    BY Zenon DEF EnterException
  <2>2. n = [EnterException(m, c) EXCEPT !.pc = h, !.next_pc = h4]
    BY Zenon DEF Exception
  <2> HIDE DEF mode, bd, epc, h, h4
  <2> QED BY <2>1, <2>2, Zenon
<1> HIDE DEF mode, bd, epc, h, h4
<1>5. n \in CpuRecs
  BY <1>1, <1>2, <1>3, <1>4, Zenon DEF CpuRecs
<1>6. /\ n.mode = mode /\ n.cause = c /\ n.epc = epc /\ n.pc = h /\ n.next_pc = h4
      /\ n.current_pc = m.current_pc /\ n.regs = m.regs /\ n.load = m.load
      /\ n.branch = m.branch /\ n.delay_slot = m.delay_slot
      /\ n.lo = m.lo /\ n.gte = m.gte /\ n.cell = m.cell
  BY <1>1, <1>4 DEF CpuRecs
<1>7. n \in Cpus /\ Data(n) = Data(m)
  BY <1>5, <1>6, Zenon DEF Cpus, Data
<1> QED BY <1>6, <1>7, Zenon DEF mode, epc, h, h4, f, Excepted

\* An instruction that ends in an exception lands the load before.
LEMMA TrapLemma ==
  ASSUME NEW m \in Cpus, NEW c \in Causes, NEW n, n = Trap(m, c)
  PROVE  /\ n \in Cpus /\ Data(n) = Data(m) /\ n.load = NoLoad
         /\ \A q \in Regs : n.regs[q] = Land(m, q)
         /\ Excepted(n, m, c)
<1> DEFINE d == DelayedLoad(m)
<1>0. d = DelayedLoad(m)
  BY Zenon
<1>2. n = Exception(d, c)
  BY Zenon DEF Trap
<1> HIDE DEF d
<1>1. /\ d \in Cpus /\ Control(d) = Control(m) /\ Data(d) = Data(m)
      /\ d.load = NoLoad /\ \A q \in Regs : d.regs[q] = Land(m, q)
  BY <1>0, DelayedLoadLemma, Zenon
<1>3. /\ n \in Cpus /\ Data(n) = Data(d) /\ n.load = d.load /\ n.regs = d.regs
      /\ Excepted(n, d, c)
  BY <1>1, <1>2, ExceptionLemma, Zenon
<1>4. d.mode = m.mode /\ d.current_pc = m.current_pc /\ d.branch = m.branch
      /\ d.delay_slot = m.delay_slot
  BY <1>1, Zenon DEF Control
<1>5. Excepted(n, m, c)
  BY <1>3, <1>4, Zenon DEF Excepted
<1> QED BY <1>1, <1>3, <1>5, Zenon

\* The control after a branch that is taken
Turned(n, e, u) ==
  /\ n.branch = TRUE /\ n.next_pc = u /\ n.pc = e.pc
  /\ n.current_pc = e.current_pc /\ n.delay_slot = e.delay_slot /\ n.mode = e.mode

\* Cpu::branch changes the next pc and the flag, and no register.
LEMMA BranchLemma ==
  ASSUME NEW m \in Cpus, NEW target \in Int, NEW n, n = BranchTo(m, target)
  PROVE  /\ n \in Cpus /\ Data(n) = Data(m) /\ n.load = m.load /\ n.regs = m.regs
         /\ Turned(n, m, target)
<1> DEFINE t == TRUE
<1>1. n = [m EXCEPT !.next_pc = target, !.branch = t] /\ t \in BOOLEAN /\ m \in CpuRecs
  BY Zenon DEF BranchTo, Cpus
<1> HIDE DEF t
<1>2. /\ n \in CpuRecs /\ n.branch = t /\ n.next_pc = target /\ n.pc = m.pc
      /\ n.current_pc = m.current_pc /\ n.delay_slot = m.delay_slot
      /\ n.mode = m.mode /\ n.load = m.load /\ n.regs = m.regs
      /\ n.lo = m.lo /\ n.gte = m.gte /\ n.cell = m.cell
  BY <1>1, Zenon DEF CpuRecs
<1>3. n \in Cpus /\ Data(n) = Data(m)
  BY <1>2, Zenon DEF Cpus, Data
<1>4. Turned(n, m, target)
  BY <1>2, Zenon DEF Turned, t
<1> QED BY <1>2, <1>3, <1>4, Zenon

\* The start of run_next_instruction moves the pc on and changes no register.
LEMMA FetchedLemma ==
  ASSUME cpu \in Cpus, cpu.pc \in 0 .. 2 * Handler + 4, NEW n, n = Fetched
  PROVE  /\ n \in Cpus /\ Data(n) = Data(cpu) /\ n.load = cpu.load /\ n.regs = cpu.regs
         /\ n.branch = FALSE /\ n.next_pc = cpu.next_pc + 4 /\ n.pc = cpu.next_pc
         /\ n.current_pc = cpu.pc /\ n.delay_slot = cpu.branch
         /\ n.mode = cpu.mode /\ n.cause = cpu.cause /\ n.bd = cpu.bd /\ n.epc = cpu.epc
<1> DEFINE f == FALSE
           s == cpu.branch
           a == cpu.pc
           b == cpu.next_pc
           c == cpu.next_pc + 4
<1>1. /\ n = [cpu EXCEPT !.current_pc = a, !.pc = b, !.next_pc = c,
                         !.delay_slot = s, !.branch = f]
      /\ f \in BOOLEAN /\ cpu \in CpuRecs /\ s \in BOOLEAN /\ a \in 0 .. 2 * Handler + 4
      /\ b \in Int /\ c \in Int
  BY DEF Fetched, Cpus, CpuRecs
<1> HIDE DEF f, s, a, b, c
<1>2. /\ n \in CpuRecs /\ n.branch = f /\ n.next_pc = c /\ n.pc = b
      /\ n.current_pc = a /\ n.delay_slot = s
      /\ n.mode = cpu.mode /\ n.cause = cpu.cause /\ n.bd = cpu.bd /\ n.epc = cpu.epc
      /\ n.load = cpu.load /\ n.regs = cpu.regs
      /\ n.lo = cpu.lo /\ n.gte = cpu.gte /\ n.cell = cpu.cell
  BY <1>1, Zenon DEF CpuRecs
<1>3. n \in Cpus /\ Data(n) = Data(cpu)
  BY <1>2, Zenon DEF Cpus, Data
<1> QED BY <1>2, <1>3, Zenon DEF f, s, a, b, c

----------------------------------------------------------------------------
\* What the program sees

\* The values of a program: multiples of 4 up to the end of its text.
LEMMA ValuesLemma ==
  /\ Values \subseteq Nat /\ Values \subseteq Words /\ 0 \in Values /\ Wrap \in Values
  /\ \A v \in Values : v <= Wrap /\ v % 4 = 0
  /\ \A v \in Nat : v <= Wrap /\ v % 4 = 0 => v \in Values
<1>1. UserWords \in Nat \ {0}
  BY UserWordsAssumption, Zenon
<1>2. ASSUME NEW v \in Values PROVE v \in Nat /\ v <= Wrap /\ v % 4 = 0
  BY <1>1 DEF Values, Wrap
<1>3. ASSUME NEW v \in Nat, v <= Wrap, v % 4 = 0 PROVE v \in Values
  <2>1. PICK k \in Nat : v = 4 * k
    <3>1. v \div 4 \in Nat /\ v = 4 * (v \div 4)
      BY <1>3
    <3> QED BY <3>1, Zenon
  <2>2. k \in 0 .. UserWords
    BY <1>1, <1>3, <2>1 DEF Wrap
  <2> QED BY <2>1, <2>2, Zenon DEF Values
<1>4. 0 \in Values /\ Wrap \in Values
  BY <1>1, <1>3 DEF Values, Wrap
<1>5. ASSUME NEW v \in Values PROVE v \in Words
  BY <1>1, <1>2 DEF Words, Handler, Wrap
<1> QED BY <1>2, <1>3, <1>4, <1>5, Zenon

\* A multiple of 4 stays one modulo the length of the text.
LEMMA ModuloLemma ==
  ASSUME NEW x \in Nat, x % 4 = 0
  PROVE  x % Wrap \in Values
<1>1. UserWords \in Nat \ {0}
  BY UserWordsAssumption, Zenon
<1> DEFINE k == x \div 4
           q == k \div UserWords
           r == k % UserWords
<1>2. k \in Nat /\ x = 4 * k
  OBVIOUS
<1> HIDE DEF k
<1>3. q \in Nat /\ r \in 0 .. UserWords - 1 /\ k = q * UserWords + r
  BY <1>1, <1>2
<1> HIDE DEF q, r
<1>4. x = q * (4 * UserWords) + 4 * r
  BY <1>1, <1>2, <1>3
<1>5. 4 * r \in 0 .. (4 * UserWords) - 1
  BY <1>1, <1>3
<1> DEFINE w == 4 * UserWords
           s == 4 * r
<1>6. w \in Nat \ {0} /\ s \in 0 .. w - 1 /\ x = q * w + s
  BY <1>1, <1>4, <1>5
<1> HIDE DEF w, s
<1>7. x % w = s
  <2> DEFINE p == x \div w
             t == x % w
  <2>1. p \in Nat /\ t \in 0 .. w - 1 /\ x = p * w + t
    BY <1>6
  <2> HIDE DEF p, t
  <2>2. ASSUME NEW a \in Nat, NEW b \in Nat, NEW c \in 0 .. w - 1, NEW d \in 0 .. w - 1,
               a * w + c = b * w + d
        PROVE  ~(a < b)
    <3> SUFFICES ASSUME a < b PROVE FALSE
      BY Zenon
    <3>1. b - a - 1 \in Nat
      OBVIOUS
    <3>2. (b - a - 1) * w \in Nat /\ (b - a - 1) * w = b * w - a * w - w
          /\ b * w \in Nat /\ a * w \in Nat
      BY <1>6, <3>1
    <3> QED BY <1>6, <2>2, <3>2
  <2>3. p = q
    BY <1>3, <1>6, <2>1, <2>2
  <2>4. p * w \in Nat
    BY <1>6, <2>1
  <2>5. t = s
    BY <1>6, <2>1, <2>3, <2>4
  <2> QED BY <2>5, Zenon DEF t
<1>8. s \in Values
  BY <1>1, <1>3 DEF s, Values
<1> QED BY <1>7, <1>8, Zenon DEF w, Wrap

\* The results of the program's instructions are its values.
LEMMA ComputeLemma ==
  ASSUME NEW a \in Values, NEW b \in Values
  PROVE  /\ Compute(a, b) \in Values /\ Merge(a, b) \in Values
         /\ ~Overflows(a, b) => a + b \in Values
<1>1. a \in Nat /\ b \in Nat /\ a % 4 = 0 /\ b % 4 = 0
  BY ValuesLemma, Zenon
<1>2. a + b + 4 \in Nat /\ (a + b + 4) % 4 = 0 /\ a + b \in Nat /\ (a + b) % 4 = 0
  BY <1>1
<1>3. Wrap \in Nat
  BY ValuesLemma, Zenon
<1>4. ~Overflows(a, b) => a + b <= Wrap
  BY <1>2, <1>3 DEF Overflows
<1> QED BY <1>2, <1>4, ModuloLemma, ValuesLemma, Zenon DEF Compute, Merge

UserRegs == 0 .. 2

\* What a program computes, as the abstract specification sees it
ProgStates ==
  {s \in [pc : Int, regs : [UserRegs -> Values], lo : Values, gte : Values,
          cell : Values] : s.regs[0] = 0}

\* The processor m, with its load landed, has the registers of s
View(m, s) ==
  /\ \A q \in UserRegs : Land(m, q) = s.regs[q]
  /\ m.lo = s.lo /\ m.gte = s.gte /\ m.cell = s.cell

\* A register of the program is written.
LEMMA SetLemma ==
  ASSUME NEW s \in ProgStates, NEW r \in UserRegs, NEW v \in Values,
         NEW z, z = Ideal!Set(s, r, v)
  PROVE  /\ z \in ProgStates /\ z.pc = s.pc
         /\ z.lo = s.lo /\ z.gte = s.gte /\ z.cell = s.cell
         /\ \A q \in UserRegs : z.regs[q] = IF q = 0 THEN 0 ELSE IF q = r THEN v ELSE s.regs[q]
<1>1. s.regs \in [UserRegs -> Values] /\ s.regs[0] = 0
  BY Zenon DEF ProgStates
<1>2. CASE r = 0
  BY <1>1, <1>2, Zenon DEF Ideal!Set
<1>3. CASE r # 0
  <2> DEFINE f == [s.regs EXCEPT ![r] = v]
  <2>1. f \in [UserRegs -> Values] /\ f[0] = 0
        /\ \A q \in UserRegs : f[q] = IF q = 0 THEN 0 ELSE IF q = r THEN v ELSE s.regs[q]
    BY <1>1, <1>3 DEF UserRegs
  <2>2. z = [s EXCEPT !.regs = f]
    BY <1>3, Zenon DEF Ideal!Set, ProgStates
  <2> HIDE DEF f
  <2> QED BY <2>1, <2>2, Zenon DEF ProgStates
<1> QED BY <1>2, <1>3, Zenon

\* A register that no load is about to change is the one the program sees.
LEMMA ReadLemma ==
  ASSUME NEW m \in Cpus, NEW s \in ProgStates, View(m, s), NEW r \in UserRegs,
         m.load.reg = 0 \/ m.load.reg # r
  PROVE  m.regs[r] = s.regs[r] /\ s.regs[r] \in Values
  BY Zenon DEF Cpus, View, Land, ProgStates, UserRegs

\* An instruction that writes a register.
LEMMA WriteLemma ==
  ASSUME NEW m \in Cpus, NEW s \in ProgStates, View(m, s), NEW r \in UserRegs,
         NEW v \in Values, NEW n, n = SetReg(DelayedLoad(m), r, v)
  PROVE  /\ n \in Cpus /\ Control(n) = Control(m) /\ n.load = NoLoad
         /\ View(n, Ideal!Set(s, r, v)) /\ Ideal!Set(s, r, v) \in ProgStates
<1> DEFINE d == DelayedLoad(m)
           z == Ideal!Set(s, r, v)
<1>0. d = DelayedLoad(m) /\ n = SetReg(d, r, v) /\ z = Ideal!Set(s, r, v)
  BY Zenon
<1> HIDE DEF d, z
<1>1. /\ d \in Cpus /\ Control(d) = Control(m) /\ Data(d) = Data(m)
      /\ d.load = NoLoad /\ \A q \in Regs : d.regs[q] = Land(m, q)
  BY <1>0, DelayedLoadLemma, Zenon
<1>2. r \in Regs /\ v \in Words /\ d \in CpuRecs /\ UserRegs \subseteq Regs
  BY <1>1, ValuesLemma DEF UserRegs, Regs, Cpus
<1>3. /\ n \in Cpus /\ Control(n) = Control(d) /\ Data(n) = Data(d)
      /\ n.load = d.load
      /\ \A q \in Regs : n.regs[q] = IF q = 0 THEN 0 ELSE IF q = r THEN v ELSE d.regs[q]
  BY <1>0, <1>2, SetRegLemma
<1>4. /\ z \in ProgStates /\ z.pc = s.pc
      /\ z.lo = s.lo /\ z.gte = s.gte /\ z.cell = s.cell
      /\ \A q \in UserRegs : z.regs[q] = IF q = 0 THEN 0 ELSE IF q = r THEN v ELSE s.regs[q]
  BY <1>0, SetLemma
<1>5. n.load.reg = 0
  BY <1>1, <1>3 DEF NoLoad
<1>6. \A q \in UserRegs : Land(n, q) = z.regs[q]
  BY <1>1, <1>2, <1>3, <1>4, <1>5 DEF View, Land
<1>7. n.lo = z.lo /\ n.gte = z.gte /\ n.cell = z.cell
  BY <1>1, <1>3, <1>4, Zenon DEF Data, View
<1> QED BY <1>0, <1>1, <1>3, <1>4, <1>6, <1>7, Zenon DEF View

\* An instruction that loads a register.
LEMMA LoadLemma ==
  ASSUME NEW m \in Cpus, NEW s \in ProgStates, View(m, s), NEW r \in UserRegs,
         NEW v \in Values, NEW n, n = DelayedLoadChain(m, r, v)
  PROVE  /\ n \in Cpus /\ Control(n) = Control(m) /\ n.load.reg = r
         /\ View(n, Ideal!Set(s, r, v)) /\ Ideal!Set(s, r, v) \in ProgStates
<1> DEFINE z == Ideal!Set(s, r, v)
<1>0. z = Ideal!Set(s, r, v)
  BY Zenon
<1> HIDE DEF z
<1>2. r \in Regs /\ v \in Words /\ UserRegs \subseteq Regs
  BY ValuesLemma DEF UserRegs, Regs
<1>3. /\ n \in Cpus /\ Control(n) = Control(m) /\ Data(n) = Data(m)
      /\ n.load = [reg |-> r, val |-> v]
      /\ \A q \in Regs : Land(n, q) = IF q = 0 THEN 0 ELSE IF q = r THEN v ELSE Land(m, q)
  BY <1>2, ChainLemma
<1>4. /\ z \in ProgStates /\ z.pc = s.pc
      /\ z.lo = s.lo /\ z.gte = s.gte /\ z.cell = s.cell
      /\ \A q \in UserRegs : z.regs[q] = IF q = 0 THEN 0 ELSE IF q = r THEN v ELSE s.regs[q]
  BY <1>0, SetLemma
<1>6. \A q \in UserRegs : Land(n, q) = z.regs[q]
  BY <1>2, <1>3, <1>4, Zenon DEF View
<1>7. n.lo = z.lo /\ n.gte = z.gte /\ n.cell = z.cell
  BY <1>3, <1>4, Zenon DEF Data, View
<1> QED BY <1>0, <1>3, <1>4, <1>6, <1>7 DEF View

\* An instruction that only lands the load, or that traps.
LEMMA LandLemma ==
  ASSUME NEW m \in Cpus, NEW s \in ProgStates, View(m, s)
  PROVE  /\ DelayedLoad(m) \in Cpus /\ Control(DelayedLoad(m)) = Control(m)
         /\ DelayedLoad(m).load = NoLoad /\ View(DelayedLoad(m), s)
         /\ \A c \in Causes : LET n == Trap(m, c) IN
              n \in Cpus /\ n.load = NoLoad /\ View(n, s) /\ Excepted(n, m, c)
<1>0. NoLoad.reg = 0 /\ UserRegs \subseteq Regs
  BY DEF NoLoad, UserRegs, Regs
<1>1. ASSUME NEW d, d = DelayedLoad(m)
      PROVE  /\ d \in Cpus /\ Control(d) = Control(m) /\ d.load = NoLoad /\ View(d, s)
  <2>1. /\ d \in Cpus /\ Control(d) = Control(m) /\ Data(d) = Data(m)
        /\ d.load = NoLoad /\ \A q \in Regs : d.regs[q] = Land(m, q)
    BY <1>1, DelayedLoadLemma, Zenon
  <2>2. \A q \in UserRegs : Land(d, q) = Land(m, q)
    BY <1>0, <2>1, Zenon DEF Land
  <2> QED BY <2>1, <2>2, Zenon DEF View, Data
<1>2. ASSUME NEW c \in Causes, NEW n, n = Trap(m, c)
      PROVE  n \in Cpus /\ n.load = NoLoad /\ View(n, s) /\ Excepted(n, m, c)
  <2>1. /\ n \in Cpus /\ Data(n) = Data(m) /\ n.load = NoLoad
        /\ \A q \in Regs : n.regs[q] = Land(m, q)
        /\ Excepted(n, m, c)
    BY <1>2, TrapLemma, Zenon
  <2>2. \A q \in UserRegs : Land(n, q) = Land(m, q)
    BY <1>0, <2>1, Zenon DEF Land
  <2> QED BY <2>1, <2>2, Zenon DEF View, Data
<1> QED BY <1>1, <1>2, Zenon

----------------------------------------------------------------------------
\* One instruction

\* An instruction of a program that respects the delay slots
UserInstr(i) ==
  /\ i \in Instructions /\ i.op \in Ordinary /\ K \notin {i.s, i.t, i.d}
  /\ i.op \notin {"lw", "sw"} => i.imm \in Values

\* The load in flight, if there is one, is of a register that i does not read.
Clear(m, i) == m.load.reg = 0 \/ m.load.reg \notin Reads(i)

\* What an instruction other than a branch does: to the program what the
\* abstract specification says, and to the control nothing, unless it raises
\* an exception.
Performs(n, m, z, i) ==
  /\ n \in Cpus /\ z \in ProgStates /\ View(n, z)
  /\ n.load.reg = 0 \/ (i.op \in Loads /\ n.load.reg = i.t)
  /\ IF Raises(m, i) THEN \E c \in Causes \ {"Interrupt"} : Excepted(n, m, c)
                     ELSE Control(n) = Control(m)

\* The registers an instruction of the program names are the program's.
LEMMA OperandLemma ==
  ASSUME NEW i, UserInstr(i)
  PROVE  /\ i.s \in UserRegs /\ i.t \in UserRegs /\ i.d \in UserRegs
         /\ i.imm \in Nat
         /\ i.op \notin {"lw", "sw"} => i.imm \in Values
  BY UserWordsAssumption DEF UserInstr, Instructions, Regs, K, UserRegs, Addrs, Handler, Wrap

\* Instructions that compute a register or LO do what Isa says.
LEMMA ArithmeticLemma ==
  ASSUME NEW m \in Cpus, NEW s \in ProgStates, View(m, s), NEW i, UserInstr(i),
         Clear(m, i), NEW a, i.op \in {"alu", "alui", "mtlo", "mflo"}
  PROVE  /\ Performs(DecodeAndExecute(m, i), m, Ideal!Effect(s, i, a), i)
         /\ Ideal!Effect(s, i, a).pc = s.pc
<1> DEFINE n == DecodeAndExecute(m, i)
           z == Ideal!Effect(s, i, a)
           x == s.regs[i.s]
           y == s.regs[i.t]
<1>1. /\ i.s \in UserRegs /\ i.t \in UserRegs /\ i.d \in UserRegs /\ i.imm \in Values
      /\ x \in Values /\ y \in Values /\ s.lo \in Values /\ m.lo = s.lo
  BY OperandLemma, Zenon DEF ProgStates, View
<1>2. ~Raises(m, i)
  BY Zenon DEF Raises
<1>3. NoLoad.reg = 0
  BY Zenon DEF NoLoad
<1> HIDE DEF n, z, x, y
<1>4. ASSUME NEW r \in UserRegs, NEW v \in Values, n = SetReg(DelayedLoad(m), r, v),
             z = Ideal!Set(s, r, v)
      PROVE  Performs(n, m, z, i) /\ z.pc = s.pc
  <2>1. /\ n \in Cpus /\ Control(n) = Control(m) /\ n.load = NoLoad
        /\ View(n, z) /\ z \in ProgStates
    BY <1>4, WriteLemma
  <2>2. z.pc = s.pc
    BY <1>4, SetLemma
  <2> QED BY <1>2, <1>3, <2>1, <2>2, Zenon DEF Performs
<1>5. CASE i.op = "alu"
  <2>1. m.regs[i.s] = x /\ m.regs[i.t] = y
    BY <1>1, <1>5, ReadLemma, Zenon DEF Clear, Reads, x, y
  <2>2. n = SetReg(DelayedLoad(m), i.d, Compute(x, y))
    BY <1>5, <2>1, Zenon DEF n, DecodeAndExecute, Alu
  <2>3. z = Ideal!Set(s, i.d, Compute(x, y))
    BY <1>5, Zenon DEF z, Ideal!Effect, x, y, Compute, Ideal!Compute, Wrap,
       Ideal!Wrap
  <2> QED BY <1>1, <1>4, <2>2, <2>3, ComputeLemma, Zenon DEF n, z
<1>6. CASE i.op = "alui"
  <2>1. m.regs[i.s] = x
    BY <1>1, <1>6, ReadLemma, Zenon DEF Clear, Reads, x
  <2>2. n = SetReg(DelayedLoad(m), i.t, Compute(x, i.imm))
    BY <1>6, <2>1, Zenon DEF n, DecodeAndExecute, AluImmediate
  <2>3. z = Ideal!Set(s, i.t, Compute(x, i.imm))
    BY <1>6, Zenon DEF z, Ideal!Effect, x, Compute, Ideal!Compute, Wrap,
       Ideal!Wrap
  <2> QED BY <1>1, <1>4, <2>2, <2>3, ComputeLemma, Zenon DEF n, z
<1>7. CASE i.op = "mflo"
  <2>2. n = SetReg(DelayedLoad(m), i.d, s.lo)
    BY <1>1, <1>7, Zenon DEF n, DecodeAndExecute, MoveFromLo
  <2>3. z = Ideal!Set(s, i.d, s.lo)
    BY <1>7, Zenon DEF z, Ideal!Effect
  <2> QED BY <1>1, <1>4, <2>2, <2>3, Zenon DEF n, z
<1>8. CASE i.op = "mtlo"
  <2>1. m.regs[i.s] = x
    BY <1>1, <1>8, ReadLemma, Zenon DEF Clear, Reads, x
  <2> DEFINE d == DelayedLoad(m)
  <2>2. n = [d EXCEPT !.lo = x]
    BY <1>8, <2>1, Zenon DEF n, DecodeAndExecute, MoveToLo
  <2>3. z = [s EXCEPT !.lo = x]
    BY <1>8, Zenon DEF z, Ideal!Effect, x
  <2>4. d \in Cpus /\ Control(d) = Control(m) /\ d.load = NoLoad /\ View(d, s)
    BY LandLemma, Zenon
  <2> HIDE DEF d
  <2>5. x \in Words
    BY <1>1, ValuesLemma, Zenon
  <2>6. n \in Cpus /\ Control(n) = Control(d) /\ n.load = d.load
        /\ n.lo = x /\ n.gte = d.gte /\ n.cell = d.cell /\ n.regs = d.regs
    BY <2>2, <2>4, <2>5, Zenon DEF Cpus, CpuRecs, Control
  <2>7. z \in ProgStates /\ z.lo = x /\ z.gte = s.gte /\ z.cell = s.cell /\ z.pc = s.pc
        /\ z.regs = s.regs
    BY <1>1, <2>3, Zenon DEF ProgStates
  <2>8. View(n, z)
    BY <2>4, <2>6, <2>7 DEF View, Land
  <2> QED BY <1>2, <1>3, <2>4, <2>6, <2>7, <2>8, Zenon DEF Performs, n, z
<1> QED BY <1>5, <1>6, <1>7, <1>8, Zenon

\* The end of an instruction that traps.
LEMMA TrapsLemma ==
  ASSUME NEW m \in Cpus, NEW s \in ProgStates, View(m, s), NEW i, Raises(m, i),
         NEW c \in Causes \ {"Interrupt"}
  PROVE  Performs(Trap(m, c), m, s, i)
<1> DEFINE n == Trap(m, c)
<1>1. n \in Cpus /\ n.load = NoLoad /\ View(n, s) /\ Excepted(n, m, c)
  BY LandLemma, Zenon
<1>2. NoLoad.reg = 0
  BY Zenon DEF NoLoad
<1> HIDE DEF n
<1>3. Performs(n, m, s, i)
  BY <1>1, <1>2, Zenon DEF Performs
<1> QED BY <1>3, Zenon DEF n

\* Arithmetic that may overflow and the instructions that trap do what Isa
\* says, and end in an exception when Raises says so.
LEMMA TrappingLemma ==
  ASSUME NEW m \in Cpus, NEW s \in ProgStates, View(m, s), NEW i, UserInstr(i),
         Clear(m, i), NEW a, i.op \in {"add", "syscall", "break", "illegal"}
  PROVE  /\ Performs(DecodeAndExecute(m, i), m, Ideal!Effect(s, i, a), i)
         /\ Ideal!Effect(s, i, a).pc = s.pc
<1> DEFINE n == DecodeAndExecute(m, i)
           z == Ideal!Effect(s, i, a)
           x == s.regs[i.s]
           y == s.regs[i.t]
<1>1. /\ i.s \in UserRegs /\ i.t \in UserRegs /\ i.d \in UserRegs
      /\ x \in Values /\ y \in Values
  BY OperandLemma, Zenon DEF ProgStates
<1>3. NoLoad.reg = 0
  BY Zenon DEF NoLoad
<1>4. Causes = {"None", "Interrupt", "LoadAddressError", "StoreAddressError",
           "SysCall", "Break", "IllegalInstruction", "CoprocessorError",
           "Overflow"}
  BY Zenon DEF Causes
<1> HIDE DEF n, z, x, y
<1>5. CASE i.op = "add"
  <2>1. m.regs[i.s] = x /\ m.regs[i.t] = y
    BY <1>1, <1>5, ReadLemma, Zenon DEF Clear, Reads, x, y
  <2>2. Raises(m, i) <=> Overflows(x, y)
    BY <1>5, <2>1, Zenon DEF Raises
  <2>3. CASE Overflows(x, y)
    <3>1. n = Trap(m, "Overflow")
      BY <1>5, <2>1, <2>3, Zenon DEF n, DecodeAndExecute, Add, Trap
    <3>2. z = s
      BY <1>5, <2>3, Zenon DEF z, Ideal!Effect, x, y, Overflows,
         Ideal!Overflows, Wrap, Ideal!Wrap
    <3>3. Performs(Trap(m, "Overflow"), m, s, i)
      BY <1>4, <2>2, <2>3, TrapsLemma, Zenon
    <3> QED BY <3>1, <3>2, <3>3, Zenon DEF n, z
  <2>4. CASE ~Overflows(x, y)
    <3>1. n = SetReg(DelayedLoad(m), i.d, x + y)
      BY <1>5, <2>1, <2>4, Zenon DEF n, DecodeAndExecute, Add
    <3>2. z = Ideal!Set(s, i.d, x + y)
      BY <1>5, <2>4, Zenon DEF z, Ideal!Effect, x, y, Overflows,
         Ideal!Overflows, Wrap, Ideal!Wrap
    <3>3. x + y \in Values
      BY <1>1, <2>4, ComputeLemma, Zenon
    <3> DEFINE v == x + y
    <3> DEFINE r == i.d
    <3>7. /\ v \in Values /\ n = SetReg(DelayedLoad(m), r, v) /\ z = Ideal!Set(s, r, v)
          /\ r \in UserRegs
      BY <1>1, <3>1, <3>2, <3>3, Zenon
    <3> HIDE DEF v, r
    <3>4. /\ n \in Cpus /\ Control(n) = Control(m) /\ n.load = NoLoad
          /\ View(n, z) /\ z \in ProgStates
      BY <3>7, WriteLemma
    <3>5. z.pc = s.pc
      BY <3>7, SetLemma
    <3> QED BY <1>3, <2>2, <2>4, <3>4, <3>5, Zenon DEF Performs, n, z
  <2> QED BY <2>3, <2>4, Zenon
<1>6. CASE i.op # "add"
  <2>1. z = s
    BY <1>6, Zenon DEF z, Ideal!Effect
  <2>2. CASE i.op = "syscall"
    <3>1. n = Trap(m, "SysCall") /\ Raises(m, i)
      BY <2>2, Zenon DEF n, DecodeAndExecute, Raises
    <3>2. Performs(Trap(m, "SysCall"), m, s, i)
      BY <1>4, <3>1, TrapsLemma, Zenon
    <3> QED BY <2>1, <3>1, <3>2, Zenon DEF n, z
  <2>3. CASE i.op = "illegal"
    <3>1. n = Trap(m, "IllegalInstruction") /\ Raises(m, i)
      BY <2>3, Zenon DEF n, DecodeAndExecute, Raises
    <3>2. Performs(Trap(m, "IllegalInstruction"), m, s, i)
      BY <1>4, <3>1, TrapsLemma, Zenon
    <3> QED BY <2>1, <3>1, <3>2, Zenon DEF n, z
  <2>4. CASE i.op = "break" /\ ~DebugOnBreak
    <3>1. n = Trap(m, "Break") /\ Raises(m, i)
      BY <2>4, Zenon DEF n, DecodeAndExecute, Raises, Break
    <3>2. Performs(Trap(m, "Break"), m, s, i)
      BY <1>4, <3>1, TrapsLemma, Zenon
    <3> QED BY <2>1, <3>1, <3>2, Zenon DEF n, z
  <2>5. CASE i.op = "break" /\ DebugOnBreak
    <3>1. n = DelayedLoad(m) /\ ~Raises(m, i)
      BY <2>5, Zenon DEF n, DecodeAndExecute, Raises, Break
    <3>2. n \in Cpus /\ Control(n) = Control(m) /\ n.load = NoLoad /\ View(n, s)
      BY <3>1, LandLemma, Zenon
    <3> QED BY <1>3, <2>1, <3>1, <3>2, Zenon DEF Performs, n, z
  <2> QED BY <1>6, <2>2, <2>3, <2>4, <2>5, Zenon
<1> QED BY <1>5, <1>6, Zenon

\* Loads do what Isa says once they have landed.
LEMMA LoadsLemma ==
  ASSUME NEW m \in Cpus, NEW s \in ProgStates, View(m, s), NEW i, UserInstr(i),
         Clear(m, i), NEW a, i.op \in {"lw", "lwl", "mfc2"}
  PROVE  /\ Performs(DecodeAndExecute(m, i), m, Ideal!Effect(s, i, a), i)
         /\ Ideal!Effect(s, i, a).pc = s.pc
<1> DEFINE n == DecodeAndExecute(m, i)
           z == Ideal!Effect(s, i, a)
           x == s.regs[i.s]
           y == s.regs[i.t]
<1>1. /\ i.s \in UserRegs /\ i.t \in UserRegs
      /\ x \in Values /\ y \in Values /\ s.cell \in Values /\ s.gte \in Values
      /\ m.cell = s.cell /\ m.gte = s.gte
  BY OperandLemma, Zenon DEF ProgStates, View
<1>2. NoLoad.reg = 0 /\ i.op \in Loads
  BY Zenon DEF NoLoad, Loads
<1> HIDE DEF n, z, x, y
<1>3. ASSUME NEW v \in Values, n = DelayedLoadChain(m, i.t, v),
             z = Ideal!Set(s, i.t, v), ~Raises(m, i)
      PROVE  Performs(n, m, z, i) /\ z.pc = s.pc
  <2> DEFINE r == i.t
  <2>0. /\ n = DelayedLoadChain(m, r, v) /\ z = Ideal!Set(s, r, v) /\ r \in UserRegs
        /\ r = i.t
    BY <1>1, <1>3, Zenon
  <2> HIDE DEF r
  <2>1. /\ n \in Cpus /\ Control(n) = Control(m) /\ n.load.reg = r
        /\ View(n, z) /\ z \in ProgStates
    BY <2>0, LoadLemma
  <2>2. z.pc = s.pc
    BY <2>0, SetLemma
  <2> QED BY <1>2, <1>3, <2>0, <2>1, <2>2, Zenon DEF Performs
<1>4. CASE i.op = "mfc2"
  <2>1. n = DelayedLoadChain(m, i.t, s.gte) /\ ~Raises(m, i)
    BY <1>1, <1>4, Zenon DEF n, DecodeAndExecute, Mfc2, Raises
  <2>2. z = Ideal!Set(s, i.t, s.gte)
    BY <1>4, Zenon DEF z, Ideal!Effect
  <2> QED BY <1>1, <1>3, <2>1, <2>2, Zenon DEF n, z
<1>5. CASE i.op = "lwl"
  <2> DEFINE cur == IF m.load.reg = i.t THEN m.load.val ELSE m.regs[i.t]
             w == Merge(cur, s.cell)
  <2>1. n = DelayedLoadChain(m, i.t, w) /\ ~Raises(m, i)
    BY <1>1, <1>5, Zenon DEF n, DecodeAndExecute, Lwl, Raises
  <2>2. z = Ideal!Set(s, i.t, Merge(y, s.cell))
    BY <1>5, Zenon DEF z, Ideal!Effect, y, Merge, Ideal!Merge, Wrap,
       Ideal!Wrap
  <2>3. CASE i.t # 0
    <3>1. cur = y
      BY <1>1, <2>3, Zenon DEF View, Land, y
    <3>2. Merge(y, s.cell) \in Values
      BY <1>1, ComputeLemma, Zenon
    <3> QED BY <1>3, <2>1, <2>2, <3>1, <3>2, Zenon DEF n, z
  <2>4. CASE i.t = 0
    <3>1. z = s
      BY <2>2, <2>4, Zenon DEF Ideal!Set
    <3>2. cur \in Int /\ i.t \in Regs
      BY <2>4 DEF Cpus, CpuRecs, Regs, Words
    <3> HIDE DEF cur
    <3>3. w \in Words
      <4>1. ASSUME NEW p \in Int, NEW q \in Int PROVE Merge(p, q) \in Words
        <5> DEFINE c == Wrap
        <5>1. c \in Nat \ {0}
          BY UserWordsAssumption DEF Wrap
        <5> HIDE DEF c
        <5>2. (p + q) % c \in 0 .. c - 1
          BY <5>1
        <5>3. 0 .. c - 1 \subseteq Words
          BY UserWordsAssumption DEF c, Words, Handler, Wrap
        <5> QED BY <5>2, <5>3, Zenon DEF Merge, c
      <4>2. Values \subseteq Int
        BY ValuesLemma
      <4>3. s.cell \in Int
        BY <1>1, <4>2, Zenon
      <4> QED BY <3>2, <4>1, <4>3, Zenon
    <3> HIDE DEF w
    <3>4. /\ n \in Cpus /\ Control(n) = Control(m) /\ Data(n) = Data(m)
          /\ n.load = [reg |-> i.t, val |-> w]
          /\ \A q \in Regs : Land(n, q) = IF q = 0 THEN 0 ELSE IF q = i.t THEN w ELSE Land(m, q)
      BY <2>1, <3>2, <3>3, ChainLemma
    <3>5. n.load.reg = 0
      BY <2>4, <3>4
    <3>6. Land(m, 0) = 0
      BY Zenon DEF Land
    <3>7. View(n, s)
      BY <2>4, <3>4, <3>6 DEF View, Data, UserRegs, Regs
    <3> QED BY <2>1, <3>1, <3>4, <3>5, <3>7, Zenon DEF Performs, n, z
  <2> QED BY <2>3, <2>4, Zenon
<1>6. CASE i.op = "lw"
  <2>1. m.regs[i.s] = x
    BY <1>1, <1>6, ReadLemma, Zenon DEF Clear, Reads, x
  <2>2. Raises(m, i) <=> Misaligned(x + i.imm)
    BY <1>6, <2>1, Zenon DEF Raises
  <2>3. CASE Misaligned(x + i.imm)
    <3>1. n = Trap(m, "LoadAddressError")
      BY <1>6, <2>1, <2>3, Zenon DEF n, DecodeAndExecute, Lw
    <3> DEFINE r == i.t
    <3>0. r = i.t /\ r \in UserRegs
      BY <1>1, Zenon
    <3>2. z = Ideal!Set(s, r, y)
      BY <1>6, <2>3, Zenon DEF z, Ideal!Effect, x, y, Misaligned,
         Ideal!Misaligned
    <3> HIDE DEF r
    <3>3. /\ z \in ProgStates /\ z.pc = s.pc
          /\ z.lo = s.lo /\ z.gte = s.gte /\ z.cell = s.cell
          /\ \A q \in UserRegs : z.regs[q] = IF q = 0 THEN 0 ELSE IF q = r THEN y ELSE s.regs[q]
      <4>1. y \in Values /\ r \in UserRegs /\ z = Ideal!Set(s, r, y)
        BY <1>1, <3>0, <3>2, Zenon
      <4> QED BY <4>1, SetLemma
    <3>4. s.regs[0] = 0
      BY Zenon DEF ProgStates
    <3>5. \A q \in UserRegs : z.regs[q] = s.regs[q]
      BY <3>0, <3>3, <3>4, Zenon DEF y
    <3>6. View(m, z)
      BY <3>3, <3>5, Zenon DEF View
    <3>7. Performs(Trap(m, "LoadAddressError"), m, z, i)
      BY <2>2, <2>3, <3>3, <3>6, TrapsLemma, Zenon DEF Causes
    <3> QED BY <3>1, <3>3, <3>7, Zenon DEF n, z
  <2>4. CASE ~Misaligned(x + i.imm)
    <3>1. n = DelayedLoadChain(m, i.t, s.cell)
      BY <1>1, <1>6, <2>1, <2>4, Zenon DEF n, DecodeAndExecute, Lw
    <3>2. z = Ideal!Set(s, i.t, s.cell)
      BY <1>6, <2>4, Zenon DEF z, Ideal!Effect, x, y, Misaligned,
         Ideal!Misaligned
    <3> QED BY <1>1, <1>3, <2>2, <2>4, <3>1, <3>2, Zenon DEF n, z
  <2> QED BY <2>3, <2>4, Zenon
<1> QED BY <1>4, <1>5, <1>6, Zenon

\* Stores and moves to the coprocessor do what Isa says.
LEMMA StoresLemma ==
  ASSUME NEW m \in Cpus, NEW s \in ProgStates, View(m, s), NEW i, UserInstr(i),
         Clear(m, i), NEW a, i.op \in {"sw", "mtc2"}
  PROVE  /\ Performs(DecodeAndExecute(m, i), m, Ideal!Effect(s, i, a), i)
         /\ Ideal!Effect(s, i, a).pc = s.pc
<1> DEFINE n == DecodeAndExecute(m, i)
           z == Ideal!Effect(s, i, a)
           x == s.regs[i.s]
           y == s.regs[i.t]
           d == DelayedLoad(m)
<1>1. /\ i.s \in UserRegs /\ i.t \in UserRegs /\ x \in Values /\ y \in Values
  BY OperandLemma, Zenon DEF ProgStates
<1>2. NoLoad.reg = 0 /\ Values \subseteq Int /\ Values \subseteq Words
  BY ValuesLemma DEF NoLoad
<1>3. d \in Cpus /\ Control(d) = Control(m) /\ d.load = NoLoad /\ View(d, s)
  BY LandLemma, Zenon
<1>4. y \in Words
  BY <1>1, <1>2, Zenon
<1>5. m.regs[i.t] = y
  BY <1>1, ReadLemma, Zenon DEF Clear, Reads, y
<1> HIDE DEF n, z, x, y
<1>6. CASE i.op = "mtc2"
  <2>1. n = [d EXCEPT !.gte = y] /\ ~Raises(m, i)
    BY <1>5, <1>6, Zenon DEF n, DecodeAndExecute, Mtc2, Raises
  <2>2. z = [s EXCEPT !.gte = y]
    BY <1>6, Zenon DEF z, Ideal!Effect, y
  <2> HIDE DEF d
  <2>3. n \in Cpus /\ Control(n) = Control(d) /\ n.load = d.load
        /\ n.lo = d.lo /\ n.gte = y /\ n.cell = d.cell /\ n.regs = d.regs
    BY <1>3, <1>4, <2>1, Zenon DEF Cpus, CpuRecs, Control
  <2>4. z \in ProgStates /\ z.lo = s.lo /\ z.gte = y /\ z.cell = s.cell /\ z.pc = s.pc
        /\ z.regs = s.regs
    BY <1>1, <2>2, Zenon DEF ProgStates
  <2>5. View(n, z)
    BY <1>3, <2>3, <2>4 DEF View, Land
  <2> QED BY <1>2, <1>3, <2>1, <2>3, <2>4, <2>5, Zenon DEF Performs, n, z
<1>7. CASE i.op = "sw"
  <2>1. m.regs[i.s] = x
    BY <1>1, <1>7, ReadLemma, Zenon DEF Clear, Reads, x
  <2>2. Raises(m, i) <=> Misaligned(x + i.imm)
    BY <1>7, <2>1, Zenon DEF Raises
  <2>3. CASE Misaligned(x + i.imm)
    <3>1. n = Trap(m, "StoreAddressError")
      BY <1>7, <2>1, <2>3, Zenon DEF n, DecodeAndExecute, Sw
    <3>2. z = s
      BY <1>7, <2>3, Zenon DEF z, Ideal!Effect, x, Misaligned,
         Ideal!Misaligned
    <3>3. Performs(Trap(m, "StoreAddressError"), m, s, i)
      BY <2>2, <2>3, TrapsLemma, Zenon DEF Causes
    <3> QED BY <3>1, <3>2, <3>3, Zenon DEF n, z
  <2>4. CASE ~Misaligned(x + i.imm)
    <3>1. n = [d EXCEPT !.cell = y]
      BY <1>5, <1>7, <2>1, <2>4, Zenon DEF n, DecodeAndExecute, Sw
    <3>2. z = [s EXCEPT !.cell = y]
      BY <1>7, <2>4, Zenon DEF z, Ideal!Effect, x, y, Misaligned,
         Ideal!Misaligned
    <3> HIDE DEF d
    <3>3. n \in Cpus /\ Control(n) = Control(d) /\ n.load = d.load
          /\ n.lo = d.lo /\ n.gte = d.gte /\ n.cell = y /\ n.regs = d.regs
      BY <1>3, <1>4, <3>1, Zenon DEF Cpus, CpuRecs, Control
    <3>4. z \in ProgStates /\ z.lo = s.lo /\ z.gte = s.gte /\ z.cell = y /\ z.pc = s.pc
          /\ z.regs = s.regs
      BY <1>1, <3>2, Zenon DEF ProgStates
    <3>5. View(n, z)
      BY <1>3, <3>3, <3>4 DEF View, Land
    <3> QED BY <1>2, <1>3, <2>2, <2>4, <3>3, <3>4, <3>5, Zenon DEF Performs,
               n, z
  <2> QED BY <2>3, <2>4, Zenon
<1> QED BY <1>6, <1>7, Zenon

\* Every instruction of a program that is no branch does to the program what
\* the abstract specification says.
LEMMA EffectLemma ==
  ASSUME NEW m \in Cpus, NEW s \in ProgStates, View(m, s), NEW i, UserInstr(i),
         Clear(m, i), NEW a, ~IsBranch(i)
  PROVE  /\ Performs(DecodeAndExecute(m, i), m, Ideal!Effect(s, i, a), i)
         /\ Ideal!Effect(s, i, a).pc = s.pc
<1>1. \/ i.op \in {"alu", "alui", "mtlo", "mflo"}
      \/ i.op \in {"add", "syscall", "break", "illegal"}
      \/ i.op \in {"lw", "lwl", "mfc2"}
      \/ i.op \in {"sw", "mtc2"}
  BY Zenon DEF UserInstr, Ordinary, IsBranch
<1> QED BY <1>1, ArithmeticLemma, TrappingLemma, LoadsLemma, StoresLemma

\* What a branch does: it lands the load, writes the link and, when it is
\* taken, sets the target that follows the delay slot.
Branched(n, m, s, i, z) ==
  /\ n \in Cpus /\ z \in ProgStates /\ View(n, z) /\ n.load = NoLoad
  /\ n.pc = m.pc /\ n.current_pc = m.current_pc /\ n.delay_slot = m.delay_slot
  /\ n.mode = m.mode
  /\ IF Ideal!Taken(s, i)
       THEN n.branch = TRUE /\ n.next_pc = Ideal!Target(s, i, m.current_pc)
       ELSE n.branch = m.branch /\ n.next_pc = m.next_pc

\* A branch leaves the registers alone.
LEMMA TurnLemma ==
  ASSUME NEW e \in Cpus, e.load = NoLoad, NEW z, View(e, z), NEW u \in Int
  PROVE  LET n == BranchTo(e, u) IN
         n \in Cpus /\ View(n, z) /\ n.load = NoLoad /\ Turned(n, e, u)
<1> DEFINE n == BranchTo(e, u)
<1>0. n = BranchTo(e, u)
  BY Zenon
<1> HIDE DEF n
<1>1. /\ n \in Cpus /\ Data(n) = Data(e) /\ n.load = e.load /\ n.regs = e.regs
      /\ Turned(n, e, u)
  BY <1>0, BranchLemma, Zenon
<1>2. View(n, z)
  BY <1>1, Zenon DEF View, Land, Data
<1> QED BY <1>1, <1>2, Zenon DEF n

\* The link is written after or before the target.
LEMMA CommuteLemma ==
  ASSUME NEW d \in Cpus, NEW u, NEW r, NEW v
  PROVE  SetReg(BranchTo(d, u), r, v) = BranchTo(SetReg(d, r, v), u)
<1> DEFINE t == TRUE
           b == [d EXCEPT !.next_pc = u, !.branch = t]
           f == [[d.regs EXCEPT ![r] = v] EXCEPT ![0] = 0]
<1>1. SetReg(d, r, v) = [d EXCEPT !.regs = f]
  BY Zenon DEF SetReg, Cpus, CpuRecs
<1>2. BranchTo(d, u) = b /\ BranchTo([d EXCEPT !.regs = f], u) =
        [[d EXCEPT !.regs = f] EXCEPT !.next_pc = u, !.branch = t]
  BY Zenon DEF BranchTo
<1> HIDE DEF t
<1>3. b.regs = d.regs
  BY Zenon DEF Cpus, CpuRecs
<1>4. SetReg(b, r, v) = [b EXCEPT !.regs = f]
  BY <1>3, Zenon DEF SetReg, Cpus, CpuRecs
<1> HIDE DEF f
<1>5. [b EXCEPT !.regs = f] = [[d EXCEPT !.regs = f] EXCEPT !.next_pc = u, !.branch = t]
  BY Zenon DEF Cpus, CpuRecs
<1> QED BY <1>1, <1>2, <1>4, <1>5, Zenon

\* A branch writes the link Isa says and turns to the target Isa says.
LEMMA BranchesLemma ==
  ASSUME NEW m \in Cpus, NEW s \in ProgStates, View(m, s), NEW i, UserInstr(i),
         Clear(m, i), IsBranch(i), NEW a, NEW v, v = a + 8, m.next_pc = v,
         i.op \in {"bal", "jal", "jalr"} => v \in Values
  PROVE  /\ Branched(DecodeAndExecute(m, i), m, s, i, Ideal!Effect(s, i, a))
         /\ Ideal!Effect(s, i, a).pc = s.pc
         /\ Ideal!Target(s, i, a) \in Values
<1> DEFINE n == DecodeAndExecute(m, i)
           z == Ideal!Effect(s, i, a)
           x == s.regs[i.s]
           y == s.regs[i.t]
           d == DelayedLoad(m)
           u == Ideal!Target(s, i, a)
           r == IF i.op = "jalr" THEN i.d ELSE Link
           e == IF i.op \in {"bal", "jal", "jalr"} THEN SetReg(d, r, v) ELSE d
<1>1. /\ i.s \in UserRegs /\ i.t \in UserRegs /\ r \in UserRegs /\ x \in Values /\ y \in Values
      /\ i.imm \in Values
  BY OperandLemma DEF ProgStates, IsBranch, Branches, Link, UserRegs
<1>2. u \in Values /\ u = Ideal!Target(s, i, m.current_pc)
  BY <1>1, Zenon DEF Ideal!Target
<1>3. Values \subseteq Int /\ Values \subseteq Words
  BY ValuesLemma
<1>4. i.op \in {"beq", "bal", "j", "jal", "jr", "jalr"}
  BY Zenon DEF IsBranch, Branches
<1>5. d \in Cpus /\ Control(d) = Control(m) /\ d.load = NoLoad /\ View(d, s)
  BY LandLemma, Zenon
<1>6. /\ e \in Cpus /\ Control(e) = Control(m) /\ e.load = NoLoad
      /\ View(e, z) /\ z \in ProgStates /\ z.pc = s.pc
  <2> HIDE DEF z, d, r
  <2>1. CASE i.op \in {"bal", "jal", "jalr"}
    <3>1. z = Ideal!Set(s, r, v)
      BY <2>1, Zenon DEF z, r, Ideal!Effect, Link, Ideal!Link
    <3>2. e = SetReg(DelayedLoad(m), r, v) /\ v \in Values /\ r \in UserRegs
      BY <1>1, <2>1, Zenon DEF d
    <3> HIDE DEF e
    <3>3. /\ e \in Cpus /\ Control(e) = Control(m) /\ e.load = NoLoad
          /\ View(e, z) /\ z \in ProgStates
      BY <3>1, <3>2, WriteLemma
    <3>4. z.pc = s.pc
      BY <3>1, <3>2, SetLemma
    <3> QED BY <3>3, <3>4, Zenon
  <2>2. CASE i.op \notin {"bal", "jal", "jalr"}
    <3>1. z = s
      BY <1>4, <2>2, Zenon DEF z, Ideal!Effect
    <3> QED BY <1>5, <2>2, <3>1, Zenon
  <2> QED BY <2>1, <2>2, Zenon
<1>7. n = IF Ideal!Taken(s, i) THEN BranchTo(e, u) ELSE e
  <2>1. m.next_pc = v
    BY Zenon
  <2> HIDE DEF d
  <2>2. CASE i.op \in {"beq", "bal"}
    <3>1. m.regs[i.s] = x /\ m.regs[i.t] = y
      BY <1>1, <2>2, ReadLemma, Zenon DEF Clear, Reads
    <3>2. u = i.imm /\ (Ideal!Taken(s, i) <=> x = y)
      BY <2>2, Zenon DEF Ideal!Target, Ideal!Taken
    <3> HIDE DEF u, x, y
    <3>3. CASE i.op = "beq"
      BY <3>1, <3>2, <3>3, Zenon DEF DecodeAndExecute, Beq, d
    <3>4. CASE i.op = "bal"
      BY <2>1, <3>1, <3>2, <3>4, Zenon DEF DecodeAndExecute, Bxx, d
    <3> QED BY <2>2, <3>3, <3>4, Zenon
  <2>3. CASE i.op \in {"j", "jal"}
    <3>1. u = i.imm /\ Ideal!Taken(s, i)
      BY <2>3, Zenon DEF Ideal!Target, Ideal!Taken
    <3> HIDE DEF u
    <3>2. CASE i.op = "j"
      BY <3>1, <3>2, Zenon DEF DecodeAndExecute, J, d
    <3>3. CASE i.op = "jal"
      <4>1. n = SetReg(BranchTo(d, u), r, v) /\ e = SetReg(d, r, v)
        BY <2>1, <3>1, <3>3, Zenon DEF DecodeAndExecute, Jal, J, d
      <4> HIDE DEF n, e, r
      <4> QED BY <1>1, <1>5, <3>1, <4>1, CommuteLemma
    <3> QED BY <2>3, <3>2, <3>3, Zenon
  <2>4. CASE i.op \in {"jr", "jalr"}
    <3>0. m.regs[i.s] = x
      BY <1>1, <2>4, ReadLemma, Zenon DEF Clear, Reads
    <3>1. u = x /\ Ideal!Taken(s, i)
      BY <2>4, Zenon DEF Ideal!Target, Ideal!Taken
    <3> HIDE DEF u, x
    <3>2. CASE i.op = "jr"
      BY <3>0, <3>1, <3>2, Zenon DEF DecodeAndExecute, Jr, d
    <3>3. CASE i.op = "jalr"
      <4>1. n = SetReg(BranchTo(d, u), r, v) /\ e = SetReg(d, r, v)
        BY <2>1, <3>0, <3>1, <3>3, Zenon DEF DecodeAndExecute, Jalr, Jr, d
      <4> HIDE DEF n, e, r
      <4> QED BY <1>1, <1>5, <3>1, <4>1, CommuteLemma
    <3> QED BY <2>4, <3>2, <3>3, Zenon
  <2> QED BY <1>4, <2>2, <2>3, <2>4, Zenon
<1>8. /\ e.pc = m.pc /\ e.current_pc = m.current_pc /\ e.delay_slot = m.delay_slot
      /\ e.mode = m.mode /\ e.branch = m.branch /\ e.next_pc = m.next_pc
  BY <1>6, Zenon DEF Control
<1> HIDE DEF n, z, e, u
<1>9. CASE Ideal!Taken(s, i)
  <2>1. n = BranchTo(e, u) /\ u \in Int /\ e \in Cpus
    BY <1>2, <1>3, <1>6, <1>7, <1>9, Zenon
  <2>2. n \in Cpus /\ View(n, z) /\ n.load = NoLoad /\ Turned(n, e, u)
    BY <1>6, <2>1, TurnLemma, Zenon
  <2> QED BY <1>2, <1>6, <1>8, <1>9, <2>2, Zenon DEF Branched, Turned, n, z, u
<1>10. CASE ~Ideal!Taken(s, i)
  BY <1>2, <1>6, <1>7, <1>8, <1>10, Zenon DEF Branched, n, z, u
<1> QED BY <1>9, <1>10, Zenon

----------------------------------------------------------------------------
\* The text of a program

\* A program that respects the delay slots, in its image
Program(f) == f \in {Image(t) : t \in Texts}

\* The words of the image are at the multiples of 4.
LEMMA WordsLemma ==
  ASSUME NEW t \in Texts
  PROVE  LET f == Image(t) IN
         /\ \A a \in Values : a < Wrap =>
              f[a] \in Instructions /\ a \in DOMAIN f /\ a + 4 \in Values
         /\ f[Wrap] = I("j", 0, 0, 0, 0) /\ f[Wrap + 4] = Nop
         /\ f[Handler] = I("mfc0", 0, K, 0, 0) /\ f[Handler + 4] = I("ack", 0, 0, 0, 0)
         /\ f[Handler + 8] = I("skip", K, 0, K, 0) /\ f[Handler + 12] = I("jr", K, 0, 0, 0)
         /\ f[Handler + 16] = I("rfe", 0, 0, 0, 0)
<1> DEFINE A == {x \in Addrs : x % 4 = 0}
           f == Image(t)
<1>1. UserWords \in Nat \ {0}
  BY UserWordsAssumption, Zenon
<1>2. t \in [1 .. UserWords -> Instructions]
  BY CpuAssumption, Zenon
<1>3. /\ Wrap \in A /\ Wrap + 4 \in A /\ Handler \in A /\ Handler + 4 \in A
      /\ Handler + 8 \in A /\ Handler + 12 \in A /\ Handler + 16 \in A
  BY <1>1 DEF Wrap, Handler, Addrs
<1>4. \A a \in A : f[a] = IF a < Wrap THEN t[a \div 4 + 1]
                          ELSE IF a = Wrap THEN I("j", 0, 0, 0, 0)
                          ELSE IF a < Handler THEN Nop
                          ELSE Kernel[(a - Handler) \div 4 + 1]
  BY Zenon DEF Image
<1>5. ASSUME NEW a \in Values, a < Wrap
      PROVE  f[a] \in Instructions /\ a \in DOMAIN f /\ a + 4 \in Values
  <2>1. PICK k \in 0 .. UserWords : a = 4 * k
    BY Zenon DEF Values
  <2>2. k \in Nat /\ k < UserWords /\ a \in A
    BY <1>1, <1>5, <2>1 DEF Wrap, Handler, Addrs
  <2>3. a \div 4 + 1 = k + 1 /\ k + 1 \in 1 .. UserWords
    BY <1>1, <2>1, <2>2
  <2>4. f[a] = t[k + 1]
    BY <1>4, <1>5, <2>2, <2>3, Zenon
  <2>5. a + 4 = 4 * (k + 1) /\ k + 1 \in 0 .. UserWords
    BY <2>1, <2>3
  <2>6. a \in DOMAIN f
    BY <2>2, Zenon DEF Image
  <2> QED BY <1>2, <2>3, <2>4, <2>5, <2>6, Zenon DEF Values
<1>6. /\ ~(Wrap < Wrap) /\ ~(Wrap + 4 < Wrap) /\ Wrap + 4 # Wrap /\ Wrap + 4 < Handler
  BY <1>1 DEF Wrap, Handler
<1>7. f[Wrap] = I("j", 0, 0, 0, 0) /\ f[Wrap + 4] = Nop
  BY <1>3, <1>4, <1>6, Zenon
<1>8. ASSUME NEW k \in 0 .. 4, Handler + 4 * k \in A
      PROVE  f[Handler + 4 * k] = Kernel[k + 1]
  <2> DEFINE x == Handler + 4 * k
  <2>1. /\ x \in A /\ ~(x < Wrap) /\ x # Wrap /\ ~(x < Handler)
        /\ (x - Handler) \div 4 + 1 = k + 1
    <3>1. Wrap \in Nat /\ Handler = Wrap + 8 /\ k \in Nat /\ k <= 4
      BY <1>1 DEF Wrap, Handler
    <3>2. ASSUME NEW w \in Nat, NEW h, h = w + 8
          PROVE  /\ ~(h + 4 * k < w) /\ h + 4 * k # w /\ ~(h + 4 * k < h)
                 /\ (h + 4 * k - h) \div 4 + 1 = k + 1
      BY <3>1, <3>2
    <3> QED BY <1>8, <3>1, <3>2
  <2> HIDE DEF x
  <2>2. f[x] = Kernel[k + 1]
    BY <1>4, <2>1, Zenon
  <2> QED BY <2>2, Zenon DEF x
<1>9. /\ f[Handler] = Kernel[1] /\ f[Handler + 4] = Kernel[2] /\ f[Handler + 8] = Kernel[3]
      /\ f[Handler + 12] = Kernel[4] /\ f[Handler + 16] = Kernel[5]
  <2>1. /\ Handler = Handler + 4 * 0 /\ Handler + 4 = Handler + 4 * 1
        /\ Handler + 8 = Handler + 4 * 2 /\ Handler + 12 = Handler + 4 * 3
        /\ Handler + 16 = Handler + 4 * 4
    BY <1>1 DEF Handler, Wrap
  <2> QED BY <1>3, <1>8, <2>1
<1> QED BY <1>5, <1>7, <1>9, Zenon DEF Kernel

\* The jump and the delay slot that close the text are instructions of a
\* program.
LEMMA ConstantsLemma ==
  /\ UserInstr(I("j", 0, 0, 0, 0)) /\ UserInstr(Nop)
  /\ I("j", 0, 0, 0, 0).op = "j" /\ I("j", 0, 0, 0, 0).imm = 0
  /\ Nop.op = "alu" /\ Nop.imm = 0
<1>1. 0 \in Values /\ 0 \in Addrs /\ 0 \in Regs /\ 0 # K
  BY ValuesLemma, UserWordsAssumption DEF Addrs, Handler, Wrap, Regs, K
<1>2. "j" \in Ops /\ "alu" \in Ops /\ "j" \in Ordinary /\ "alu" \in Ordinary
  BY Zenon DEF Ops, Branches, Ordinary
<1>3. I("j", 0, 0, 0, 0) \in Instructions /\ Nop \in Instructions
  BY <1>1, <1>2, Zenon DEF I, Nop, Instructions
<1>4. /\ I("j", 0, 0, 0, 0).op = "j" /\ I("j", 0, 0, 0, 0).imm = 0
      /\ I("j", 0, 0, 0, 0).s = 0 /\ I("j", 0, 0, 0, 0).t = 0 /\ I("j", 0, 0, 0, 0).d = 0
      /\ Nop.op = "alu" /\ Nop.imm = 0 /\ Nop.s = 0 /\ Nop.t = 0 /\ Nop.d = 0
  BY Zenon DEF I, Nop
<1> QED BY <1>1, <1>2, <1>3, <1>4, Zenon DEF UserInstr

\* What Respects says of the instruction at an address of the program.
LEMMA ProgramLemma ==
  ASSUME NEW f, Program(f), NEW a \in Values
  PROVE  /\ UserInstr(f[a])
         /\ a # Wrap => a < Wrap /\ a + 4 \in Values
         /\ f[Wrap] = I("j", 0, 0, 0, 0) /\ f[Wrap + 4] = Nop
         /\ a < Wrap /\ f[a].op \in Loads =>
              \A x \in Follow(f, a) : f[a].t \notin Reads(f[x])
         /\ IsBranch(f[a]) =>
              /\ UserInstr(f[a + 4]) /\ ~IsBranch(f[a + 4])
              /\ f[a + 4].op \notin Traps /\ ~Misaligned(f[a + 4].imm)
              /\ RunsAgain(f[a])
<1>1. PICK t \in Texts : f = Image(t)
  BY Zenon DEF Program
<1>2. a \in Nat /\ a <= Wrap /\ Wrap \in Nat /\ Wrap \in Values
  BY ValuesLemma, Zenon
<1>3. /\ \A x \in Values : x < Wrap =>
           f[x] \in Instructions /\ x \in DOMAIN f /\ x + 4 \in Values
      /\ f[Wrap] = I("j", 0, 0, 0, 0) /\ f[Wrap + 4] = Nop
  BY <1>1, WordsLemma, Zenon
<1>4. Respects(t)
  BY CpuAssumption, Zenon
<1>5. ASSUME NEW x \in Values, x < Wrap
      PROVE  /\ UserInstr(f[x])
             /\ IsBranch(f[x]) =>
                  /\ ~IsBranch(f[x + 4])
                  /\ f[x + 4].op \notin Traps /\ ~Misaligned(f[x + 4].imm)
                  /\ RunsAgain(f[x])
             /\ f[x].op \in Loads =>
                  \A y \in Follow(f, x) : f[x].t \notin Reads(f[y])
  BY <1>1, <1>3, <1>4, <1>5, Zenon DEF Respects, UserInstr
<1>6. a # Wrap => a < Wrap /\ a + 4 \in Values
  BY <1>2, <1>3
<1>7. UserInstr(f[Wrap]) /\ UserInstr(f[Wrap + 4])
  BY <1>3, ConstantsLemma, Zenon
<1>8. \A x \in Values : UserInstr(f[x])
  <2> TAKE x \in Values
  <2>1. x = Wrap \/ x < Wrap
    BY ValuesLemma
  <2> QED BY <1>5, <1>7, <2>1, Zenon
<1>9. CASE a = Wrap
  <2>1. f[a + 4] = Nop /\ f[a].op = "j"
    BY <1>3, <1>9, ConstantsLemma, Zenon
  <2>2. /\ ~IsBranch(Nop) /\ Nop.op \notin Traps /\ ~Misaligned(Nop.imm)
        /\ RunsAgain(f[a])
    BY <2>1, ConstantsLemma DEF IsBranch, Branches, Traps, Misaligned, RunsAgain
  <2> QED BY <1>2, <1>3, <1>6, <1>7, <1>8, <1>9, <2>1, <2>2
<1>10. CASE a # Wrap
  BY <1>3, <1>5, <1>6, <1>8, <1>10, Zenon
<1> QED BY <1>9, <1>10, Zenon

\* A branch at the end of the text is not followed by another: a branch that
\* links, or that is not taken, has room for the address it links.
LEMMA RoomLemma ==
  ASSUME NEW f, Program(f), NEW a \in Values, IsBranch(f[a]), f[a].op # "j" \/ a # Wrap
  PROVE  a + 4 \in Values /\ a + 8 \in Values
<1>1. a # Wrap
  BY ProgramLemma, ConstantsLemma
<1>2. a + 4 \in Values /\ ~IsBranch(f[a + 4])
  BY <1>1, ProgramLemma, Zenon
<1>3. IsBranch(f[Wrap])
  BY ProgramLemma, ConstantsLemma, Zenon DEF IsBranch, Branches
<1>4. a + 4 # Wrap
  BY <1>2, <1>3, Zenon
<1>5. (a + 4) + 4 \in Values
  BY <1>2, <1>4, ProgramLemma, Zenon
<1>6. a + 8 = (a + 4) + 4
  BY ValuesLemma
<1> QED BY <1>2, <1>5, <1>6, Zenon

----------------------------------------------------------------------------
\* The start and the end of an instruction

\* The start of run_next_instruction, as a relation
Fetches(m, c) ==
  /\ m \in Cpus /\ m.current_pc = c.pc /\ m.pc = c.next_pc
  /\ m.next_pc = c.next_pc + 4 /\ m.delay_slot = c.branch /\ m.branch = FALSE
  /\ m.mode = c.mode /\ m.cause = c.cause /\ m.epc = c.epc
  /\ m.load = c.load /\ m.regs = c.regs

\* It does not change what the program sees.
LEMMA FetchesLemma ==
  ASSUME cpu \in Cpus, cpu.pc \in 0 .. 2 * Handler + 4
  PROVE  /\ Fetches(Fetched, cpu)
         /\ \A s : View(cpu, s) => View(Fetched, s)
         /\ \A i : Clear(cpu, i) => Clear(Fetched, i)
<1> DEFINE n == Fetched
<1>0. n = Fetched
  BY Zenon
<1> HIDE DEF n
<1>1. /\ n \in Cpus /\ Data(n) = Data(cpu) /\ n.load = cpu.load /\ n.regs = cpu.regs
      /\ n.branch = FALSE /\ n.next_pc = cpu.next_pc + 4 /\ n.pc = cpu.next_pc
      /\ n.current_pc = cpu.pc /\ n.delay_slot = cpu.branch
      /\ n.mode = cpu.mode /\ n.cause = cpu.cause /\ n.bd = cpu.bd /\ n.epc = cpu.epc
  BY <1>0, FetchedLemma, Zenon
<1>2. Fetches(n, cpu)
  BY <1>1, Zenon DEF Fetches
<1>3. \A s : View(cpu, s) => View(n, s)
  BY <1>1, Zenon DEF View, Land, Data
<1>4. \A i : Clear(cpu, i) => Clear(n, i)
  BY <1>1, Zenon DEF Clear
<1> QED BY <1>2, <1>3, <1>4, Zenon DEF n

\* The record that the program's instructions leave behind.
LEMMA CommitLemma ==
  ASSUME NEW n \in Cpus, NEW z \in ProgStates, View(n, z), NEW p \in Int
  PROVE  LET e == [z EXCEPT !.pc = p] IN
         /\ [pc |-> p, regs |-> [r \in 0 .. 2 |-> DelayedLoad(n).regs[r]],
             lo |-> DelayedLoad(n).lo, gte |-> DelayedLoad(n).gte,
             cell |-> DelayedLoad(n).cell] = e
         /\ DelayedLoad(n).pc = n.pc
         /\ e \in ProgStates /\ e.pc = p
         /\ \A c : View(c, z) => View(c, e)
<1> DEFINE d == DelayedLoad(n)
           e == [z EXCEPT !.pc = p]
<1>1. d \in Cpus /\ Control(d) = Control(n) /\ d.load = NoLoad /\ View(d, z)
  BY LandLemma, Zenon
<1> HIDE DEF d
<1>2. d.pc = n.pc
  BY <1>1, Zenon DEF Control
<1>3. \A r \in UserRegs : d.regs[r] = z.regs[r]
  <2>1. NoLoad.reg = 0 /\ d.regs[0] = 0
    BY <1>1, Zenon DEF NoLoad, Cpus
  <2> QED BY <1>1, <2>1, Zenon DEF View, Land
<1> DEFINE g == [r \in UserRegs |-> d.regs[r]]
<1>4. g = z.regs
  BY <1>3, Zenon DEF ProgStates
<1>5. [r \in 0 .. 2 |-> d.regs[r]] = g
  BY Zenon DEF UserRegs
<1> HIDE DEF g
<1>6. d.lo = z.lo /\ d.gte = z.gte /\ d.cell = z.cell
  BY <1>1, Zenon DEF View
<1>7. [pc |-> p, regs |-> g, lo |-> d.lo, gte |-> d.gte, cell |-> d.cell] = e
  BY <1>4, <1>6 DEF ProgStates
<1>8. e \in ProgStates /\ e.pc = p /\ e.regs = z.regs /\ e.lo = z.lo /\ e.gte = z.gte
      /\ e.cell = z.cell
  BY Zenon DEF ProgStates
<1> HIDE DEF e
<1>9. \A c : View(c, z) => View(c, e)
  BY <1>8, Zenon DEF View
<1> QED BY <1>2, <1>5, <1>7, <1>8, <1>9, Zenon DEF d, e

\* A branch that is run again does the same.
LEMMA RerunLemma ==
  ASSUME NEW s \in ProgStates, NEW i, UserInstr(i), IsBranch(i), RunsAgain(i),
         Ideal!Taken(s, i), NEW a, NEW v, v = a + 8,
         i.op \in {"bal", "jal", "jalr"} => v \in Values,
         NEW w, w = Ideal!Effect(s, i, a)
  PROVE  /\ w \in ProgStates /\ Ideal!Taken(w, i)
         /\ Ideal!Target(w, i, a) = Ideal!Target(s, i, a)
         /\ \A n : View(n, Ideal!Effect(w, i, a)) => View(n, w)
<1> DEFINE r == IF i.op = "jalr" THEN i.d ELSE Link
<1>1. /\ i.s \in UserRegs /\ i.t \in UserRegs /\ r \in UserRegs
  BY OperandLemma DEF Link, UserRegs
<1>2. i.op \in {"beq", "bal", "j", "jal", "jr", "jalr"}
  BY Zenon DEF IsBranch, Branches
<1>3. CASE i.op \in {"bal", "jal", "jalr"}
  <2>1. w = Ideal!Set(s, r, v) /\ Ideal!Effect(w, i, a) = Ideal!Set(w, r, v)
    BY <1>3, Zenon DEF Ideal!Effect, Link, Ideal!Link
  <2>2. i.op \in {"bal", "jalr"} => r # i.s
    BY Zenon DEF RunsAgain
  <2>3. i.op = "bal" => r # i.t
    BY Zenon DEF RunsAgain
  <2>4. r \in UserRegs /\ v \in Values
    BY <1>1, <1>3, Zenon
  <2> HIDE DEF r
  <2>5. /\ w \in ProgStates
        /\ w.lo = s.lo /\ w.gte = s.gte /\ w.cell = s.cell
        /\ \A q \in UserRegs : w.regs[q] = IF q = 0 THEN 0 ELSE IF q = r THEN v ELSE s.regs[q]
    BY <2>1, <2>4, SetLemma
  <2>6. s.regs[0] = 0
    BY Zenon DEF ProgStates
  <2>7. /\ i.op \in {"bal", "jalr"} => w.regs[i.s] = s.regs[i.s]
        /\ i.op = "bal" => w.regs[i.t] = s.regs[i.t]
    BY <1>1, <2>2, <2>3, <2>5, <2>6, Zenon
  <2>8. Ideal!Taken(w, i) /\ Ideal!Target(w, i, a) = Ideal!Target(s, i, a)
    BY <1>3, <2>7, Zenon DEF Ideal!Taken, Ideal!Target
  <2> DEFINE z == Ideal!Set(w, r, v)
  <2>9. z = Ideal!Set(w, r, v)
    BY Zenon
  <2> HIDE DEF z
  <2>10. /\ z.lo = w.lo /\ z.gte = w.gte /\ z.cell = w.cell
         /\ \A q \in UserRegs : z.regs[q] = IF q = 0 THEN 0 ELSE IF q = r THEN v ELSE w.regs[q]
    BY <2>4, <2>5, <2>9, SetLemma
  <2>11. \A q \in UserRegs : z.regs[q] = w.regs[q]
    BY <2>5, <2>10, Zenon
  <2>12. \A n : View(n, z) => View(n, w)
    BY <2>10, <2>11, Zenon DEF View
  <2> QED BY <2>1, <2>5, <2>8, <2>12, Zenon DEF z
<1>4. CASE i.op \in {"beq", "j", "jr"}
  <2>1. w = s /\ Ideal!Effect(w, i, a) = w
    BY <1>4, Zenon DEF Ideal!Effect
  <2> QED BY <2>1, Zenon
<1> QED BY <1>2, <1>3, <1>4, Zenon

----------------------------------------------------------------------------
\* The inductive invariant

\* The program will continue with a branch that is taken, and what the branch
\* makes of it
Taking(f, d) == IsBranch(f[d.pc]) /\ Ideal!Taken(d, f[d.pc])
After(f, d) == Ideal!Effect(d, f[d.pc], d.pc)

\* The processor has the registers of the program, or those of a branch whose
\* delay slot was interrupted: the branch has written the link and will be
\* run again
Seen(f, c, d) == View(c, d) \/ (Taking(f, d) /\ View(c, After(f, d)))

UserModes(c, ms) == c.mode[1] = TRUE /\ ms = <<TRUE>>
KernelModes(c, ms) == c.mode[1] = FALSE /\ c.mode[2] = TRUE /\ ms = <<FALSE, TRUE>>

\* At an instruction of the program
AtUser(f, c, d) ==
  /\ c.pc = d.pc /\ c.next_pc = d.pc + 4 /\ c.branch = FALSE
  /\ c.load.reg # K /\ Clear(c, f[d.pc]) /\ Seen(f, c, d)

\* In the delay slot of a branch that is taken
AtSlot(f, c, d) ==
  /\ Taking(f, d) /\ c.pc = d.pc + 4 /\ c.branch = TRUE
  /\ c.next_pc = Ideal!Target(d, f[d.pc], d.pc)
  /\ c.load = NoLoad /\ View(c, After(f, d))

\* The exception gets back to the instruction the program continues with
Returns(c, d) == c.epc = IF c.cause = "Interrupt" THEN d.pc ELSE d.pc - 4

\* At the k-th instruction of the handler
AtKernel(f, c, d, k) ==
  /\ c.pc = Handler + 4 * k /\ Seen(f, c, d)
  /\ k # 4 => c.next_pc = Handler + 4 * k + 4 /\ c.branch = FALSE
  /\ k = 0 => c.load.reg # K /\ Returns(c, d)
  /\ k = 1 => c.load.reg = K /\ c.load.val = c.epc /\ Returns(c, d)
  /\ k = 2 => c.load.reg = 0 /\ c.regs[K] = c.epc /\ Returns(c, d)
  /\ k = 3 => c.load.reg = 0 /\ c.regs[K] = d.pc
  /\ k = 4 => c.load.reg = 0 /\ c.next_pc = d.pc

Phase(f, c, d, ms) ==
  \/ (AtUser(f, c, d) \/ AtSlot(f, c, d)) /\ UserModes(c, ms)
  \/ \E k \in 0 .. 4 : AtKernel(f, c, d, k) /\ KernelModes(c, ms)

\* The inductive invariant
Steady ==
  /\ Program(code) /\ cpu \in Cpus /\ done \in ProgStates /\ done.pc \in Values
  /\ Phase(code, cpu, done, modes)
CInv ==
  /\ careful \in BOOLEAN /\ irq \in BOOLEAN
  /\ careful => Steady

----------------------------------------------------------------------------
\* Where an instruction leads

\* The addresses of the program are aligned and are not the handler's.
LEMMA AddressLemma ==
  /\ Wrap \in Nat /\ Handler = Wrap + 8 /\ Handler \in Nat
  /\ \A v \in Values : v \in Nat /\ v <= Wrap /\ v # Handler /\ v % 4 = 0
  BY ValuesLemma, UserWordsAssumption DEF Handler, Wrap

\* The pc is not part of what the processor shows of the program.
LEMMA MoveLemma ==
  ASSUME NEW z \in ProgStates, NEW p \in Int, NEW e, e = [z EXCEPT !.pc = p]
  PROVE  e \in ProgStates /\ e.pc = p /\ \A c : View(c, z) => View(c, e)
<1>1. e \in ProgStates /\ e.pc = p /\ e.regs = z.regs /\ e.lo = z.lo /\ e.gte = z.gte
      /\ e.cell = z.cell
  BY Zenon DEF ProgStates
<1> QED BY <1>1, Zenon DEF View

\* What happens at an instruction that is no branch: the program goes on
\* with the next one, through the kernel when the instruction traps
Continues(f, m, d, n, z, e) ==
  /\ n \in Cpus /\ z \in ProgStates /\ View(n, z) /\ n.branch = FALSE
  /\ d.pc + 4 \in Values
  /\ IF Raises(m, f[d.pc])
       THEN /\ n.pc = Handler /\ AtKernel(f, n, e, 0)
            /\ n.mode[1] = FALSE /\ n.mode[2] = TRUE
       ELSE n.pc = d.pc + 4 /\ AtUser(f, n, e) /\ n.mode[1] = TRUE

\* An instruction that is no branch leads to the next one or to the handler.
LEMMA StraightLemma ==
  ASSUME NEW f, Program(f), NEW d \in ProgStates, d.pc \in Values,
         NEW c, c.pc = d.pc, c.next_pc = d.pc + 4, c.branch = FALSE, c.mode[1] = TRUE,
         NEW m, Fetches(m, c), View(m, d), Clear(m, f[d.pc]), ~IsBranch(f[d.pc]),
         NEW n, n = DecodeAndExecute(m, f[d.pc]),
         NEW z, z = Ideal!Effect(d, f[d.pc], d.pc),
         NEW e, e = [z EXCEPT !.pc = d.pc + 4]
  PROVE  Continues(f, m, d, n, z, e)
<1> DEFINE a == d.pc
           i == f[d.pc]
           b == d.pc + 4
<1>1. /\ m \in Cpus /\ UserInstr(i) /\ a # Wrap /\ a < Wrap /\ b \in Values
  <2>1. a # Wrap
    BY ProgramLemma, ConstantsLemma DEF IsBranch, Branches
  <2> QED BY <2>1, ProgramLemma, Zenon DEF Fetches
<1>2. Performs(n, m, z, i)
  BY <1>1, EffectLemma, Zenon
<1>3. /\ n \in Cpus /\ z \in ProgStates /\ View(n, z)
      /\ n.load.reg = 0 \/ (i.op \in Loads /\ n.load.reg = i.t)
      /\ IF Raises(m, i) THEN \E x \in Causes \ {"Interrupt"} : Excepted(n, m, x)
                         ELSE Control(n) = Control(m)
  BY <1>2, Zenon DEF Performs
<1>4. a \in Int /\ b \in Int /\ b = a + 4 /\ b - 4 = a
  BY AddressLemma
<1>5. e.pc = b /\ View(n, e)
  <2>1. e = [z EXCEPT !.pc = b]
    BY Zenon
  <2> HIDE DEF b
  <2> QED BY <1>3, <1>4, <2>1, MoveLemma
<1>6. Seen(f, n, e)
  BY <1>5, Zenon DEF Seen
<1>9. n.load.reg # K
  BY <1>1, <1>3 DEF UserInstr, K
<1>7. CASE Raises(m, i)
  <2>1. PICK x \in Causes \ {"Interrupt"} : Excepted(n, m, x)
    BY <1>3, <1>7, Zenon
  <2>2. n.pc = Handler /\ n.next_pc = Handler + 4 /\ n.branch = FALSE
        /\ n.mode = <<FALSE, m.mode[1], m.mode[2]>> /\ n.cause = x /\ m.mode = c.mode
    BY <2>1, Zenon DEF Excepted, Fetches
  <2>3. n.mode[1] = FALSE /\ n.mode[2] = TRUE
    BY <2>2
  <2>4. m.delay_slot = FALSE /\ m.current_pc = a
    BY Zenon DEF Fetches
  <2>5. n.epc = a
    BY <2>1, <2>4, Zenon DEF Excepted
  <2>6. Returns(n, e)
    BY <1>4, <1>5, <2>2, <2>5, Zenon DEF Returns
  <2>8. Handler + 4 * 0 = Handler /\ Handler + 4 * 0 + 4 = Handler + 4
    BY AddressLemma
  <2>9. AtKernel(f, n, e, 0)
    BY <1>6, <2>2, <1>9, <2>6, <2>8 DEF AtKernel
  <2> QED BY <1>1, <1>3, <1>7, <2>2, <2>3, <2>9, Zenon DEF Continues
<1>8. CASE ~Raises(m, i)
  <2>1. n.pc = m.pc /\ n.next_pc = m.next_pc /\ n.branch = m.branch /\ n.mode = m.mode
    BY <1>3, <1>8, Zenon DEF Control
  <2>2. m.pc = b /\ m.branch = FALSE /\ m.mode[1] = TRUE
    BY Zenon DEF Fetches
  <2>3. m.next_pc = b + 4
    BY Zenon DEF Fetches
  <2>4. Clear(n, f[b])
    <3>1. CASE n.load.reg = 0
      BY <3>1, Zenon DEF Clear
    <3>2. CASE i.op \in Loads /\ n.load.reg = i.t
      <4>1. b \in Follow(f, a)
        BY Zenon DEF Follow
      <4>2. i.t \notin Reads(f[b])
        BY <1>1, <3>2, <4>1, ProgramLemma, Zenon
      <4> QED BY <3>2, <4>2, Zenon DEF Clear
    <3> QED BY <1>3, <3>1, <3>2, Zenon
  <2>5. AtUser(f, n, e)
    BY <1>5, <1>6, <1>9, <2>1, <2>2, <2>3, <2>4, Zenon DEF AtUser
  <2> QED BY <1>1, <1>3, <1>8, <2>1, <2>2, <2>5, Zenon DEF Continues
<1> QED BY <1>7, <1>8, Zenon

\* What happens at a branch
Forks(f, d, n, z, e) ==
  /\ n \in Cpus /\ z \in ProgStates /\ View(n, z) /\ n.mode[1] = TRUE
  /\ n.pc = d.pc + 4
  /\ IF Ideal!Taken(d, f[d.pc])
       THEN AtSlot(f, n, d)
       ELSE d.pc + 4 \in Values /\ n.branch = FALSE /\ AtUser(f, n, e)

\* A branch of the program leads to its delay slot, or to the instruction
\* after it when it is not taken.
LEMMA BranchStepLemma ==
  ASSUME NEW f, Program(f), NEW d \in ProgStates, d.pc \in Values,
         NEW c, AtUser(f, c, d), c.mode[1] = TRUE,
         NEW m, Fetches(m, c), \A s : View(c, s) => View(m, s),
         Clear(m, f[d.pc]), IsBranch(f[d.pc]),
         NEW n, n = DecodeAndExecute(m, f[d.pc]),
         NEW z, z = Ideal!Effect(d, f[d.pc], d.pc),
         NEW e, e = [z EXCEPT !.pc = d.pc + 4]
  PROVE  Forks(f, d, n, z, e)
<1> DEFINE a == d.pc
           i == f[d.pc]
           b == d.pc + 4
           v == d.pc + 8
<1>1. /\ m \in Cpus /\ UserInstr(i) /\ RunsAgain(i)
  BY ProgramLemma, Zenon DEF Fetches
<1>2. a \in Int /\ b \in Int /\ b = a + 4 /\ v = a + 8 /\ v = b + 4
  BY AddressLemma
<1>3. m.pc = b /\ m.next_pc = b + 4 /\ m.current_pc = a /\ m.branch = FALSE
      /\ m.mode[1] = TRUE
  BY Zenon DEF Fetches, AtUser
<1>4. m.next_pc = v
  BY <1>2, <1>3, Zenon
<1>5. i.op \in {"bal", "jal", "jalr"} => v \in Values
  BY RoomLemma, Zenon
<1>6. ~Ideal!Taken(d, i) => b \in Values
  <2>1. ~Ideal!Taken(d, i) => i.op # "j"
    BY Zenon DEF Ideal!Taken
  <2> QED BY <2>1, RoomLemma, Zenon
<1> HIDE DEF a, b, v
<1>7. ASSUME NEW s \in ProgStates, View(m, s)
      PROVE  /\ Branched(n, m, s, i, Ideal!Effect(s, i, a))
             /\ Ideal!Target(s, i, a) \in Values
  BY <1>1, <1>2, <1>4, <1>5, <1>7, BranchesLemma, Zenon DEF a
<1>8. ASSUME NEW s \in ProgStates, View(m, s)
      PROVE  /\ n \in Cpus /\ n.load = NoLoad /\ n.pc = m.pc /\ n.mode = m.mode
             /\ View(n, Ideal!Effect(s, i, a))
             /\ Ideal!Effect(s, i, a) \in ProgStates
             /\ Ideal!Taken(s, i) => n.branch = TRUE /\ n.next_pc = Ideal!Target(s, i, a)
             /\ ~Ideal!Taken(s, i) => n.branch = FALSE /\ n.next_pc = m.next_pc
  BY <1>3, <1>7, <1>8, Zenon DEF Branched
<1>9. CASE View(c, d)
  <2>1. View(m, d)
    BY <1>9, Zenon
  <2>2. /\ n \in Cpus /\ n.load = NoLoad /\ n.pc = m.pc /\ n.mode = m.mode
        /\ View(n, z) /\ z \in ProgStates
        /\ Ideal!Taken(d, i) => n.branch = TRUE /\ n.next_pc = Ideal!Target(d, i, a)
        /\ ~Ideal!Taken(d, i) => n.branch = FALSE /\ n.next_pc = m.next_pc
    BY <1>8, <2>1, Zenon DEF a
  <2>3. CASE Ideal!Taken(d, i)
    <3>1. AtSlot(f, n, d)
      BY <1>3, <2>2, <2>3, Zenon DEF AtSlot, Taking, After, a, b
    <3> QED BY <1>3, <2>2, <2>3, <3>1, Zenon DEF b, Forks
  <2>4. CASE ~Ideal!Taken(d, i)
    <3>1. e.pc = b /\ View(n, e)
      <4>1. e = [z EXCEPT !.pc = b]
        BY Zenon DEF b
      <4> QED BY <1>2, <2>2, <4>1, MoveLemma
    <3>2. Clear(n, f[b]) /\ n.load.reg # K
      BY <2>2 DEF Clear, NoLoad, K
    <3>3. AtUser(f, n, e)
      BY <1>3, <2>2, <2>4, <3>1, <3>2, Zenon DEF AtUser, Seen
    <3> QED BY <1>3, <1>6, <2>2, <2>4, <3>3, Zenon DEF b, Forks
  <2> QED BY <2>3, <2>4, Zenon
<1>10. CASE Taking(f, d) /\ View(c, After(f, d))
  <2>1. Ideal!Taken(d, i) /\ View(m, z)
    BY <1>10, Zenon DEF Taking, After
  <2>2. /\ z \in ProgStates /\ Ideal!Taken(z, i)
        /\ Ideal!Target(z, i, a) = Ideal!Target(d, i, a)
        /\ \A x : View(x, Ideal!Effect(z, i, a)) => View(x, z)
    BY <1>1, <1>2, <1>5, <2>1, RerunLemma DEF a
  <2>3. /\ n \in Cpus /\ n.load = NoLoad /\ n.pc = m.pc /\ n.mode = m.mode
        /\ View(n, Ideal!Effect(z, i, a))
        /\ n.branch = TRUE /\ n.next_pc = Ideal!Target(z, i, a)
    BY <1>8, <2>1, <2>2, Zenon
  <2>4. View(n, z)
    BY <2>2, <2>3, Zenon
  <2>5. AtSlot(f, n, d)
    BY <1>3, <1>10, <2>2, <2>3, <2>4, Zenon DEF AtSlot, Taking, After, a, b
  <2> QED BY <1>3, <2>1, <2>2, <2>3, <2>4, <2>5, Zenon DEF b, Forks
<1> QED BY <1>9, <1>10, Zenon DEF AtUser, Seen

\* What happens in a delay slot
Lands(f, m, d, n, z, u, e) ==
  /\ n \in Cpus /\ z \in ProgStates /\ View(n, z) /\ n.branch = FALSE
  /\ u \in Values /\ n.pc = u /\ ~Raises(m, f[d.pc + 4])
  /\ AtUser(f, n, e) /\ n.mode[1] = TRUE

\* The instruction in the delay slot of a branch that is taken leads to the
\* target of the branch.
LEMMA SlotLemma ==
  ASSUME NEW f, Program(f), NEW d \in ProgStates, d.pc \in Values,
         NEW c, AtSlot(f, c, d), c.mode[1] = TRUE,
         NEW m, Fetches(m, c), \A s : View(c, s) => View(m, s),
         NEW n, n = DecodeAndExecute(m, f[d.pc + 4]),
         NEW z, z = Ideal!Effect(After(f, d), f[d.pc + 4], d.pc + 4),
         NEW u, u = Ideal!Target(d, f[d.pc], d.pc),
         NEW e, e = [z EXCEPT !.pc = u]
  PROVE  Lands(f, m, d, n, z, u, e)
<1> DEFINE a == d.pc
           b == d.pc + 4
           v == d.pc + 8
           i == f[d.pc]
           j == f[d.pc + 4]
           w == After(f, d)
<1>0. a \in Values /\ a \in Int /\ b \in Int /\ b = a + 4 /\ v = a + 8 /\ b - 4 = a /\ b >= 4
  BY AddressLemma
<1>1. /\ IsBranch(i) /\ Ideal!Taken(d, i) /\ c.next_pc = u /\ c.load = NoLoad /\ View(c, w)
  BY Zenon DEF AtSlot, Taking
<1>2. /\ UserInstr(i) /\ UserInstr(j) /\ ~IsBranch(j) /\ j.op \notin Traps
      /\ ~Misaligned(j.imm) /\ RunsAgain(i)
  BY <1>1, ProgramLemma, Zenon
<1>3. i.op \in {"bal", "jal", "jalr"} => v \in Values
  BY <1>1, RoomLemma, Zenon
<1>4. w \in ProgStates
  <2> HIDE DEF v
  <2> QED BY <1>0, <1>1, <1>2, <1>3, RerunLemma DEF After
<1>5. /\ m \in Cpus /\ View(m, w) /\ m.load = NoLoad /\ m.pc = u /\ m.branch = FALSE
      /\ m.mode[1] = TRUE /\ m.next_pc = u + 4
  BY <1>1, Zenon DEF Fetches
<1>6. NoLoad.reg = 0
  BY Zenon DEF NoLoad
<1>7. Clear(m, j)
  BY <1>5, <1>6, Zenon DEF Clear
<1>8. u \in Values
  <2>1. i.s \in UserRegs /\ i.op \notin {"lw", "sw"}
    BY <1>1, <1>2, OperandLemma, Zenon DEF IsBranch, Branches
  <2>2. i.imm \in Values
    BY <1>2, <2>1, Zenon DEF UserInstr
  <2>3. d.regs[i.s] \in Values
    BY <2>1, Zenon DEF ProgStates
  <2> QED BY <2>2, <2>3, Zenon DEF Ideal!Target
<1>9. ~Raises(m, j)
  <2>1. j.op \notin {"syscall", "illegal", "cop1", "break", "add", "lwc2", "swc2"}
    BY <1>2, Zenon DEF Traps, UserInstr, Ordinary, Branches
  <2>2. j.s \in UserRegs /\ j.imm \in Nat
    BY <1>2, OperandLemma, Zenon
  <2>3. m.regs[j.s] \in Values
    BY <1>4, <1>5, <1>6, <2>2, ReadLemma, Zenon
  <2>4. m.regs[j.s] \in Nat /\ m.regs[j.s] % 4 = 0
    BY <2>3, AddressLemma, Zenon
  <2> DEFINE x == m.regs[j.s]
             y == j.imm
  <2>5. x \in Nat /\ x % 4 = 0 /\ y \in Nat /\ y % 4 = 0
    BY <1>2, <2>2, <2>4, Zenon DEF Misaligned
  <2> HIDE DEF x, y
  <2>6. ~Misaligned(x + y)
    BY <2>5 DEF Misaligned
  <2> QED BY <2>1, <2>6, Zenon DEF Raises, x, y
<1>10. Performs(n, m, z, j)
  <2> HIDE DEF b
  <2> QED BY <1>2, <1>4, <1>5, <1>7, EffectLemma, Zenon DEF b
<1>11. /\ n \in Cpus /\ z \in ProgStates /\ View(n, z)
       /\ n.load.reg = 0 \/ (j.op \in Loads /\ n.load.reg = j.t)
       /\ Control(n) = Control(m)
  BY <1>9, <1>10, Zenon DEF Performs
<1>12. n.pc = u /\ n.next_pc = u + 4 /\ n.branch = FALSE /\ n.mode[1] = TRUE
  <2>1. n.pc = m.pc /\ n.next_pc = m.next_pc /\ n.branch = m.branch /\ n.mode = m.mode
    BY <1>11, Zenon DEF Control
  <2> QED BY <1>5, <2>1, Zenon
<1>13. e.pc = u /\ View(n, e)
  <2>1. u \in Int
    BY <1>8, AddressLemma
  <2> QED BY <1>11, <2>1, MoveLemma
<1>14. n.load.reg # K
  BY <1>2, <1>11 DEF UserInstr, K
<1>15. Clear(n, f[u])
  <2>1. CASE n.load.reg = 0
    BY <2>1, Zenon DEF Clear
  <2>2. CASE j.op \in Loads /\ n.load.reg = j.t
    <3>1. a # Wrap
      <4>1. Nop.op \notin Loads
        BY ConstantsLemma, Zenon DEF Loads
      <4> QED BY <2>2, <4>1, ProgramLemma, Zenon
    <3>2. b \in Values
      BY <1>0, <3>1, ProgramLemma, Zenon
    <3>3. b # Wrap
      <4>1. IsBranch(f[Wrap])
        BY ProgramLemma, ConstantsLemma, Zenon DEF IsBranch, Branches
      <4> QED BY <1>2, <4>1, Zenon
    <3>4. b < Wrap /\ f[b].op \in Loads
      BY <2>2, <3>2, <3>3, AddressLemma
    <3>5. i.op \in {"jr", "jalr"} \/ u = i.imm
      BY Zenon DEF Ideal!Target
    <3>6. u \in Follow(f, b)
      <4> HIDE DEF b
      <4> QED BY <1>0, <1>1, <1>8, <3>5, Zenon DEF Follow, a
    <3>7. j.t \notin Reads(f[u])
      BY <3>2, <3>4, <3>6, ProgramLemma, Zenon
    <3> QED BY <2>2, <3>7, Zenon DEF Clear
  <2> QED BY <1>11, <2>1, <2>2, Zenon
<1>16. AtUser(f, n, e)
  BY <1>12, <1>13, <1>14, <1>15, Zenon DEF AtUser, Seen
<1> QED BY <1>8, <1>9, <1>11, <1>12, <1>16, Zenon DEF Lands

\* What is seen of the program does not change with the kernel's register.
LEMMA SameLemma ==
  ASSUME NEW n, NEW m, Data(n) = Data(m), \A q \in UserRegs : Land(n, q) = Land(m, q),
         NEW f, NEW d, Seen(f, m, d)
  PROVE  Seen(f, n, d)
<1>1. n.lo = m.lo /\ n.gte = m.gte /\ n.cell = m.cell
  BY Zenon DEF Data
<1>2. \A s : View(m, s) => View(n, s)
  BY <1>1, Zenon DEF View
<1> QED BY <1>2, Zenon DEF Seen

\* An exception masks the interrupts and keeps the bit it masks them with.
LEMMA MaskLemma ==
  ASSUME NEW n, NEW m, NEW x, Excepted(n, m, x), m.mode[1] = TRUE
  PROVE  n.mode[1] = FALSE /\ n.mode[2] = TRUE
<1>1. n.mode = <<FALSE, m.mode[1], m.mode[2]>>
  BY Zenon DEF Excepted
<1> QED BY <1>1

\* An interrupt, before an instruction or in a delay slot, leads to the
\* handler with the EPC that resumes the instruction or its branch.
LEMMA InterruptLemma ==
  ASSUME NEW f, NEW d \in ProgStates, d.pc \in Values,
         NEW c, AtUser(f, c, d) \/ AtSlot(f, c, d), c.mode[1] = TRUE,
         NEW m, Fetches(m, c), \A s : View(c, s) => View(m, s),
         NEW n, n = Exception(m, "Interrupt")
  PROVE  n \in Cpus /\ AtKernel(f, n, d, 0) /\ n.mode[1] = FALSE /\ n.mode[2] = TRUE
<1>1. m \in Cpus /\ "Interrupt" \in Causes
  BY Zenon DEF Fetches, Causes
<1>2. /\ n \in Cpus /\ Data(n) = Data(m) /\ n.load = m.load /\ n.regs = m.regs
      /\ Excepted(n, m, "Interrupt")
  BY <1>1, ExceptionLemma, Zenon
<1>3. Seen(f, m, d)
  BY Zenon DEF Seen, AtUser, AtSlot
<1>4. Seen(f, n, d)
  <2>1. \A q \in UserRegs : Land(n, q) = Land(m, q)
    BY <1>2, Zenon DEF Land
  <2> QED BY <1>2, <1>3, <2>1, SameLemma, Zenon
<1>5. n.load.reg # K
  <2>1. n.load = c.load
    BY <1>2, Zenon DEF Fetches
  <2>2. NoLoad.reg # K
    BY DEF NoLoad, K
  <2> QED BY <2>1, <2>2, Zenon DEF AtUser, AtSlot
<1>6. n.pc = Handler /\ n.next_pc = Handler + 4 /\ n.branch = FALSE /\ n.cause = "Interrupt"
  BY <1>2, Zenon DEF Excepted, Fetches
<1>7. n.mode[1] = FALSE /\ n.mode[2] = TRUE
  <2>1. m.mode[1] = TRUE
    BY Zenon DEF Fetches
  <2> QED BY <1>2, <2>1, MaskLemma, Zenon
<1>8. n.epc = d.pc
  <2>1. m.delay_slot = c.branch /\ m.current_pc = c.pc
    BY Zenon DEF Fetches
  <2>2. n.epc = IF m.delay_slot THEN m.current_pc - 4 ELSE m.current_pc
    BY <1>2, Zenon DEF Excepted
  <2>3. CASE AtUser(f, c, d)
    BY <2>1, <2>2, <2>3, Zenon DEF AtUser
  <2>4. CASE AtSlot(f, c, d)
    <3>1. c.branch = TRUE /\ c.pc = d.pc + 4
      BY <2>4, Zenon DEF AtSlot
    <3>2. n.epc = (d.pc + 4) - 4
      BY <2>1, <2>2, <3>1, Zenon
    <3>3. \A x \in Nat : (x + 4) - 4 = x
      OBVIOUS
    <3> QED BY <3>2, <3>3, AddressLemma, Zenon
  <2> QED BY <2>3, <2>4, Zenon
<1>9. Returns(n, d)
  BY <1>6, <1>8, Zenon DEF Returns
<1>10. Handler + 4 * 0 = Handler /\ Handler + 4 * 0 + 4 = Handler + 4
  BY AddressLemma
<1>11. AtKernel(f, n, d, 0)
  BY <1>4, <1>5, <1>6, <1>9, <1>10 DEF AtKernel
<1> QED BY <1>2, <1>7, <1>11, Zenon

----------------------------------------------------------------------------
\* The handler

\* MFC0: the load in flight lands and EPC is on its way.
LEMMA KernelLoads ==
  ASSUME NEW f, NEW d, NEW c, AtKernel(f, c, d, 0),
         NEW m, Fetches(m, c), Seen(f, m, d),
         NEW n, n = DecodeAndExecute(m, I("mfc0", 0, K, 0, 0))
  PROVE  n \in Cpus /\ AtKernel(f, n, d, 1) /\ n.mode = c.mode
<1>1. m \in Cpus /\ m.epc \in Words /\ K \in Regs /\ UserRegs \subseteq Regs /\ K \notin UserRegs
      /\ K # 0
  BY DEF Fetches, Cpus, CpuRecs, K, Regs, UserRegs
<1>2. n = DelayedLoadChain(m, K, m.epc)
  BY Zenon DEF DecodeAndExecute, Mfc0, I
<1>3. /\ n \in Cpus /\ Control(n) = Control(m) /\ Data(n) = Data(m)
      /\ n.load = [reg |-> K, val |-> m.epc]
      /\ \A q \in Regs : Land(n, q) = IF q = 0 THEN 0 ELSE IF q = K THEN m.epc ELSE Land(m, q)
  <2> DEFINE v == m.epc
  <2>1. v \in Words /\ n = DelayedLoadChain(m, K, v)
    BY <1>1, <1>2, Zenon
  <2> HIDE DEF v
  <2>2. /\ n \in Cpus /\ Control(n) = Control(m) /\ Data(n) = Data(m)
        /\ n.load = [reg |-> K, val |-> v]
        /\ \A q \in Regs : Land(n, q) = IF q = 0 THEN 0 ELSE IF q = K THEN v ELSE Land(m, q)
    BY <1>1, <2>1, ChainLemma
  <2> QED BY <2>2, Zenon DEF v
<1>4. \A q \in UserRegs : Land(n, q) = Land(m, q)
  <2>1. Land(m, 0) = 0
    BY Zenon DEF Land
  <2> QED BY <1>1, <1>3, <2>1, Zenon
<1>5. Seen(f, n, d)
  BY <1>3, <1>4, SameLemma, Zenon
<1>6. n.pc = m.pc /\ n.next_pc = m.next_pc /\ n.branch = m.branch /\ n.mode = m.mode
      /\ n.cause = m.cause /\ n.epc = m.epc
  BY <1>3, Zenon DEF Control
<1>7. /\ m.pc = c.next_pc /\ m.next_pc = c.next_pc + 4 /\ m.branch = FALSE /\ m.mode = c.mode
      /\ m.cause = c.cause /\ m.epc = c.epc
  BY Zenon DEF Fetches
<1>8. c.next_pc = Handler + 4 * 0 + 4 /\ Returns(c, d)
  BY DEF AtKernel
<1>9. Returns(n, d)
  BY <1>6, <1>7, <1>8, Zenon DEF Returns
<1>10. /\ Handler + 4 * 0 + 4 = Handler + 4 * 1
       /\ (Handler + 4 * 0 + 4) + 4 = Handler + 4 * 1 + 4
  BY AddressLemma
<1>11. n.load.reg = K /\ n.load.val = n.epc
  BY <1>3, <1>6
<1>12. n.pc = Handler + 4 * 1 /\ n.next_pc = Handler + 4 * 1 + 4 /\ n.branch = FALSE
  BY <1>6, <1>7, <1>8, <1>10, Zenon
<1>13. AtKernel(f, n, d, 1)
  BY <1>5, <1>9, <1>11, <1>12 DEF AtKernel
<1> QED BY <1>3, <1>6, <1>7, <1>13, Zenon

\* The acknowledge: EPC is in the kernel's register.
LEMMA KernelAcks ==
  ASSUME NEW f, NEW d, NEW c, AtKernel(f, c, d, 1),
         NEW m, Fetches(m, c), Seen(f, m, d),
         NEW n, n = DecodeAndExecute(m, I("ack", 0, 0, 0, 0))
  PROVE  n \in Cpus /\ AtKernel(f, n, d, 2) /\ n.mode = c.mode
<1>1. m \in Cpus /\ K \in Regs /\ UserRegs \subseteq Regs /\ K # 0
  BY DEF Fetches, K, Regs, UserRegs
<1>2. n = DelayedLoad(m)
  BY Zenon DEF DecodeAndExecute, I
<1>3. /\ n \in Cpus /\ Control(n) = Control(m) /\ Data(n) = Data(m)
      /\ n.load = NoLoad
      /\ \A q \in Regs : n.regs[q] = Land(m, q)
  BY <1>1, <1>2, DelayedLoadLemma, Zenon
<1>4. n.load.reg = 0
  BY <1>3 DEF NoLoad
<1>5. \A q \in UserRegs : Land(n, q) = Land(m, q)
  BY <1>1, <1>3, <1>4, Zenon DEF Land
<1>6. Seen(f, n, d)
  BY <1>3, <1>5, SameLemma, Zenon
<1>7. n.pc = m.pc /\ n.next_pc = m.next_pc /\ n.branch = m.branch /\ n.mode = m.mode
      /\ n.cause = m.cause /\ n.epc = m.epc
  BY <1>3, Zenon DEF Control
<1>8. /\ m.pc = c.next_pc /\ m.next_pc = c.next_pc + 4 /\ m.branch = FALSE /\ m.mode = c.mode
      /\ m.cause = c.cause /\ m.epc = c.epc /\ m.load = c.load
  BY Zenon DEF Fetches
<1>9. /\ c.next_pc = Handler + 4 * 1 + 4 /\ Returns(c, d)
      /\ c.load.reg = K /\ c.load.val = c.epc
  BY DEF AtKernel
<1>10. Returns(n, d)
  BY <1>7, <1>8, <1>9, Zenon DEF Returns
<1>11. /\ Handler + 4 * 1 + 4 = Handler + 4 * 2
       /\ (Handler + 4 * 1 + 4) + 4 = Handler + 4 * 2 + 4
  BY AddressLemma
<1>12. n.pc = Handler + 4 * 2 /\ n.next_pc = Handler + 4 * 2 + 4 /\ n.branch = FALSE
  BY <1>7, <1>8, <1>9, <1>11, Zenon
<1>13. n.regs[K] = n.epc
  <2>1. Land(m, K) = m.epc
    BY <1>1, <1>8, <1>9, Zenon DEF Land
  <2> QED BY <1>1, <1>3, <1>7, <2>1, Zenon
<1>14. AtKernel(f, n, d, 2)
  BY <1>4, <1>6, <1>10, <1>12, <1>13 DEF AtKernel
<1> QED BY <1>3, <1>7, <1>8, <1>14, Zenon

\* The kernel's choice: an interrupted instruction is run again, one that
\* trapped is stepped over.
LEMMA KernelSkips ==
  ASSUME NEW f, NEW d, d.pc \in Values, NEW c, AtKernel(f, c, d, 2),
         NEW m, Fetches(m, c), Seen(f, m, d),
         NEW n, n = DecodeAndExecute(m, I("skip", K, 0, K, 0))
  PROVE  n \in Cpus /\ AtKernel(f, n, d, 3) /\ n.mode = c.mode
<1>1. m \in Cpus /\ K \in Regs /\ UserRegs \subseteq Regs /\ K # 0 /\ K \notin UserRegs
  BY DEF Fetches, K, Regs, UserRegs
<1>2. n = SetReg(DelayedLoad(m), K, m.regs[K] + (IF m.cause = "Interrupt" THEN 0 ELSE 4))
  BY Zenon DEF DecodeAndExecute, Skip, I
<1>3. /\ m.pc = c.next_pc /\ m.next_pc = c.next_pc + 4 /\ m.branch = FALSE /\ m.mode = c.mode
      /\ m.cause = c.cause /\ m.epc = c.epc /\ m.load = c.load /\ m.regs = c.regs
  BY Zenon DEF Fetches
<1>4. c.next_pc = Handler + 4 * 2 + 4 /\ Returns(c, d) /\ c.regs[K] = c.epc
  BY DEF AtKernel
<1>5. m.regs[K] + (IF m.cause = "Interrupt" THEN 0 ELSE 4) = d.pc
  <2>1. m.regs[K] = IF m.cause = "Interrupt" THEN d.pc ELSE d.pc - 4
    BY <1>3, <1>4, Zenon DEF Returns
  <2> DEFINE x == m.regs[K]
             y == d.pc
             b == m.cause = "Interrupt"
  <2>2. x = IF b THEN y ELSE y - 4
    BY <2>1, Zenon
  <2>3. y \in Nat
    BY AddressLemma, Zenon
  <2> HIDE DEF x, y, b
  <2>4. x + (IF b THEN 0 ELSE 4) = y
    BY <2>2, <2>3
  <2> QED BY <2>4, Zenon DEF x, y, b
<1> DEFINE k == DelayedLoad(m)
           v == d.pc
<1>6. n = SetReg(k, K, v) /\ v \in Words /\ k = DelayedLoad(m)
  BY <1>2, <1>5, ValuesLemma, Zenon
<1> HIDE DEF k, v
<1>7. /\ k \in Cpus /\ Control(k) = Control(m) /\ Data(k) = Data(m)
      /\ k.load = NoLoad
      /\ \A q \in Regs : k.regs[q] = Land(m, q)
  BY <1>1, <1>6, DelayedLoadLemma, Zenon
<1>8. k \in CpuRecs
  BY <1>7, Zenon DEF Cpus
<1>9. /\ n \in Cpus /\ Control(n) = Control(k) /\ Data(n) = Data(k)
      /\ n.load = k.load
      /\ \A q \in Regs : n.regs[q] = IF q = 0 THEN 0 ELSE IF q = K THEN v ELSE k.regs[q]
  BY <1>1, <1>6, <1>8, SetRegLemma
<1>10. n.load.reg = 0
  BY <1>7, <1>9 DEF NoLoad
<1>11. \A q \in UserRegs : Land(n, q) = Land(m, q)
  BY <1>1, <1>7, <1>9, <1>10, Zenon DEF Land
<1>12. Seen(f, n, d)
  BY <1>7, <1>9, <1>11, SameLemma, Zenon
<1>13. n.pc = m.pc /\ n.next_pc = m.next_pc /\ n.branch = m.branch /\ n.mode = m.mode
  BY <1>7, <1>9, Zenon DEF Control
<1>14. /\ Handler + 4 * 2 + 4 = Handler + 4 * 3
       /\ (Handler + 4 * 2 + 4) + 4 = Handler + 4 * 3 + 4
  BY AddressLemma
<1>15. n.pc = Handler + 4 * 3 /\ n.next_pc = Handler + 4 * 3 + 4 /\ n.branch = FALSE
  BY <1>3, <1>4, <1>13, <1>14, Zenon
<1>16. n.regs[K] = d.pc
  BY <1>1, <1>9, Zenon DEF v
<1>17. AtKernel(f, n, d, 3)
  BY <1>10, <1>12, <1>15, <1>16 DEF AtKernel
<1> QED BY <1>3, <1>9, <1>13, <1>17, Zenon

\* The jump back.
LEMMA KernelJumps ==
  ASSUME NEW f, NEW d, d.pc \in Values, NEW c, AtKernel(f, c, d, 3),
         NEW m, Fetches(m, c), Seen(f, m, d),
         NEW n, n = DecodeAndExecute(m, I("jr", K, 0, 0, 0))
  PROVE  n \in Cpus /\ AtKernel(f, n, d, 4) /\ n.mode = c.mode
<1>1. m \in Cpus /\ UserRegs \subseteq Regs
  BY DEF Fetches, Regs, UserRegs
<1>2. n = BranchTo(DelayedLoad(m), m.regs[K])
  BY Zenon DEF DecodeAndExecute, Jr, I
<1>3. m.pc = c.next_pc /\ m.mode = c.mode /\ m.regs = c.regs
  BY Zenon DEF Fetches
<1>4. c.next_pc = Handler + 4 * 3 + 4 /\ c.regs[K] = d.pc
  BY DEF AtKernel
<1> DEFINE k == DelayedLoad(m)
           v == d.pc
<1>5. n = BranchTo(k, v) /\ v \in Int /\ k = DelayedLoad(m)
  BY <1>2, <1>3, <1>4, AddressLemma
<1> HIDE DEF k, v
<1>6. /\ k \in Cpus /\ Control(k) = Control(m) /\ Data(k) = Data(m)
      /\ k.load = NoLoad
      /\ \A q \in Regs : k.regs[q] = Land(m, q)
  BY <1>1, <1>5, DelayedLoadLemma, Zenon
<1>7. /\ n \in Cpus /\ Data(n) = Data(k) /\ n.load = k.load /\ n.regs = k.regs
      /\ Turned(n, k, v)
  BY <1>5, <1>6, BranchLemma, Zenon
<1>8. n.load.reg = 0
  BY <1>6, <1>7 DEF NoLoad
<1>9. \A q \in UserRegs : Land(n, q) = Land(m, q)
  BY <1>1, <1>6, <1>7, <1>8, Zenon DEF Land
<1>10. Seen(f, n, d)
  BY <1>6, <1>7, <1>9, SameLemma, Zenon
<1>11. k.pc = m.pc /\ k.mode = m.mode
  BY <1>6, Zenon DEF Control
<1>12. n.next_pc = v /\ n.pc = k.pc /\ n.mode = k.mode
  BY <1>7, Zenon DEF Turned
<1>13. Handler + 4 * 3 + 4 = Handler + 4 * 4
  BY AddressLemma
<1>14. n.pc = Handler + 4 * 4 /\ n.next_pc = d.pc
  BY <1>3, <1>4, <1>11, <1>12, <1>13, Zenon DEF v
<1>15. AtKernel(f, n, d, 4)
  BY <1>8, <1>10, <1>14 DEF AtKernel
<1> QED BY <1>3, <1>7, <1>11, <1>12, <1>15, Zenon

\* RFE in the delay slot of the jump: the program continues.
LEMMA KernelReturns ==
  ASSUME NEW f, NEW d, d.pc \in Values, NEW c, AtKernel(f, c, d, 4), c.mode[2] = TRUE,
         NEW m, Fetches(m, c), Seen(f, m, d),
         NEW n, n = DecodeAndExecute(m, I("rfe", 0, 0, 0, 0))
  PROVE  n \in Cpus /\ AtUser(f, n, d) /\ n.mode[1] = TRUE
<1>1. m \in Cpus /\ UserRegs \subseteq Regs
  BY DEF Fetches, Regs, UserRegs
<1>2. n = ReturnFromException(DelayedLoad(m))
  BY Zenon DEF DecodeAndExecute, Rfe, I
<1>3. m.pc = c.next_pc /\ m.next_pc = c.next_pc + 4 /\ m.mode = c.mode /\ m.branch = FALSE
  BY Zenon DEF Fetches
<1>4. c.next_pc = d.pc
  BY Zenon DEF AtKernel
<1> DEFINE k == DelayedLoad(m)
<1>5. n = ReturnFromException(k) /\ k = DelayedLoad(m)
  BY <1>2, Zenon
<1> HIDE DEF k
<1>6. /\ k \in Cpus /\ Control(k) = Control(m) /\ Data(k) = Data(m)
      /\ k.load = NoLoad
      /\ \A q \in Regs : k.regs[q] = Land(m, q)
  BY <1>1, <1>5, DelayedLoadLemma, Zenon
<1> DEFINE x == k.mode[2]
           y == k.mode[3]
           md == <<x, y, y>>
<1>7. x \in BOOLEAN /\ y \in BOOLEAN
  BY <1>6 DEF Cpus, CpuRecs
<1>8. n = [k EXCEPT !.mode = md]
  BY <1>5, Zenon DEF ReturnFromException
<1> HIDE DEF x, y
<1>9. md \in [1 .. 3 -> BOOLEAN] /\ md[1] = x
  BY <1>7
<1> HIDE DEF md
<1>10. /\ n \in CpuRecs /\ n.regs = k.regs /\ n.load = k.load /\ n.mode = md
       /\ n.pc = k.pc /\ n.next_pc = k.next_pc /\ n.branch = k.branch
       /\ n.lo = k.lo /\ n.gte = k.gte /\ n.cell = k.cell
  BY <1>6, <1>8, <1>9, Zenon DEF Cpus, CpuRecs
<1>11. n \in Cpus /\ Data(n) = Data(k)
  BY <1>6, <1>10, Zenon DEF Cpus, Data
<1>12. n.load.reg = 0
  BY <1>6, <1>10 DEF NoLoad
<1>13. \A q \in UserRegs : Land(n, q) = Land(m, q)
  BY <1>1, <1>6, <1>10, <1>12 DEF Land
<1>14. Seen(f, n, d)
  BY <1>6, <1>11, <1>13, SameLemma, Zenon
<1>15. k.pc = m.pc /\ k.next_pc = m.next_pc /\ k.mode = m.mode /\ k.branch = m.branch
  BY <1>6, Zenon DEF Control
<1>16. n.pc = d.pc /\ n.next_pc = d.pc + 4 /\ n.branch = FALSE
  BY <1>3, <1>4, <1>10, <1>15, Zenon
<1>17. n.mode[1] = TRUE
  BY <1>3, <1>9, <1>10, <1>15, Zenon DEF x
<1>18. Clear(n, f[d.pc]) /\ n.load.reg # K
  BY <1>12 DEF Clear, K
<1>19. AtUser(f, n, d)
  BY <1>14, <1>16, <1>18, Zenon DEF AtUser
<1> QED BY <1>11, <1>17, <1>19, Zenon

----------------------------------------------------------------------------
\* The steps

\* An exception pushes the stack of interrupt enables, and RFE gives back
\* the one the program had.
LEMMA PushLemma ==
  /\ Push(<<TRUE>>) = <<FALSE, TRUE>> /\ Tail(<<FALSE, TRUE>>) = <<TRUE>>
  /\ <<FALSE, TRUE>> # <<>>
<1> DEFINE t == TRUE
           f == FALSE
<1>1. Push(<<t>>) = [k \in 1 .. IF Len(<<t>>) < 3 THEN Len(<<t>>) + 1 ELSE 3 |->
                       IF k = 1 THEN f ELSE <<t>>[k - 1]]
  BY Zenon DEF Push
<1> HIDE DEF t, f
<1>2. Push(<<t>>) = <<f, t>>
  <2>1. Len(<<t>>) = 1
    BY Zenon
  <2>2. Push(<<t>>) = [k \in 1 .. 2 |-> IF k = 1 THEN f ELSE <<t>>[k - 1]]
    BY <1>1, <2>1
  <2> QED BY <2>2
<1>3. Tail(<<f, t>>) = <<t>> /\ <<f, t>> # <<>>
  OBVIOUS
<1> QED BY <1>2, <1>3, Zenon DEF t, f

\* The pc is aligned at every instruction of the program and of the handler.
LEMMA PcLemma ==
  ASSUME NEW f, NEW c, NEW d, d.pc \in Values, NEW ms, Phase(f, c, d, ms)
  PROVE  c.pc \in 0 .. 2 * Handler + 4 /\ c.pc % 4 = 0
<1>1. Handler \in Nat /\ Handler >= 12 /\ Handler % 4 = 0 /\ Handler = Wrap + 8
  BY UserWordsAssumption DEF Handler, Wrap
<1>2. d.pc \in Nat /\ d.pc <= Wrap /\ d.pc % 4 = 0 /\ Wrap \in Nat
  BY AddressLemma, Zenon
<1>3. CASE AtUser(f, c, d)
  BY <1>1, <1>2, <1>3 DEF AtUser
<1>4. CASE AtSlot(f, c, d)
  BY <1>1, <1>2, <1>4 DEF AtSlot
<1>5. ASSUME NEW k \in 0 .. 4, AtKernel(f, c, d, k) PROVE c.pc \in 0 .. 2 * Handler + 4 /\ c.pc % 4 = 0
  <2>1. c.pc = Handler + 4 * k
    BY <1>5, Zenon DEF AtKernel
  <2>2. Handler + 4 * k \in 0 .. 2 * Handler + 4 /\ (Handler + 4 * k) % 4 = 0
    BY <1>1
  <2> QED BY <2>1, <2>2, Zenon
<1> QED BY <1>3, <1>4, <1>5, Zenon DEF Phase

\* What an instruction of the program commits is what is seen of it.
LEMMA CommittedLemma ==
  ASSUME Commit, careful, cpu.pc \in UserCode, cpu' \in Cpus, cpu'.branch = FALSE,
         NEW z \in ProgStates, View(cpu', z),
         NEW p \in Int, p = IF cpu'.pc = Handler THEN cpu.pc + 4 ELSE cpu'.pc
  PROVE  done' = [z EXCEPT !.pc = p]
<1> DEFINE n == cpu'
           m == DelayedLoad(n)
<1>1. ~cpu'.branch
  BY Zenon
<1>2. done' = [pc |-> IF m.pc = Handler THEN cpu.pc + 4 ELSE m.pc,
               regs |-> [r \in 0 .. 2 |-> m.regs[r]],
               lo |-> m.lo, gte |-> m.gte, cell |-> m.cell]
  BY <1>1, Zenon DEF Commit
<1> HIDE DEF n
<1>3. /\ [pc |-> p, regs |-> [r \in 0 .. 2 |-> m.regs[r]],
           lo |-> m.lo, gte |-> m.gte, cell |-> m.cell] = [z EXCEPT !.pc = p]
      /\ m.pc = n.pc
  BY CommitLemma DEF n
<1> HIDE DEF m
<1>4. p = IF n.pc = Handler THEN cpu.pc + 4 ELSE n.pc
  BY Zenon DEF n
<1>5. (IF m.pc = Handler THEN cpu.pc + 4 ELSE m.pc) = p
  BY <1>3, <1>4, Zenon
<1> QED BY <1>2, <1>3, <1>5, Zenon

\* The state of the abstract specification is `done'.
LEMMA StateLemma ==
  ASSUME NEW d \in ProgStates
  PROVE  [pc |-> d.pc, regs |-> d.regs, lo |-> d.lo, gte |-> d.gte, cell |-> d.cell] = d
  BY Zenon DEF ProgStates

\* A step of `done' by Isa's Step is a step of the abstract specification.
LEMMA IsaLemma ==
  ASSUME done \in ProgStates, done' \in ProgStates, done' = Ideal!Step(done), code' = code
  PROVE  Ideal!Next
<1>1. Ideal!State = done
  BY StateLemma, Zenon DEF Ideal!State
<1>2. Ideal!State' = done'
  BY StateLemma, Zenon DEF Ideal!State
<1> QED BY <1>1, <1>2, Zenon DEF Ideal!Next

\* A step of a program that respects the delay slots
Moved ==
  /\ cpu' \in Cpus /\ done' \in ProgStates /\ done'.pc \in Values
  /\ Phase(code, cpu', done', modes')
  /\ done' = done \/ done' = Ideal!Step(done)

\* The stack after an instruction is pushed exactly when it raises an
\* exception.
LEMMA ModesLemma ==
  ASSUME NEW op, Execute(op), op \notin {"rfe", "mtc0"}
  PROVE  modes' = IF Raises(Fetched, code[cpu.pc]) THEN Push(modes) ELSE modes
  BY Zenon DEF Execute

\* The program's instructions and their delay slots are in user code.
LEMMA UserCodeLemma ==
  ASSUME NEW v \in Values
  PROVE  v \in UserCode /\ v + 4 \in UserCode
  BY AddressLemma DEF UserCode

\* Execute at an instruction that is no branch is a step of Isa.
LEMMA UserRuns ==
  ASSUME careful, Program(code), cpu \in Cpus, done \in ProgStates, done.pc \in Values,
         AtUser(code, cpu, done), UserModes(cpu, modes), ~IsBranch(code[done.pc]),
         NEW op, Execute(op)
  PROVE  Moved
<1> DEFINE m == Fetched
           n == cpu'
           i == code[done.pc]
           z == Ideal!Effect(done, i, done.pc)
           p == done.pc + 4
           e == [z EXCEPT !.pc = p]
<1>1. /\ cpu.pc = done.pc /\ cpu.next_pc = done.pc + 4 /\ cpu.branch = FALSE
      /\ Clear(cpu, i) /\ Seen(code, cpu, done) /\ cpu.mode[1] = TRUE /\ modes = <<TRUE>>
  BY Zenon DEF AtUser, UserModes
<1>2. View(cpu, done)
  BY <1>1, Zenon DEF Seen, Taking
<1>3. cpu.pc \in 0 .. 2 * Handler + 4
  BY PcLemma, Zenon DEF Phase
<1>4. Fetches(m, cpu) /\ View(m, done) /\ Clear(m, i)
  BY <1>1, <1>2, <1>3, FetchesLemma, Zenon
<1>5. /\ n = DecodeAndExecute(m, i) /\ Commit /\ op = i.op
  BY <1>1, Zenon DEF Execute
<1>6. op \notin {"rfe", "mtc0"}
  <2>1. UserInstr(i)
    BY ProgramLemma, Zenon
  <2> QED BY <1>5, <2>1, Zenon DEF UserInstr, Ordinary, Branches
<1>7. modes' = IF Raises(m, i) THEN Push(modes) ELSE modes
  BY <1>1, <1>6, ModesLemma, Zenon
<1> HIDE DEF m, n, i, z, e
<1>8. /\ n \in Cpus /\ z \in ProgStates /\ View(n, z) /\ n.branch = FALSE
      /\ p \in Values
      /\ IF Raises(m, i)
           THEN /\ n.pc = Handler /\ AtKernel(code, n, e, 0)
                /\ n.mode[1] = FALSE /\ n.mode[2] = TRUE
           ELSE n.pc = p /\ AtUser(code, n, e) /\ n.mode[1] = TRUE
  <2>1. /\ n = DecodeAndExecute(m, code[done.pc])
        /\ z = Ideal!Effect(done, code[done.pc], done.pc)
        /\ e = [z EXCEPT !.pc = done.pc + 4]
        /\ ~IsBranch(code[done.pc])
    BY <1>5, Zenon DEF i, z, e
  <2>2. /\ cpu.pc = done.pc /\ cpu.next_pc = done.pc + 4 /\ cpu.branch = FALSE
        /\ cpu.mode[1] = TRUE /\ Fetches(m, cpu) /\ View(m, done)
        /\ Clear(m, code[done.pc])
    BY <1>1, <1>4, Zenon DEF i
  <2>3. Continues(code, m, done, n, z, e)
    BY <2>1, <2>2, StraightLemma, Zenon
  <2> QED BY <2>3, Zenon DEF Continues, i
<1>9. p = IF n.pc = Handler THEN cpu.pc + 4 ELSE n.pc
  <2>1. p # Handler
    BY <1>8, AddressLemma, Zenon
  <2> QED BY <1>1, <1>8, <2>1, Zenon
<1>10. p \in Int /\ cpu.pc \in UserCode
  BY <1>1, <1>8, AddressLemma, UserCodeLemma
<1> HIDE DEF p
<1>11. done' = e
  BY <1>5, <1>8, <1>9, <1>10, CommittedLemma, Zenon DEF n, e
<1>12. e \in ProgStates /\ e.pc = p
  BY <1>8, <1>10, MoveLemma, Zenon DEF e
<1>13. done' = Ideal!Step(done)
  <2>1. Ideal!Step(done) = [z EXCEPT !.pc = done.pc + 4]
    BY Zenon DEF Ideal!Step, z, i, IsBranch, Ideal!IsBranch, Branches, Ideal!Branches
  <2> QED BY <1>11, <2>1, Zenon DEF e, p
<1>14. Phase(code, n, e, modes')
  <2>1. CASE Raises(m, i)
    <3>1. KernelModes(n, modes')
      BY <1>1, <1>7, <1>8, <2>1, PushLemma, Zenon DEF KernelModes
    <3> QED BY <1>8, <2>1, <3>1 DEF Phase
  <2>2. CASE ~Raises(m, i)
    <3>1. UserModes(n, modes')
      BY <1>1, <1>7, <1>8, <2>2, Zenon DEF UserModes
    <3> QED BY <1>8, <2>2, <3>1, Zenon DEF Phase
  <2> QED BY <2>1, <2>2, Zenon
<1> QED BY <1>8, <1>11, <1>12, <1>13, <1>14, Zenon DEF Moved, n

\* Execute at a branch commits nothing when it is taken, and is a step of Isa
\* when it is not.
LEMMA UserBranches ==
  ASSUME careful, Program(code), cpu \in Cpus, done \in ProgStates, done.pc \in Values,
         AtUser(code, cpu, done), UserModes(cpu, modes), IsBranch(code[done.pc]),
         NEW op, Execute(op)
  PROVE  Moved
<1> DEFINE m == Fetched
           n == cpu'
           i == code[done.pc]
           z == Ideal!Effect(done, i, done.pc)
           p == done.pc + 4
           e == [z EXCEPT !.pc = p]
<1>1. /\ cpu.pc = done.pc /\ Clear(cpu, i) /\ cpu.mode[1] = TRUE /\ modes = <<TRUE>>
  BY Zenon DEF AtUser, UserModes
<1>3. cpu.pc \in 0 .. 2 * Handler + 4
  BY PcLemma, Zenon DEF Phase
<1>4. Fetches(m, cpu) /\ Clear(m, i) /\ \A s : View(cpu, s) => View(m, s)
  BY <1>1, <1>3, FetchesLemma, Zenon
<1>5. /\ n = DecodeAndExecute(m, i) /\ Commit /\ op = i.op
  BY <1>1, Zenon DEF Execute
<1>6. op \notin {"rfe", "mtc0"} /\ ~Raises(m, i)
  BY <1>5, Zenon DEF IsBranch, Branches, Raises
<1>7. modes' = modes
  BY <1>1, <1>6, ModesLemma, Zenon
<1> HIDE DEF m, n, i, z, e
<1>8. /\ n \in Cpus /\ z \in ProgStates /\ View(n, z) /\ n.mode[1] = TRUE
      /\ n.pc = p
      /\ IF Ideal!Taken(done, i)
           THEN AtSlot(code, n, done)
           ELSE p \in Values /\ n.branch = FALSE /\ AtUser(code, n, e)
  <2>1. /\ n = DecodeAndExecute(m, code[done.pc])
        /\ z = Ideal!Effect(done, code[done.pc], done.pc)
        /\ e = [z EXCEPT !.pc = done.pc + 4]
        /\ Clear(m, code[done.pc])
    BY <1>4, <1>5, Zenon DEF i, z, e
  <2>2. cpu.mode[1] = TRUE /\ Fetches(m, cpu) /\ \A s : View(cpu, s) => View(m, s)
    BY <1>1, <1>4, Zenon
  <2>3. Forks(code, done, n, z, e)
    BY <2>1, <2>2, BranchStepLemma, Zenon
  <2> QED BY <2>3, Zenon DEF Forks, i
<1>9. UserModes(n, modes')
  BY <1>1, <1>7, <1>8, Zenon DEF UserModes
<1>10. CASE Ideal!Taken(done, i)
  <2>1. AtSlot(code, n, done)
    BY <1>8, <1>10, Zenon
  <2>2. n.branch = TRUE
    BY <2>1, Zenon DEF AtSlot
  <2>3. done' = done
    BY <1>5, <2>2, Zenon DEF Commit, n
  <2>4. Phase(code, n, done, modes')
    BY <1>9, <2>1, Zenon DEF Phase
  <2> QED BY <1>8, <2>3, <2>4, Zenon DEF Moved, n
<1>11. CASE ~Ideal!Taken(done, i)
  <2>1. n.branch = FALSE /\ AtUser(code, n, e) /\ p \in Values /\ n.pc = p
    BY <1>8, <1>11, Zenon
  <2>2. p # Handler /\ p \in Int
    BY <2>1, AddressLemma
  <2>3. cpu.pc \in UserCode
    BY <1>1, UserCodeLemma, Zenon
  <2> HIDE DEF p
  <2>4. p = IF n.pc = Handler THEN cpu.pc + 4 ELSE n.pc
    BY <2>1, <2>2, Zenon
  <2>5. done' = e
    BY <1>5, <1>8, <2>1, <2>2, <2>3, <2>4, CommittedLemma, Zenon DEF n, e
  <2>6. e \in ProgStates /\ e.pc = p
    BY <1>8, <2>2, MoveLemma, Zenon DEF e
  <2>7. Ideal!Step(done) = [z EXCEPT !.pc = done.pc + 4]
    BY <1>11, Zenon DEF Ideal!Step, z, i
  <2>8. done' = Ideal!Step(done)
    BY <2>5, <2>7, Zenon DEF e, p
  <2>9. Phase(code, n, e, modes')
    BY <1>9, <2>1, Zenon DEF Phase
  <2> QED BY <1>8, <2>1, <2>5, <2>6, <2>8, <2>9, Zenon DEF Moved, n
<1> QED BY <1>10, <1>11, Zenon

\* Execute in a delay slot is the step of Isa of the branch and its slot.
LEMMA SlotRuns ==
  ASSUME careful, Program(code), cpu \in Cpus, done \in ProgStates, done.pc \in Values,
         AtSlot(code, cpu, done), UserModes(cpu, modes), NEW op, Execute(op)
  PROVE  Moved
<1> DEFINE m == Fetched
           n == cpu'
           i == code[done.pc]
           j == code[done.pc + 4]
           z == Ideal!Effect(After(code, done), j, done.pc + 4)
           u == Ideal!Target(done, i, done.pc)
           e == [z EXCEPT !.pc = u]
<1>1. /\ cpu.pc = done.pc + 4 /\ cpu.mode[1] = TRUE /\ modes = <<TRUE>>
      /\ IsBranch(i) /\ Ideal!Taken(done, i)
  BY Zenon DEF AtSlot, UserModes, Taking
<1>3. cpu.pc \in 0 .. 2 * Handler + 4
  BY PcLemma, Zenon DEF Phase
<1>4. Fetches(m, cpu) /\ \A s : View(cpu, s) => View(m, s)
  BY <1>3, FetchesLemma, Zenon
<1>5. /\ n = DecodeAndExecute(m, j) /\ Commit /\ op = j.op
  BY <1>1, Zenon DEF Execute
<1>6. op \notin {"rfe", "mtc0"}
  <2>1. UserInstr(j)
    BY <1>1, ProgramLemma, Zenon
  <2> QED BY <1>5, <2>1, Zenon DEF UserInstr, Ordinary, Branches
<1>7. modes' = IF Raises(m, j) THEN Push(modes) ELSE modes
  BY <1>1, <1>6, ModesLemma, Zenon
<1> HIDE DEF m, n, i, j, z, e, u
<1>8. /\ n \in Cpus /\ z \in ProgStates /\ View(n, z) /\ n.branch = FALSE
      /\ u \in Values /\ n.pc = u /\ ~Raises(m, j)
      /\ AtUser(code, n, e) /\ n.mode[1] = TRUE
  <2>1. /\ n = DecodeAndExecute(m, code[done.pc + 4])
        /\ z = Ideal!Effect(After(code, done), code[done.pc + 4], done.pc + 4)
        /\ u = Ideal!Target(done, code[done.pc], done.pc)
        /\ e = [z EXCEPT !.pc = u]
    BY <1>5, Zenon DEF i, j, z, u, e
  <2>2. cpu.mode[1] = TRUE /\ Fetches(m, cpu) /\ \A s : View(cpu, s) => View(m, s)
    BY <1>1, <1>4, Zenon
  <2>3. Lands(code, m, done, n, z, u, e)
    BY <2>1, <2>2, SlotLemma, Zenon
  <2> QED BY <2>3, Zenon DEF Lands, j
<1>9. u # Handler /\ u \in Int
  BY <1>8, AddressLemma
<1>10. cpu.pc \in UserCode
  BY <1>1, UserCodeLemma, Zenon
<1>11. u = IF n.pc = Handler THEN cpu.pc + 4 ELSE n.pc
  BY <1>8, <1>9, Zenon
<1>12. done' = e
  BY <1>5, <1>8, <1>9, <1>10, <1>11, CommittedLemma, Zenon DEF n, e
<1>13. e \in ProgStates /\ e.pc = u
  BY <1>8, <1>9, MoveLemma, Zenon DEF e
<1>14. Ideal!Step(done) = e
  BY <1>1, Zenon DEF Ideal!Step, z, i, j, u, e, After, IsBranch, Ideal!IsBranch, Branches,
     Ideal!Branches
<1>15. Phase(code, n, e, modes')
  <2>1. UserModes(n, modes')
    BY <1>1, <1>7, <1>8, Zenon DEF UserModes
  <2> QED BY <1>8, <2>1, Zenon DEF Phase
<1> QED BY <1>8, <1>12, <1>13, <1>14, <1>15, Zenon DEF Moved, n

\* The five instructions of the handler are in place in every program.
LEMMA KernelLemma ==
  ASSUME NEW f, Program(f)
  PROVE  /\ f[Handler + 4 * 0] = I("mfc0", 0, K, 0, 0) /\ f[Handler + 4 * 1] = I("ack", 0, 0, 0, 0)
         /\ f[Handler + 4 * 2] = I("skip", K, 0, K, 0) /\ f[Handler + 4 * 3] = I("jr", K, 0, 0, 0)
         /\ f[Handler + 4 * 4] = I("rfe", 0, 0, 0, 0)
<1>1. PICK t \in Texts : f = Image(t)
  BY Zenon DEF Program
<1>2. /\ f[Handler] = I("mfc0", 0, K, 0, 0) /\ f[Handler + 4] = I("ack", 0, 0, 0, 0)
      /\ f[Handler + 8] = I("skip", K, 0, K, 0) /\ f[Handler + 12] = I("jr", K, 0, 0, 0)
      /\ f[Handler + 16] = I("rfe", 0, 0, 0, 0)
  BY <1>1, WordsLemma, Zenon
<1>3. /\ Handler + 4 * 0 = Handler /\ Handler + 4 * 1 = Handler + 4
      /\ Handler + 4 * 2 = Handler + 8 /\ Handler + 4 * 3 = Handler + 12
      /\ Handler + 4 * 4 = Handler + 16
  BY AddressLemma
<1> QED BY <1>2, <1>3, Zenon

\* Execute in the handler is invisible to the program.
LEMMA KernelRuns ==
  ASSUME careful, Program(code), cpu \in Cpus, done \in ProgStates, done.pc \in Values,
         NEW k \in 0 .. 4, AtKernel(code, cpu, done, k), KernelModes(cpu, modes),
         NEW op, Execute(op)
  PROVE  Moved
<1> DEFINE m == Fetched
           n == cpu'
           i == code[Handler + 4 * k]
<1>1. cpu.pc = Handler + 4 * k /\ Seen(code, cpu, done)
  BY Zenon DEF AtKernel
<1>2. cpu.pc \in 0 .. 2 * Handler + 4
  BY PcLemma, Zenon DEF Phase
<1>3. Fetches(m, cpu) /\ Seen(code, m, done)
  <2>1. Fetches(m, cpu) /\ \A s : View(cpu, s) => View(m, s)
    BY <1>2, FetchesLemma, Zenon
  <2> QED BY <1>1, <2>1, Zenon DEF Seen
<1>4. n = DecodeAndExecute(m, i) /\ Commit /\ op = i.op
  BY <1>1, Zenon DEF Execute
<1>5. cpu.pc \notin UserCode
  BY <1>1, AddressLemma DEF UserCode
<1>6. done' = done
  BY <1>4, <1>5, Zenon DEF Commit
<1>7. /\ code[Handler + 4 * 0] = I("mfc0", 0, K, 0, 0) /\ code[Handler + 4 * 1] = I("ack", 0, 0, 0, 0)
      /\ code[Handler + 4 * 2] = I("skip", K, 0, K, 0) /\ code[Handler + 4 * 3] = I("jr", K, 0, 0, 0)
      /\ code[Handler + 4 * 4] = I("rfe", 0, 0, 0, 0)
  BY KernelLemma, Zenon
<1>8. code[cpu.pc] = i
  BY <1>1, Zenon
<1>9. ASSUME i.op \in {"mfc0", "ack", "skip", "jr"} PROVE modes' = modes
  <2>1. ~Raises(m, i)
    BY <1>9, Zenon DEF Raises
  <2>2. op \notin {"rfe", "mtc0"}
    BY <1>4, <1>9, Zenon
  <2> QED BY <1>8, <2>1, <2>2, ModesLemma, Zenon
<1> HIDE DEF m, n
<1>10. ASSUME n \in Cpus, NEW j \in 0 .. 4, AtKernel(code, n, done, j), n.mode = cpu.mode, modes' = modes
       PROVE  Moved
  <2>1. KernelModes(n, modes')
    BY <1>10, Zenon DEF KernelModes
  <2>2. Phase(code, n, done, modes')
    BY <1>10, <2>1, Zenon DEF Phase
  <2> QED BY <1>6, <1>10, <2>2, Zenon DEF Moved, n
<1>11. CASE k = 0
  <2>1. n = DecodeAndExecute(m, I("mfc0", 0, K, 0, 0)) /\ i.op = "mfc0" /\ AtKernel(code, cpu, done, 0)
    BY <1>4, <1>7, <1>11 DEF I
  <2>2. n \in Cpus /\ AtKernel(code, n, done, 1) /\ n.mode = cpu.mode
    BY <1>3, <2>1, KernelLoads
  <2> QED BY <1>9, <1>10, <2>1, <2>2
<1>12. CASE k = 1
  <2>1. n = DecodeAndExecute(m, I("ack", 0, 0, 0, 0)) /\ i.op = "ack" /\ AtKernel(code, cpu, done, 1)
    BY <1>4, <1>7, <1>12 DEF I
  <2>2. n \in Cpus /\ AtKernel(code, n, done, 2) /\ n.mode = cpu.mode
    BY <1>3, <2>1, KernelAcks
  <2> QED BY <1>9, <1>10, <2>1, <2>2
<1>13. CASE k = 2
  <2>1. n = DecodeAndExecute(m, I("skip", K, 0, K, 0)) /\ i.op = "skip" /\ AtKernel(code, cpu, done, 2)
    BY <1>4, <1>7, <1>13 DEF I
  <2>2. n \in Cpus /\ AtKernel(code, n, done, 3) /\ n.mode = cpu.mode
    BY <1>3, <2>1, KernelSkips
  <2> QED BY <1>9, <1>10, <2>1, <2>2
<1>14. CASE k = 3
  <2>1. n = DecodeAndExecute(m, I("jr", K, 0, 0, 0)) /\ i.op = "jr" /\ AtKernel(code, cpu, done, 3)
    BY <1>4, <1>7, <1>14 DEF I
  <2>2. n \in Cpus /\ AtKernel(code, n, done, 4) /\ n.mode = cpu.mode
    BY <1>3, <2>1, KernelJumps
  <2> QED BY <1>9, <1>10, <2>1, <2>2
<1>15. CASE k = 4
  <2>1. n = DecodeAndExecute(m, I("rfe", 0, 0, 0, 0)) /\ i.op = "rfe" /\ AtKernel(code, cpu, done, 4)
    BY <1>4, <1>7, <1>15 DEF I
  <2>2. cpu.mode[2] = TRUE /\ modes = <<FALSE, TRUE>>
    BY Zenon DEF KernelModes
  <2>3. n \in Cpus /\ AtUser(code, n, done) /\ n.mode[1] = TRUE
    BY <1>3, <2>1, <2>2, KernelReturns, Zenon
  <2>4. modes' = IF modes = <<>> THEN <<>> ELSE Tail(modes)
    <3>1. op = "rfe" /\ ~Raises(Fetched, code[cpu.pc])
      BY <1>4, <1>8, <2>1, Zenon DEF Raises
    <3> QED BY <3>1, Zenon DEF Execute
  <2>5. modes' = <<TRUE>>
    BY <2>2, <2>4, PushLemma, Zenon
  <2>6. UserModes(n, modes')
    BY <2>3, <2>5, Zenon DEF UserModes
  <2>7. Phase(code, n, done, modes')
    BY <2>3, <2>6, Zenon DEF Phase
  <2> QED BY <1>6, <2>3, <2>7, Zenon DEF Moved, n
<1> QED BY <1>11, <1>12, <1>13, <1>14, <1>15

\* TakeInterrupt is invisible to the program, and only happens outside of the
\* handler.
LEMMA UserInterrupted ==
  ASSUME careful, Program(code), cpu \in Cpus, done \in ProgStates, done.pc \in Values,
         Phase(code, cpu, done, modes), TakeInterrupt
  PROVE  Moved
<1> DEFINE m == Fetched
           n == cpu'
<1>1. cpu.mode[1] = TRUE /\ done' = done
  <2>1. cpu.mode[1] \in BOOLEAN
    BY DEF Cpus, CpuRecs
  <2>2. cpu.mode[1] /\ done' = done
    BY Zenon DEF TakeInterrupt, IrqActive
  <2> DEFINE b == cpu.mode[1]
  <2>3. b \in BOOLEAN /\ b
    BY <2>1, <2>2, Zenon
  <2> HIDE DEF b
  <2>4. b = TRUE
    BY <2>3, Zenon
  <2> QED BY <2>2, <2>4, Zenon DEF b
<1>2. (AtUser(code, cpu, done) \/ AtSlot(code, cpu, done)) /\ UserModes(cpu, modes)
  BY <1>1, Zenon DEF Phase, KernelModes
<1>3. Fetches(m, cpu) /\ \A s : View(cpu, s) => View(m, s)
  BY PcLemma, FetchesLemma, Zenon
<1>4. ~IsGteOp(code[cpu.pc])
  <2>1. UserInstr(code[cpu.pc])
    <3>1. CASE AtUser(code, cpu, done)
      BY <3>1, ProgramLemma, Zenon DEF AtUser
    <3>2. CASE AtSlot(code, cpu, done)
      <4>1. cpu.pc = done.pc + 4 /\ IsBranch(code[done.pc])
        BY <3>2, Zenon DEF AtSlot, Taking
      <4> QED BY <4>1, ProgramLemma, Zenon
    <3> QED BY <1>2, <3>1, <3>2, Zenon
  <2> QED BY <2>1, Zenon DEF UserInstr, Ordinary, Branches, IsGteOp
<1>5. n = Exception(m, "Interrupt") /\ modes' = Push(modes)
  BY <1>4, Zenon DEF TakeInterrupt
<1> HIDE DEF m, n
<1>6. n \in Cpus /\ AtKernel(code, n, done, 0) /\ n.mode[1] = FALSE /\ n.mode[2] = TRUE
  BY <1>1, <1>2, <1>3, <1>5, InterruptLemma, Zenon
<1>7. modes = <<TRUE>>
  BY <1>2, Zenon DEF UserModes
<1>8. KernelModes(n, modes')
  BY <1>5, <1>6, <1>7, PushLemma, Zenon DEF KernelModes
<1>9. Phase(code, n, done, modes')
  BY <1>6, <1>8 DEF Phase
<1> QED BY <1>1, <1>6, <1>9, Zenon DEF Moved, n

----------------------------------------------------------------------------
\* The theorems

\* The processor starts at the first instruction of the program.
LEMMA StartLemma ==
  ASSUME Init
  PROVE  CInv /\ Ideal!Init
<1> DEFINE lo == IF careful THEN InitRegs ELSE WildRegs
<1>1. PICK r \in lo :
       cpu = [pc |-> 0, next_pc |-> 4, current_pc |-> 0,
              regs |-> [q \in Regs |-> IF q \in 1 .. 2 THEN r[q] ELSE 0],
              lo |-> 0, gte |-> 0, cell |-> 0, load |-> NoLoad, branch |-> FALSE,
              delay_slot |-> FALSE, mode |-> <<TRUE, FALSE, FALSE>>,
              cause |-> "None", bd |-> FALSE, epc |-> 0]
  BY Zenon DEF Init
<1>2. /\ Wrap \in Nat /\ Handler \in Nat /\ 0 \in Values /\ Values \subseteq 0 .. Wrap
      /\ 0 .. Wrap \subseteq Words /\ 0 \in 0 .. 2 * Handler + 4 /\ 0 \in Words
  BY AddressLemma, ValuesLemma DEF Words
<1> DEFINE g == [q \in Regs |-> IF q \in 1 .. 2 THEN r[q] ELSE 0]
           h == [q \in 0 .. 2 |-> cpu.regs[q]]
<1>3. done = [pc |-> 0, regs |-> h, lo |-> 0, gte |-> 0, cell |-> 0]
  BY Zenon DEF Init
<1>4. cpu.regs = g
  BY <1>1, Zenon
<1>5. \A q \in 0 .. 2 : h[q] = g[q]
  BY <1>4, Zenon
<1>6. r \in [1 .. 2 -> 0 .. Wrap] /\ (careful => r \in [1 .. 2 -> Values])
  BY <1>1, <1>2, CpuAssumption, Zenon
<1>7. g \in [Regs -> 0 .. Wrap] /\ g[0] = 0 /\ (careful => g \in [Regs -> Values])
  BY <1>2, <1>6 DEF Regs
<1>8. h \in [0 .. 2 -> 0 .. Wrap] /\ h[0] = 0 /\ (careful => h \in [0 .. 2 -> Values])
  BY <1>5, <1>7 DEF Regs
<1> HIDE DEF g, h
<1>9. Ideal!Init
  <2>1. done.pc = 0 /\ done.regs = h /\ done.lo = 0 /\ done.gte = 0 /\ done.cell = 0
    BY <1>3, Zenon
  <2> QED BY <1>2, <1>8, <2>1, Zenon DEF Ideal!Init, Ideal!Wrap, Wrap
<1>10. careful \in BOOLEAN /\ irq \in BOOLEAN
  BY Zenon DEF Init
<1>11. ASSUME careful PROVE Steady
  <2>1. Program(code)
    BY <1>11, Zenon DEF Init, Program
  <2>2. done \in ProgStates /\ done.pc = 0 /\ done.regs = h
    BY <1>2, <1>3, <1>8, <1>11 DEF ProgStates, UserRegs
  <2>3. NoLoad \in [reg : Regs, val : Words] /\ NoLoad.reg = 0 /\ NoLoad.val = 0
    BY <1>2 DEF NoLoad, Regs
  <2>4. cpu.pc = 0 /\ cpu.next_pc = 4 /\ cpu.branch = FALSE /\ cpu.load = NoLoad
        /\ cpu.lo = 0 /\ cpu.gte = 0 /\ cpu.cell = 0
    BY <1>1, Zenon
  <2>5. cpu \in Cpus
    <3>1. <<TRUE, FALSE, FALSE>> \in [1 .. 3 -> BOOLEAN]
      <4> DEFINE t == TRUE
                 f == FALSE
      <4>1. t \in BOOLEAN /\ f \in BOOLEAN
        BY Zenon
      <4> HIDE DEF t, f
      <4>2. <<t, f, f>> \in [1 .. 3 -> BOOLEAN]
        BY <4>1
      <4> QED BY <4>2, Zenon DEF t, f
    <3>2. g \in [Regs -> Words]
      BY <1>2, <1>7, Zenon DEF Regs
    <3>3. "None" \in Causes
      BY Zenon DEF Causes
    <3> DEFINE ms == <<TRUE, FALSE, FALSE>>
    <3>4. cpu = [pc |-> 0, next_pc |-> 4, current_pc |-> 0,
              regs |-> g,
              lo |-> 0, gte |-> 0, cell |-> 0, load |-> NoLoad, branch |-> FALSE,
              delay_slot |-> FALSE, mode |-> ms,
              cause |-> "None", bd |-> FALSE, epc |-> 0]
      BY <1>1, Zenon DEF g
    <3>5. ms \in [1 .. 3 -> BOOLEAN]
      BY <3>1, Zenon
    <3> HIDE DEF ms
    <3>6. cpu \in CpuRecs
      BY <1>2, <2>3, <3>2, <3>3, <3>4, <3>5 DEF CpuRecs
    <3> QED BY <1>4, <1>7, <3>6, Zenon DEF Cpus
  <2>6. \A q \in UserRegs : Land(cpu, q) = h[q]
    BY <1>4, <1>5, <1>8, <2>3, <2>4, Zenon DEF Land, UserRegs
  <2>7. View(cpu, done)
    BY <1>3, <2>2, <2>4, <2>6, Zenon DEF View
  <2>8. AtUser(code, cpu, done)
    BY <2>2, <2>3, <2>4, <2>7 DEF AtUser, Clear, Seen, K
  <2>9. UserModes(cpu, modes)
    <3>1. cpu.mode = <<TRUE, FALSE, FALSE>>
      BY <1>1, Zenon
    <3>2. modes = <<TRUE>>
      BY Zenon DEF Init
    <3>3. cpu.mode[1] = TRUE
      BY <3>1
    <3> QED BY <3>2, <3>3, Zenon DEF UserModes
  <2> QED BY <1>2, <2>1, <2>2, <2>5, <2>8, <2>9, Zenon DEF Steady, Phase
<1> QED BY <1>9, <1>10, <1>11, Zenon DEF CInv

\* Every step of the CPU under a program that respects the delay slots keeps
\* it in one of the phases.
LEMMA SteadyLemma ==
  ASSUME careful, Steady, Step
  PROVE  Moved
<1>1. /\ Program(code) /\ cpu \in Cpus /\ done \in ProgStates /\ done.pc \in Values
      /\ Phase(code, cpu, done, modes)
  BY Zenon DEF Steady
<1>2. ASSUME NEW op \in Ops, Execute(op) PROVE Moved
  <2>1. CASE AtUser(code, cpu, done) /\ UserModes(cpu, modes)
    BY <1>1, <1>2, <2>1, UserRuns, UserBranches, Zenon
  <2>2. CASE AtSlot(code, cpu, done) /\ UserModes(cpu, modes)
    BY <1>1, <1>2, <2>2, SlotRuns, Zenon
  <2>3. ASSUME NEW k \in 0 .. 4, AtKernel(code, cpu, done, k), KernelModes(cpu, modes)
        PROVE  Moved
    BY <1>1, <1>2, <2>3, KernelRuns, Zenon
  <2> QED BY <1>1, <2>1, <2>2, <2>3, Zenon DEF Phase
<1>3. ASSUME TakeInterrupt PROVE Moved
  BY <1>1, <1>3, UserInterrupted, Zenon
<1>4. ASSUME MisalignedPc PROVE Moved
  BY <1>1, <1>4, PcLemma, Zenon DEF MisalignedPc, Misaligned
<1> QED BY <1>2, <1>3, <1>4, Zenon DEF Step

\* Every step is one of the abstract specification, or changes nothing of it.
LEMMA StepLemma ==
  ASSUME CInv, [Next]_vars
  PROVE  CInv' /\ [Ideal!Next]_(Ideal!vars)
<1>1. CASE UNCHANGED vars
  BY <1>1, Zenon DEF vars, CInv, Steady, Ideal!vars
<1>2. CASE Raise
  <2>1. /\ code' = code /\ careful' = careful /\ cpu' = cpu /\ done' = done /\ modes' = modes
        /\ irq' \in BOOLEAN
    BY <1>2, Zenon DEF Raise
  <2> QED BY <2>1, Zenon DEF CInv, Steady, Ideal!vars
<1>3. CASE Step
  <2>1. code' = code /\ careful' = careful /\ irq' \in BOOLEAN
    <3>1. irq \in BOOLEAN
      BY Zenon DEF CInv
    <3> QED BY <1>3, <3>1, Zenon DEF Step, Execute, TakeInterrupt, MisalignedPc
  <2>2. CASE careful
    <3>1. Steady
      BY <2>2, Zenon DEF CInv
    <3>2. Moved
      BY <1>3, <2>2, <3>1, SteadyLemma, Zenon
    <3>3. Steady'
      BY <2>1, <3>1, <3>2, Zenon DEF Steady, Moved
    <3>4. CInv'
      BY <2>1, <3>3, Zenon DEF CInv
    <3>5. done' = done => UNCHANGED Ideal!vars
      BY <2>1, Zenon DEF Ideal!vars
    <3>6. done' = Ideal!Step(done) => Ideal!Next
      BY <2>1, <3>1, <3>3, IsaLemma, Zenon DEF Steady
    <3> QED BY <3>2, <3>4, <3>5, <3>6, Zenon DEF Moved
  <2>3. CASE ~careful
    <3>1. done' = done
      BY <1>3, <2>3, Zenon DEF Step, Execute, TakeInterrupt, MisalignedPc, Commit
    <3>2. CInv'
      BY <2>1, <2>3, Zenon DEF CInv
    <3> QED BY <2>1, <3>1, <3>2, Zenon DEF Ideal!vars
  <2> QED BY <2>2, <2>3, Zenon
<1> QED BY <1>1, <1>2, <1>3, Zenon DEF Next

\* Interrupts, traps and the two delay slots are invisible to every program
\* that respects them: run_next_instruction, with whatever interrupts, and
\* Isa, which has none, compute the same.
THEOREM ProgramsRefineIsa == Spec => RefinesIsa
<1>1. Init => CInv /\ Ideal!Init
  BY StartLemma, Zenon
<1>2. CInv /\ [Next]_vars => CInv' /\ [Ideal!Next]_(Ideal!vars)
  BY StepLemma, Zenon
<1> QED BY <1>1, <1>2, PTL DEF Spec, RefinesIsa, Ideal!Spec

\* In every phase the three modes of SR are the top of the stack.
LEMMA StackLemma ==
  ASSUME CInv, careful
  PROVE  ModeStackIsAStack
<1>1. /\ cpu \in Cpus /\ done.pc \in Values /\ Phase(code, cpu, done, modes) /\ Program(code)
      /\ done \in ProgStates
  BY Zenon DEF CInv, Steady
<1>2. cpu \in CpuRecs /\ cpu.regs[0] = 0
  BY <1>1, Zenon DEF Cpus
<1>3. /\ Wrap \in Nat /\ Handler = Wrap + 8 /\ Handler \in Nat
      /\ \A v \in Values : v \in Nat /\ v <= Wrap
  BY AddressLemma, Zenon
<1>4. cpu.pc \in Words /\ cpu.current_pc \in Words
  <2>1. cpu.pc \in 0 .. 2 * Handler + 4
    BY <1>1, PcLemma, Zenon
  <2> QED BY <1>2, <1>3, <2>1 DEF Words, CpuRecs
<1>5. cpu.next_pc \in Words
  <2>1. CASE AtUser(code, cpu, done)
    BY <1>1, <1>3, <2>1 DEF AtUser, Words
  <2>2. CASE AtSlot(code, cpu, done)
    <3>1. cpu.next_pc = Ideal!Target(done, code[done.pc], done.pc) /\ IsBranch(code[done.pc])
      BY <2>2, Zenon DEF AtSlot, Taking
    <3>2. UserInstr(code[done.pc])
      BY <1>1, ProgramLemma, Zenon
    <3>3. cpu.next_pc \in Values
      <4> DEFINE i == code[done.pc]
      <4>1. i.s \in UserRegs /\ i.imm \in Values
        BY <3>1, <3>2, OperandLemma, Zenon DEF UserInstr, IsBranch, Branches
      <4>2. done.regs[i.s] \in Values
        BY <1>1, <4>1, Zenon DEF ProgStates
      <4>3. cpu.next_pc = Ideal!Target(done, i, done.pc)
        BY <3>1, Zenon
      <4> HIDE DEF i
      <4> QED BY <4>1, <4>2, <4>3, Zenon DEF Ideal!Target
    <3> QED BY <1>3, <3>3 DEF Words
  <2>3. ASSUME NEW k \in 0 .. 4, AtKernel(code, cpu, done, k) PROVE cpu.next_pc \in Words
    <3>1. CASE k = 4
      BY <1>1, <1>3, <2>3, <3>1 DEF AtKernel, Words
    <3>2. CASE k # 4
      <4>1. cpu.next_pc = Handler + 4 * k + 4
        BY <2>3, <3>2, Zenon DEF AtKernel
      <4>2. Handler >= 12
        BY UserWordsAssumption DEF Handler, Wrap
      <4> QED BY <1>3, <3>2, <4>1, <4>2 DEF Words
    <3> QED BY <3>1, <3>2, Zenon
  <2> QED BY <1>1, <2>1, <2>2, <2>3, Zenon DEF Phase
<1>6. Len(modes) \in 1 .. 2 /\ \A k \in 1 .. Len(modes) : cpu.mode[k] = modes[k]
  <2>1. CASE UserModes(cpu, modes)
    <3> DEFINE t == TRUE
    <3>1. cpu.mode[1] = t /\ modes = <<t>>
      BY <2>1, Zenon DEF UserModes
    <3> HIDE DEF t
    <3> QED BY <3>1
  <2>2. CASE KernelModes(cpu, modes)
    <3> DEFINE t == TRUE
               f == FALSE
    <3>1. cpu.mode[1] = f /\ cpu.mode[2] = t /\ modes = <<f, t>>
      BY <2>2, Zenon DEF KernelModes
    <3> HIDE DEF t, f
    <3> QED BY <3>1
  <2> QED BY <1>1, <2>1, <2>2, Zenon DEF Phase
<1>7. cpu.pc \in UserCode => cpu.mode[1]
  <2>1. CASE UserModes(cpu, modes)
    BY <2>1, Zenon DEF UserModes
  <2>2. ASSUME NEW k \in 0 .. 4, AtKernel(code, cpu, done, k) PROVE cpu.pc \notin UserCode
    BY <1>3, <2>2 DEF AtKernel, UserCode
  <2> QED BY <1>1, <2>1, <2>2, Zenon DEF Phase
<1>8. TypeOK
  <2>1. careful \in BOOLEAN /\ irq \in BOOLEAN
    BY Zenon DEF CInv
  <2>2. /\ cpu.regs \in [Regs -> Words]
        /\ cpu.lo \in Words /\ cpu.gte \in Words /\ cpu.cell \in Words
        /\ cpu.load \in [reg : Regs, val : Words]
        /\ cpu.branch \in BOOLEAN /\ cpu.delay_slot \in BOOLEAN
        /\ cpu.mode \in [1 .. 3 -> BOOLEAN]
        /\ cpu.cause \in Causes /\ cpu.bd \in BOOLEAN
        /\ cpu.epc \in Words
    BY <1>2, Zenon DEF CpuRecs
  <2>3. Len(modes) <= 3
    <3>1. Len(modes) \in 1 .. 2
      BY <1>6, Zenon
    <3> QED BY <3>1
  <2> QED BY <1>2, <1>4, <1>5, <2>1, <2>2, <2>3, Zenon DEF TypeOK
<1> QED BY <1>6, <1>7, <1>8, Zenon DEF ModeStackIsAStack

\* Under these programs the modes of SR (enter_exception and
\* return_from_exception) are the top of the stack that exceptions push and
\* RFE pops, and the program always runs with its interrupts enabled.
THEOREM ProgramsKeepModes == Spec => [](careful => ModeStackIsAStack)
<1>1. Init => CInv
  BY StartLemma, Zenon
<1>2. CInv /\ [Next]_vars => CInv'
  BY StepLemma, Zenon
<1>3. CInv => (careful => ModeStackIsAStack)
  BY StackLemma, Zenon
<1> QED BY <1>1, <1>2, <1>3, PTL DEF Spec

=============================================================================

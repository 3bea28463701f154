------------------------------- MODULE Loader -------------------------------
(***************************************************************************)
(* Running an executable without a disc: the module on the parallel port   *)
(* of src/parallel_io/exe_loader.rs assembles a program, the BIOS is       *)
(* patched to jump to it, and the CPU runs it: it copies the executable to *)
(* RAM, clears the instruction cache and jumps to the executable.          *)
(*                                                                         *)
(* The program goes through the assembler, the bytes of the parallel port  *)
(* and the CPU's decoding (module Assembler); its stores reach the RAM,    *)
(* the isolated cache (module ICache) or a register.  An instruction is    *)
(* one step.  The cache has Lines lines instead of 256, and the program's  *)
(* 0x1000 is the size of that cache.                                       *)
(***************************************************************************)
EXTENDS ICache, Assembler, MemoryMap, FiniteSets

CONSTANTS
  Files,       \* headers of executables, with their text
  Caches,      \* contents of the cache when the BIOS gets to the jump
  Controls,    \* values of the cache control register at that time
  BiosSr,      \* value of SR at that time
  BiosSp,      \* stack pointer of the BIOS
  AnimationHook, \* address of the jump the BIOS is patched at
  MaxText      \* length above which an executable is refused

VARIABLES
  exe,         \* what was read from the file
  asm,         \* the assembler of the loader
  code,        \* instructions of the BIOS and of the loader, as the CPU
               \* decodes them
  text_index,  \* bytes of the text already read
  cpu,         \* program counters, registers and the load in flight
  control,     \* the cache control register
  sr,          \* register 12 of the coprocessor 0
  irq_mask     \* interrupt mask

lvars == <<exe, asm, code, text_index, cpu, control, sr, irq_mask>>
allvars == <<vars, lvars>>

CacheBytes == 16 * Cardinality(Lines)
RamBytes == CacheBytes * Cardinality(Tags)
ExeFifo == IoBase - 8192 * KB + 256
LoaderEntry == IoBase - 8192 * KB + 512
IrqBase == Word(IoBase + 4096 + 112)

\* The address of a word of the RAM, of which only the first words are used
RamAddr(n) ==
  [tag |-> n \div CacheBytes, line |-> (n % CacheBytes) \div 16,
   index |-> (n % 16) \div 4]

----------------------------------------------------------------------------
\* Words

Plus(w, n) ==
  <<(w[1] + (w[2] + n) \div 65536) % 65536, (w[2] + n) % 65536>>
PlusW(v, w) == Plus(<<(v[1] + w[1]) % 65536, v[2]>>, w[2])

Bit(n, k) == (n \div 2 ^ k) % 2
And16(m, n) ==
  LET low[k \in 0 .. 16] ==
        IF k = 0 THEN 0 ELSE low[k - 1] + 2 ^ (k - 1) * Bit(m, k - 1) * Bit(n, k - 1)
  IN low[16]
AndW(v, w) == <<And16(v[1], w[1]), And16(v[2], w[2])>>
OrW(v, w) ==
  <<v[1] + w[1] - And16(v[1], w[1]), v[2] + w[2] - And16(v[2], w[2])>>
FromBytes(b) == <<b[4] * 256 + b[3], b[2] * 256 + b[1]>>
SignExtended(b) == IF b < 128 THEN <<0, b>> ELSE <<65535, 65280 + b>>

\* Ram::store of a byte
WithByte(w, k, b) == FromBytes([EmitCode(w) EXCEPT ![k + 1] = b])

CacheFlags(w) ==
  [enabled |-> Bit(w[2], 11) = 1, tag_test |-> Bit(w[2], 2) = 1]

----------------------------------------------------------------------------
\* ExeLoader::load

Accepts(file) == file.magic /\ Len(file.text) <= MaxText

\* The stack pointer comes with an offset
Parse(file) ==
  [base |-> file.base, entry |-> file.entry, initial_gp |-> file.gp,
   initial_sp |-> Plus(file.sp, file.sp_offset),
   memfill_base |-> file.memfill_base, memfill_len |-> file.memfill_len,
   text |-> file.text]

Li(r, v) == Ins("Li", <<r, v>>)
I3(op, a, b, c) == Ins(op, <<a, b, c>>)
NopIns == Ins("Nop", <<>>)
Isolating(op, mask) ==
  <<Ins("Mfc0", <<T1, 12>>), Li(T2, mask), I3(op, T1, T1, T2),
    Ins("Mtc0", <<T1, 12>>)>>

Copy(e) ==
  <<Li(T0, IrqBase), I3("Sh", R0, T0, 4),
    Li(T0, e.memfill_base), Li(T1, e.memfill_len),
    Ins("Beqz", <<T1, LocalAfter("memfill_done")>>),
    I3("Add", T1, T0, T1),
    Local("memfill_loop"),
    I3("Addiu", T0, T0, 1),
    I3("Bne", T0, T1, LocalBefore("memfill_loop")),
    I3("Sb", R0, T0, -1),
    Local("memfill_done"),
    Li(T0, e.base), Li(T1, Word(Len(e.text))),
    Ins("Beqz", <<T1, LocalAfter("text_copy_done")>>),
    I3("Add", T1, T0, T1),
    Li(T2, Word(ExeFifo)),
    Local("text_copy_loop"),
    I3("Lb", T3, T2, 0),
    I3("Addiu", T0, T0, 1),
    I3("Bne", T0, T1, LocalBefore("text_copy_loop")),
    I3("Sb", T3, T0, -1),
    Local("text_copy_done")>>

Start(e) ==
  <<Ins("Jal", <<GlobalLabel("clear_cache")>>), NopIns,
    Li(GP, e.initial_gp), Li(SP, e.initial_sp), Li(T0, e.entry),
    Ins("Jalr", <<RA, T0>>), NopIns,
    Local("infinite_loop"),
    Ins("B", <<LocalBefore("infinite_loop")>>), NopIns>>

\* Mutant: every second line is invalidated
InvalidateSparse ==
  <<Li(T1, Word(CacheBytes)), Li(T2, <<0, 0>>),
    Local("icache_invalidate_loop"),
    I3("Addiu", T2, T2, 32),
    I3("Bne", T2, T1, LocalBefore("icache_invalidate_loop")),
    I3("Sw", R0, T2, -32)>>

InvalidateLines ==
  <<Li(T1, Word(CacheBytes)), Li(T2, <<0, 0>>),
    Local("icache_invalidate_loop"),
    I3("Addiu", T2, T2, 16),
    I3("Bne", T2, T1, LocalBefore("icache_invalidate_loop")),
    I3("Sw", R0, T2, -16)>>

ZeroWords ==
  <<Li(T1, Word(CacheBytes)), Li(T2, <<0, 0>>),
    Local("icache_zero_loop"),
    I3("Addiu", T2, T2, 4),
    I3("Bne", T2, T1, LocalBefore("icache_zero_loop")),
    I3("Sw", R0, T2, -4)>>

\* Mutant: the two words of the stack are swapped
ReturnSwapped ==
  <<Ins("Move", <<SP, FP>>), I3("Lw", RA, SP, 16), I3("Lw", FP, SP, 20),
    Ins("Jr", <<RA>>), I3("Addiu", SP, SP, 24)>>

Return ==
  <<Ins("Move", <<SP, FP>>), I3("Lw", RA, SP, 20), I3("Lw", FP, SP, 16),
    Ins("Jr", <<RA>>), I3("Addiu", SP, SP, 24)>>

\* In tag test mode with the cache enabled, then out of it
ClearCache ==
  <<Global("clear_cache"),
    I3("Addiu", SP, SP, -24), I3("Sw", RA, SP, 20), I3("Sw", FP, SP, 16),
    Ins("Move", <<FP, SP>>),
    Ins("La", <<T0, LocalAfter("uncached")>>), Ins("Lui", <<T1, 40960>>),
    I3("Or", T0, T0, T1), Ins("Jr", <<T0>>), NopIns,
    Local("uncached"),
    Li(T0, CacheControlAddress), I3("Lw", T5, T0, 0),
    Li(T1, <<0, 2052>>), I3("Sw", T1, T0, 0)>>
  \o Isolating("Or", <<1, 0>>) \o InvalidateLines
  \o Isolating("And", <<65534, 65535>>) \o
  <<Li(T1, <<0, 2048>>), I3("Sw", T1, T0, 0)>>
  \o Isolating("Or", <<1, 0>>) \o ZeroWords
  \o Isolating("And", <<65534, 65535>>) \o
  <<I3("Sw", T5, T0, 0)>> \o Return

LoaderSource(e) == Copy(e) \o Start(e) \o ClearCache

\* The instruction that replaces a call in the BIOS
PatchBios == EmitCode(Encode("Jal", <<JumpTarget(LoaderEntry)>>))

----------------------------------------------------------------------------
\* ParallelIo::load and ExeLoader's load, without the FIFO; there is nothing
\* after the machine code

ModuleByte(loader, offset) ==
  IF offset >= 512 /\ offset - 512 < Len(loader) THEN loader[offset - 512 + 1]
  ELSE 255

ModuleWord(loader, offset) ==
  FromBytes([k \in 1 .. 4 |-> ModuleByte(loader, offset + k - 1)])

CodeOffsets(loader) == {512 + 4 * k : k \in 0 .. Len(loader) \div 4}

\* load_instruction: the BIOS, of which only the patched word is run, or the
\* module
LoadInstruction(pc) ==
  LET d == Device(pc)
  IN IF d.dev = "EXPANSION_1" THEN code.module[d.offset] ELSE code.hook

----------------------------------------------------------------------------
\* The CPU

\* The RAM when the emulator starts: no two words are the same
InitialWord(a) == <<57005, a.tag * 64 + a.line * 16 + a.index>>

Regs == {R0, T0, T1, T2, T3, T5, GP, SP, FP, RA}
NoLoad == [reg |-> R0, val |-> <<0, 0>>]

\* The emulator starts with an executable
LoaderInit ==
  /\ exe \in {Parse(f) : f \in {g \in Files : Accepts(g)}}
  /\ asm = FromBase(LoaderEntry)
  /\ code = [hook |-> NopIns, module |-> <<>>]
  /\ ram = [a \in Addrs |-> InitialWord(a)]
  /\ icache = [l \in Lines |->
                 [tag |-> 0, valid |-> 0, words |-> [k \in Index |-> Zero]]]
  /\ stale = Addrs
  /\ control = <<0, 0>> /\ cc = CacheFlags(control)
  /\ sr = BiosSr /\ isolated = FALSE
  /\ text_index = 0 /\ irq_mask = 0 /\ ir = Zero /\ panic = FALSE
  /\ cpu = [pc |-> AnimationHook, next_pc |-> Plus(AnimationHook, 4),
            regs |-> [r \in Regs |-> IF r = SP THEN BiosSp ELSE <<0, 0>>],
            load |-> NoLoad]

\* assemble_loader
AssembleLoader ==
  /\ LET source == LoaderSource(exe) IN
     \/ /\ asm.phase = "labels" /\ asm.next <= Len(source)
        /\ \E i \in {source[asm.next]} : asm' = ParseLabel(asm, i)
     \/ /\ asm.phase = "code" /\ asm.next <= Len(source)
        /\ \E i \in {source[asm.next]} :
           \E there \in {IF i.op \in LabelOps THEN LabelAddress(asm, Last(i.args))
                         ELSE 0} :
             asm' = AssembleInstruction(asm, i, there)
     \/ /\ asm.phase \in {"labels", "code"} /\ asm.next > Len(source)
        /\ asm' = NextPhase(asm)
  /\ UNCHANGED <<vars, exe, code, text_index, cpu, control, sr, irq_mask>>

\* The module is plugged, the BIOS patched, and run up to the patched call
Boot ==
  /\ asm.phase = "done"
  /\ asm' = [phase |-> "booted"]
  /\ code' = [hook |-> Decode(FromBytes(PatchBios)),
              module |-> [offset \in CodeOffsets(asm.machine_code) |->
                            Decode(ModuleWord(asm.machine_code, offset))]]
  /\ icache' \in Caches
  /\ control' \in Controls /\ cc' = CacheFlags(control')
  /\ irq_mask' = 125
  /\ UNCHANGED <<ram, isolated, ir, stale, panic, exe, text_index, cpu, sr>>

SetReg(m, r, v) == [m EXCEPT !.regs[r] = v, !.regs[R0] = <<0, 0>>]
DelayedLoad(m) ==
  [SetReg(m, m.load.reg, m.load.val) EXCEPT !.load = NoLoad]
DelayedLoadChain(m, r, v) ==
  [IF m.load.reg = r THEN m ELSE SetReg(m, m.load.reg, m.load.val)
     EXCEPT !.load = [reg |-> r, val |-> v]]

\* The CPU with its program counters moved on
Fetched ==
  [cpu EXCEPT !.pc = cpu.next_pc, !.next_pc = Plus(cpu.next_pc, 4)]

Booted == asm.phase = "booted"
Running == ~panic /\ Booted /\ Device(cpu.pc).dev # "RAM"

\* op_beq and op_bne
BranchIf(m, test, offset) ==
  IF test THEN [DelayedLoad(m) EXCEPT !.next_pc = Plus(m.pc, 4 * offset)]
  ELSE DelayedLoad(m)

\* op_j, op_jal: in the 256MB of the delay slot
JumpAddress(m, target) ==
  <<(m.pc[1] \div 4096) * 4096 + Word(target * 4)[1], Word(target * 4)[2]>>

\* The instructions that only change registers.  The sums do not overflow,
\* which would be an exception of op_add.
Compute(m, i) ==
  LET a == i.args
      r(k) == m.regs[a[k]]
      set(v) == SetReg(DelayedLoad(m), a[1], v)
  IN CASE i.op = "Sll" -> set(r(2))          \* the loader only has NOPs
       [] i.op = "Lui" -> set(<<a[2], 0>>)
       [] i.op = "Ori" -> set(OrW(r(2), <<0, a[3]>>))
       [] i.op = "Addiu" -> set(Plus(r(2), a[3]))
       [] i.op \in {"Add", "Addu"} -> set(PlusW(r(2), r(3)))
       [] i.op = "And" -> set(AndW(r(2), r(3)))
       [] i.op = "Or" -> set(OrW(r(2), r(3)))
       [] i.op = "Beq" -> BranchIf(m, r(1) = r(2), a[3])
       [] i.op = "Bne" -> BranchIf(m, r(1) # r(2), a[3])
       [] i.op = "Jal" ->
            [SetReg(DelayedLoad(m), RA, m.next_pc) EXCEPT
               !.next_pc = JumpAddress(m, a[1])]
       [] i.op = "Jr" -> [DelayedLoad(m) EXCEPT !.next_pc = r(1)]
       [] i.op = "Jalr" ->
            [SetReg(DelayedLoad(m), a[1], m.next_pc) EXCEPT !.next_pc = r(2)]
       [] i.op = "Mfc0" -> DelayedLoadChain(m, a[1], sr)

ComputeOps ==
  {"Sll", "Lui", "Ori", "Addiu", "Add", "Addu", "And", "Or", "Beq", "Bne",
   "Jal", "Jr", "Jalr", "Mfc0"}

Execute(i) ==
  /\ i.op \in ComputeOps
  /\ \E m \in {Fetched} : cpu' = Compute(m, i)
  /\ UNCHANGED <<vars, exe, asm, code, text_index, control, sr, irq_mask>>

\* op_mtc0 to SR
Mtc0(i) ==
  /\ i.op = "Mtc0"
  /\ cpu' = DelayedLoad(Fetched)
  /\ sr' = Fetched.regs[i.args[1]]
  /\ IF (sr'[1] % 2 = 1) # isolated THEN Isolate ELSE UNCHANGED vars
  /\ UNCHANGED <<exe, asm, code, text_index, control, irq_mask>>

Address(i) == Plus(Fetched.regs[i.args[2]], i.args[3])

\* op_lw of the stack and of the cache control register
LoadWord(i) ==
  /\ i.op = "Lw"
  /\ \E d \in {Device(Address(i))} :
     /\ d.dev \in {"RAM", "CACHE_CONTROL"}
     /\ cpu' = DelayedLoadChain(Fetched, i.args[1],
                  IF d.dev = "RAM" THEN ram[RamAddr(d.offset)] ELSE control)
  /\ UNCHANGED <<vars, exe, asm, code, text_index, control, sr, irq_mask>>

\* Mutant: the FIFO does not move on
LoadTextStuck(i) ==
  /\ i.op = "Lb" /\ Device(Address(i)) = [dev |-> "EXPANSION_1", offset |-> 256]
  /\ LET more == text_index < Len(exe.text)
     IN /\ cpu' = DelayedLoadChain(Fetched, i.args[1],
                    SignExtended(IF more THEN exe.text[text_index + 1] ELSE 255))
        /\ text_index' = text_index
  /\ UNCHANGED <<vars, exe, asm, code, control, sr, irq_mask>>

\* op_lb of the FIFO of the text; an empty FIFO gives ones
LoadText(i) ==
  /\ i.op = "Lb" /\ Device(Address(i)) = [dev |-> "EXPANSION_1", offset |-> 256]
  /\ LET more == text_index < Len(exe.text)
     IN /\ cpu' = DelayedLoadChain(Fetched, i.args[1],
                    SignExtended(IF more THEN exe.text[text_index + 1] ELSE 255))
        /\ text_index' = text_index + (IF more THEN 1 ELSE 0)
  /\ UNCHANGED <<vars, exe, asm, code, control, sr, irq_mask>>

\* Cpu::store: to the cache while it is isolated
StoreIsolated(i, v) ==
  /\ isolated
  /\ LET a == RamAddr(Address(i)[2]) IN
     IF i.op = "Sw" THEN MaintainTag(a) \/ MaintainWord(a) \/ MaintainPanics(v)
     ELSE panic' = TRUE /\ UNCHANGED <<ram, icache, cc, isolated, ir, stale>>
  /\ UNCHANGED <<control, irq_mask>>

\* The RAM stores the low byte or the word
StoreMemory(i, v) ==
  /\ ~isolated
  /\ \E d \in {Device(Address(i))} :
     \/ /\ d.dev = "RAM" /\ i.op \in {"Sb", "Sw"}
        /\ LET a == RamAddr(d.offset)
           IN StoreRam(a, IF i.op = "Sw" THEN v
                          ELSE WithByte(ram[a], d.offset % 4, v[2] % 256))
        /\ UNCHANGED <<control, irq_mask>>
     \/ /\ d.dev = "CACHE_CONTROL" /\ i.op = "Sw"
        /\ control' = v /\ SetCacheControl(CacheFlags(v))
        /\ UNCHANGED irq_mask
     \/ /\ d.dev = "IRQ_CONTROL" /\ d.offset = 4
        /\ irq_mask' = v[2] /\ UNCHANGED <<vars, control>>

Store(i) ==
  /\ i.op \in {"Sb", "Sh", "Sw"}
  /\ \E v \in {Fetched.regs[i.args[1]]} :
       StoreIsolated(i, v) \/ StoreMemory(i, v)
  /\ cpu' = DelayedLoad(Fetched)
  /\ UNCHANGED <<exe, asm, code, text_index, sr>>

Step ==
  /\ Running
  /\ \E i \in {LoadInstruction(cpu.pc)} :
       Execute(i) \/ Mtc0(i) \/ LoadWord(i) \/ LoadText(i) \/ Store(i)

\* The executable runs, wherever its branches lead
RunText ==
  /\ ~panic /\ Booted /\ ~Running
  /\ \E a \in Addrs : Fetch(Region(cpu.pc), a)
  /\ UNCHANGED lvars

LoaderNext == AssembleLoader \/ Boot \/ Step \/ RunText

\* The emulator never stops running instructions
LoaderSpec == LoaderInit /\ [][LoaderNext]_allvars
                         /\ WF_allvars(AssembleLoader \/ Boot \/ Step)

----------------------------------------------------------------------------
\* Properties

Entered == Booted /\ ~Running /\ cpu.pc = exe.entry

\* The word an instruction fetch from the executable gets
Fetchable(a) ==
  IF Region(cpu.pc) = "KSEG1" \/ ~cc.enabled \/ Miss(icache[a.line], a)
    THEN ram[a] ELSE icache[a.line].words[a.index]

RamByte(n) == EmitCode(ram[RamAddr(n)])[(n % 4) + 1]
InitialByte(n) == EmitCode(InitialWord(RamAddr(n)))[(n % 4) + 1]

Offset(w) == Device(w).offset
StackBytes == Offset(BiosSp) - 24 .. Offset(BiosSp) - 1

\* Instructions with all their arguments, at the ends of their fields
Samples(op, field) ==
  CASE field \in {"s", "t", "d"} -> {0, 21, 31}
    [] field = "shift" -> {0, 31}
    [] field = "branch" -> {-32768, 3}
    [] field = "jump" -> {0, 2 ^ 26 - 2}
    [] field = "code" -> {0, 2 ^ 20 - 1}
    [] field = "imm" -> IF op \in {"Andi", "Ori", "Xori", "Lui"} THEN {1, 65535}
                        ELSE {-32768, 32767}
SampleArgs(op) ==
  LET n == Len(Layout[op])
      all == UNION {Samples(op, Layout[op][k]) : k \in 1 .. n}
  IN {x \in [1 .. n -> all] : \A k \in 1 .. n : x[k] \in Samples(op, Layout[op][k])}

EncodingsDecode ==
  \A op \in DOMAIN Layout : \A args \in SampleArgs(op) :
    LET i == Decode(Encode(op, args))
    IN i.op = op /\ (op \notin {"Syscall", "Break"} => i.args = args)

\* Where the CPU goes from the branch or jump i at address here
Destination(i, here) ==
  IF i.op \in {"Jal", "J"} THEN (here \div 2 ^ 28) * 2 ^ 28 + 4 * i.args[1]
  ELSE here + 4 + 4 * Last(i.args)

\* The index of the label that item k of the source refers to, by their order
LabelItem(source, k) ==
  LET l == Last(source[k].args)
      op == IF l.kind = "g" THEN "Global" ELSE "Local"
      named == {j \in 1 .. Len(source) : source[j].op = op /\ source[j].args[1] = l.name}
  IN CASE l.kind = "b" -> Max({j \in named : j < k})
       [] l.kind = "f" -> Min({j \in named : j > k})
       [] OTHER -> Min(named)

\* The address that parse_labels gave the label at index j of the source
RecordedAddress(source, j) ==
  IF source[j].op = "Global" THEN asm.globals[source[j].args[1]]
  ELSE asm.locals[Cardinality({k \in 1 .. j : source[k].op = "Local"})].addr

LastWord ==
  LET n == Len(asm.machine_code)
  IN FromBytes(SubSeq(asm.machine_code, n - 3, n))

\* The machine code means what the source says: every instruction the assembler
\* knows is decoded by the CPU with the same operands; a label is emitted where
\* the first pass said it would be; and the CPU branches from each branch and
\* jump of the loader to the closest label of that name in its direction
\* (assemble, parse_labels and label_address of src/assembler.rs).
CodeMeansSource ==
  /\ asm.phase # "error"
  /\ asm.phase = "labels" /\ asm.next = 1 => EncodingsDecode
  /\ asm.phase = "code" =>
       LET source == LoaderSource(exe)
           i == source[asm.next - 1]
           there == RecordedAddress(source, LabelItem(source, asm.next - 1))
       IN /\ asm.next <= Len(source) /\ source[asm.next].op \in {"Local", "Global"} =>
               RecordedAddress(source, asm.next) = Location(asm)
          /\ asm.next > 1 /\ i.op \in LabelOps /\ i.op # "La" =>
               Destination(Decode(LastWord), Location(asm) - 4) = there
          /\ asm.next > 1 /\ i.op \in DOMAIN Layout \ LabelOps =>
               Decode(LastWord) = i

\* When the executable starts, the RAM holds its text where the header says, a
\* zeroed area, and what it held before everywhere else but on the stack of the
\* BIOS; the stack and global pointers are the header's, the interrupts are
\* masked, and the cache is not isolated and controlled as before (the whole
\* loader of assemble_loader, run by the CPU).
ExecutableInPlace ==
  Entered =>
    /\ \A n \in (0 .. RamBytes - 1) \ StackBytes :
         RamByte(n) =
           LET k == n - Offset(exe.base)
               z == n - Offset(exe.memfill_base)
               len == exe.memfill_len[2]
           IN IF k \in 0 .. Len(exe.text) - 1 THEN exe.text[k + 1]
              ELSE IF z \in 0 .. len - 1 THEN 0 ELSE InitialByte(n)
    /\ cpu.regs[SP] = exe.initial_sp /\ cpu.regs[GP] = exe.initial_gp
    /\ irq_mask = 0 /\ ~isolated /\ control \in Controls /\ cc = CacheFlags(control)

\* The executable runs the code that was copied: no line the BIOS left in the
\* instruction cache is fetched instead of the RAM, in any region (clear_cache
\* of assemble_loader).
EntryFetchesText ==
  Booted /\ ~Running /\ ~panic => \A a \in Addrs : Fetchable(a) = ram[a]

\* The loader gets to the executable, for every header: its loops end, its
\* calls return, and no store panics.
LoaderEnters == <>Entered
=============================================================================

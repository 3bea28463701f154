------------------------------ MODULE Assembler ------------------------------
(***************************************************************************)
(* The assembler of src/assembler.rs and, on the other side of the machine *)
(* code, the fields that the CPU (src/cpu/mod.rs) reads from it.           *)
(*                                                                         *)
(* A 32-bit word is the pair of its halves <<hi, lo>>.  An item of the     *)
(* source is its mnemonic with the arguments of the constructor in         *)
(* src/assembler.rs; a label stands in the place of an address.  The       *)
(* errors of the assembler are the address Unknown.                        *)
(***************************************************************************)
EXTENDS Integers, Sequences, SequencesExt

R0 == 0
T0 == 8
T1 == 9
T2 == 10
T3 == 11
T5 == 13
GP == 28
SP == 29
FP == 30
RA == 31

Ins(op, args) == [op |-> op, args |-> args]

Local(name) == Ins("Local", <<name>>)
Global(name) == Ins("Global", <<name>>)

\* The labels an instruction can refer to; b is the closest one before it
LocalBefore(name) == [kind |-> "b", name |-> name]
LocalAfter(name) == [kind |-> "f", name |-> name]
GlobalLabel(name) == [kind |-> "g", name |-> name]
Absolute(address) == [kind |-> "a", name |-> address]

Word(n) == <<n \div 65536, n % 65536>>

----------------------------------------------------------------------------
\* The fields of the machine code, in the order of the arguments

Fields(ops, fields) == [op \in ops |-> fields]

Layout ==
  Fields({"Sll", "Srl", "Sra"}, <<"d", "t", "shift">>) @@
  Fields({"Sllv", "Srlv", "Srav"}, <<"d", "t", "s">>) @@
  Fields({"Jr", "Mthi", "Mtlo"}, <<"s">>) @@
  Fields({"Jalr"}, <<"d", "s">>) @@
  Fields({"Syscall", "Break"}, <<"code">>) @@
  Fields({"Mfhi", "Mflo"}, <<"d">>) @@
  Fields({"Mult", "Multu", "Div", "Divu"}, <<"s", "t">>) @@
  Fields({"Add", "Addu", "Sub", "Subu", "And", "Or", "Xor", "Nor", "Slt",
          "Sltu"}, <<"d", "s", "t">>) @@
  Fields({"Bgez", "Bltz", "Bgezal", "Bltzal", "Blez", "Bgtz"},
         <<"s", "branch">>) @@
  Fields({"J", "Jal"}, <<"jump">>) @@
  Fields({"Beq", "Bne"}, <<"s", "t", "branch">>) @@
  Fields({"Addi", "Addiu", "Slti", "Sltiu", "Andi", "Ori", "Xori", "Lb", "Lh",
          "Lwl", "Lw", "Lbu", "Lhu", "Lwr", "Sb", "Sh", "Swl", "Sw", "Swr"},
         <<"t", "s", "imm">>) @@
  Fields({"Lui"}, <<"t", "imm">>) @@
  Fields({"Mfc0", "Mtc0"}, <<"t", "d">>)

SubCode ==
  [Sll |-> 0, Srl |-> 2, Sra |-> 3, Sllv |-> 4, Srlv |-> 6, Srav |-> 7,
   Jr |-> 8, Jalr |-> 9, Syscall |-> 12, Break |-> 13,
   Mfhi |-> 16, Mthi |-> 17, Mflo |-> 18, Mtlo |-> 19,
   Mult |-> 24, Multu |-> 25, Div |-> 26, Divu |-> 27,
   Add |-> 32, Addu |-> 33, Sub |-> 34, Subu |-> 35, And |-> 36, Or |-> 37,
   Xor |-> 38, Nor |-> 39, Slt |-> 42, Sltu |-> 43]

OpCode ==
  [Bgez |-> 1, Bltz |-> 1, Bgezal |-> 1, Bltzal |-> 1, J |-> 2, Jal |-> 3,
   Beq |-> 4, Bne |-> 5, Blez |-> 6, Bgtz |-> 7, Addi |-> 8, Addiu |-> 9,
   Slti |-> 10, Sltiu |-> 11, Andi |-> 12, Ori |-> 13, Xori |-> 14,
   Lui |-> 15, Mfc0 |-> 16, Mtc0 |-> 16, Lb |-> 32, Lh |-> 33, Lwl |-> 34,
   Lw |-> 35, Lbu |-> 36, Lhu |-> 37, Lwr |-> 38, Sb |-> 40, Sh |-> 41,
   Swl |-> 42, Sw |-> 43, Swr |-> 46]

\* is_link and is_bgez, and cop_opcode
FixedHigh ==
  [Bgez |-> 1, Bltz |-> 0, Bgezal |-> 17, Bltzal |-> 16,
   Mfc0 |-> 0, Mtc0 |-> 4 * 32]

\* An argument in its place; the fields do not overlap
Place(field, v) ==
  CASE field = "s" -> <<v * 32, 0>>
    [] field = "t" -> <<v, 0>>
    [] field = "d" -> <<0, v * 2048>>
    [] field = "shift" -> <<0, v * 64>>
    [] field \in {"imm", "branch"} -> <<0, v % 65536>>
    [] field = "jump" -> Word(v % 2 ^ 26)
    [] field = "code" -> <<(v % 2 ^ 20) \div 2 ^ 10, (v % 2 ^ 10) * 64>>

\* MachineCode of an instruction whose arguments are numbers
Encode(op, args) ==
  LET base == IF op \in DOMAIN SubCode THEN <<0, SubCode[op]>>
              ELSE <<OpCode[op] * 1024 +
                       (IF op \in DOMAIN FixedHigh THEN FixedHigh[op] ELSE 0),
                     0>>
      part(k) == IF k \in DOMAIN args THEN Place(Layout[op][k], args[k])
                 ELSE <<0, 0>>
      sum(h) == base[h] + part(1)[h] + part(2)[h] + part(3)[h]
  IN <<sum(1), sum(2)>>

----------------------------------------------------------------------------
\* Sizes and labels

PadToOrder(loc, order) == (-loc) % 2 ^ order

ByteLength(i, here) ==
  CASE i.op \in {"Local", "Global"} -> 0
    [] i.op = "Li" ->
         LET v == i.args[2] IN
         (IF v[1] # 0 THEN 4 ELSE 0) + (IF v[2] # 0 \/ v = <<0, 0>> THEN 4 ELSE 0)
    [] i.op = "La" -> 8
    [] i.op = "Align" -> PadToOrder(here, i.args[1])
    [] OTHER -> 4

\* An assembler (struct Assembler) with its place in the source: parse_labels
\* goes through it first, with loc, then every item is assembled
FromBase(base) ==
  [phase |-> "labels", next |-> 1, loc |-> base, base |-> base,
   globals |-> <<>>, locals |-> <<>>, machine_code |-> <<>>]

Location(asm) == asm.base + Len(asm.machine_code)

\* The turn of an item in parse_labels; a global label is defined once
ParseLabel(asm, i) ==
  CASE i.op = "Global" ->
         IF i.args[1] \in DOMAIN asm.globals THEN [asm EXCEPT !.phase = "error"]
         ELSE [asm EXCEPT !.globals = @ @@ (i.args[1] :> asm.loc), !.next = @ + 1]
    [] i.op = "Local" ->
         [asm EXCEPT !.locals = Append(@, [addr |-> asm.loc, name |-> i.args[1]]),
                     !.next = @ + 1]
    [] OTHER -> [asm EXCEPT !.loc = @ + ByteLength(i, asm.loc), !.next = @ + 1]

Unknown == -1
AddrOf(locals, k) == IF k = 0 THEN Unknown ELSE locals[k].addr

\* Mutant: the label in front of the branch itself is not found
LabelAddressStrict(asm, l) ==
  LET here == Location(asm)
  IN CASE l.kind = "a" -> l.name
       [] l.kind = "g" -> IF l.name \in DOMAIN asm.globals
                            THEN asm.globals[l.name] ELSE Unknown
       [] l.kind = "b" -> AddrOf(asm.locals, SelectLastInSeq(asm.locals,
                            LAMBDA x : x.addr < here /\ x.name = l.name))
       [] l.kind = "f" -> AddrOf(asm.locals, SelectInSeq(asm.locals,
                            LAMBDA x : x.addr > here /\ x.name = l.name))

\* Local labels are in the order of the source: the last one at or before here
\* and the first one after it are the closest
LabelAddress(asm, l) ==
  LET here == Location(asm)
  IN CASE l.kind = "a" -> l.name
       [] l.kind = "g" -> IF l.name \in DOMAIN asm.globals
                            THEN asm.globals[l.name] ELSE Unknown
       [] l.kind = "b" -> AddrOf(asm.locals, SelectLastInSeq(asm.locals,
                            LAMBDA x : x.addr <= here /\ x.name = l.name))
       [] l.kind = "f" -> AddrOf(asm.locals, SelectInSeq(asm.locals,
                            LAMBDA x : x.addr > here /\ x.name = l.name))

\* Relative to the next instruction, in 16 bits, and without the last two
BranchTarget(there, here) ==
  LET delta == (there - (here + 4)) % 65536
  IN (IF delta < 32768 THEN delta ELSE delta - 65536) \div 4

JumpTarget(there) == there \div 4

----------------------------------------------------------------------------
\* assemble_instruction and emit_code

\* The instructions a pseudo instruction stands for; `there' is the address of
\* its label
Expansion(i, there) ==
  LET a == i.args
      low(v) == Ins("Ori", <<a[1], a[1], v[2]>>)
  IN CASE i.op = "Nop"  -> <<Ins("Sll", <<R0, R0, 0>>)>>
       [] i.op = "Move" -> <<Ins("Addu", <<a[1], a[2], R0>>)>>
       [] i.op = "Li"   ->
            IF a[2][1] = 0 THEN <<Ins("Ori", <<a[1], R0, a[2][2]>>)>>
            ELSE <<Ins("Lui", <<a[1], a[2][1]>>)>>
                   \o (IF a[2][2] # 0 THEN <<low(a[2])>> ELSE <<>>)
       [] i.op = "La"   -> <<Ins("Lui", <<a[1], Word(there)[1]>>), low(Word(there))>>
       [] i.op = "B"    -> <<Ins("Beq", <<R0, R0, a[1]>>)>>
       [] i.op = "Beqz" -> <<Ins("Beq", <<a[1], R0, a[2]>>)>>
       [] i.op = "Bnez" -> <<Ins("Bne", <<a[1], R0, a[2]>>)>>
       [] i.op \in {"Local", "Global"} -> <<>>
       [] OTHER -> <<i>>

LabelOps == {op \in DOMAIN Layout : Last(Layout[op]) \in {"branch", "jump"}}
            \cup {"La", "B", "Beqz", "Bnez"}

\* The arguments as numbers
Resolved(i, there, here) ==
  IF i.op \notin LabelOps THEN i.args
  ELSE Append(Front(i.args), IF Last(Layout[i.op]) = "branch"
                               THEN BranchTarget(there, here)
                               ELSE JumpTarget(there))

\* emit_code is little endian
EmitCode(w) == <<w[2] % 256, w[2] \div 256, w[1] % 256, w[1] \div 256>>

Code(i, there, here) ==
  IF i.op = "Align" THEN [k \in 1 .. PadToOrder(here, i.args[1]) |-> 0]
  ELSE FlattenSeq([k \in 1 .. Len(Expansion(i, there)) |->
         LET e == Expansion(i, there)[k]
         IN EmitCode(Encode(e.op, Resolved(e, there, here)))])

\* `there' is the address of the label of the item
AssembleInstruction(asm, i, there) ==
  IF there = Unknown THEN [asm EXCEPT !.phase = "error"]
  ELSE [asm EXCEPT !.machine_code = @ \o Code(i, there, Location(asm)),
                   !.next = @ + 1]

NextPhase(asm) ==
  [asm EXCEPT !.next = 1, !.phase = IF @ = "labels" THEN "code" ELSE "done"]

----------------------------------------------------------------------------
\* The CPU's side: Instruction and decode_and_execute of src/cpu/mod.rs

Function(w) == w[1] \div 1024
Subfunction(w) == w[2] % 64
S(w) == (w[1] \div 32) % 32
T(w) == w[1] % 32
D(w) == w[2] \div 2048
Shift(w) == (w[2] \div 64) % 32
Imm(w) == w[2]
ImmSe(w) == IF w[2] < 32768 THEN w[2] ELSE w[2] - 65536
ImmJump(w) == (w[1] % 1024) * 65536 + w[2]

Illegal == "Illegal"     \* op_illegal

Special ==
  <<"Sll", Illegal, "Srl", "Sra", "Sllv", Illegal, "Srlv", "Srav",
    "Jr", "Jalr", Illegal, Illegal, "Syscall", "Break", Illegal, Illegal,
    "Mfhi", "Mthi", "Mflo", "Mtlo", Illegal, Illegal, Illegal, Illegal,
    "Mult", "Multu", "Div", "Divu", Illegal, Illegal, Illegal, Illegal,
    "Add", "Addu", "Sub", "Subu", "And", "Or", "Xor", "Nor",
    Illegal, Illegal, "Slt", "Sltu">>

Primary ==
  <<"Special", "Bxx", "J", "Jal", "Beq", "Bne", "Blez", "Bgtz",
    "Addi", "Addiu", "Slti", "Sltiu", "Andi", "Ori", "Xori", "Lui",
    "Cop0", "Cop1", "Cop2", "Cop3">>
  \o [k \in 1 .. 12 |-> Illegal] \o
  <<"Lb", "Lh", "Lwl", "Lw", "Lbu", "Lhu", "Lwr", Illegal,
    "Sb", "Sh", "Swl", "Sw", Illegal, Illegal, "Swr", Illegal,
    "Lwc0", "Lwc1", "Lwc2", "Lwc3", Illegal, Illegal, Illegal, Illegal,
    "Swc0", "Swc1", "Swc2", "Swc3", Illegal, Illegal, Illegal, Illegal>>

\* op_bxx: bit 16 is the test, bits [20:17] the link
Bxx(w) ==
  LET link == T(w) \div 2 = 8
  IN IF T(w) % 2 = 1 THEN IF link THEN "Bgezal" ELSE "Bgez"
     ELSE IF link THEN "Bltzal" ELSE "Bltz"

Cop0(w) ==
  CASE S(w) = 0 -> "Mfc0" [] S(w) = 4 -> "Mtc0" [] S(w) = 16 -> "Rfe"
    [] OTHER -> Illegal

Mnemonic(w) ==
  LET f == Primary[Function(w) + 1]
      sub == Subfunction(w) + 1
  IN CASE f = "Special" -> IF sub <= Len(Special) THEN Special[sub] ELSE Illegal
       [] f = "Bxx" -> Bxx(w)
       [] f = "Cop0" -> Cop0(w)
       [] OTHER -> f

\* What the method of the instruction reads: the register it writes, then its
\* inputs
Operands(w) ==
  LET op == Mnemonic(w) IN
  CASE op \in {"Sll", "Srl", "Sra"} -> <<D(w), T(w), Shift(w)>>
    [] op \in {"Sllv", "Srlv", "Srav"} -> <<D(w), T(w), S(w)>>
    [] op \in {"Jr", "Mthi", "Mtlo"} -> <<S(w)>>
    [] op = "Jalr" -> <<D(w), S(w)>>
    [] op \in {"Mfhi", "Mflo"} -> <<D(w)>>
    [] op \in {"Mult", "Multu", "Div", "Divu"} -> <<S(w), T(w)>>
    [] op \in {"Add", "Addu", "Sub", "Subu", "And", "Or", "Xor", "Nor", "Slt",
               "Sltu"} -> <<D(w), S(w), T(w)>>
    [] op \in {"Bgez", "Bltz", "Bgezal", "Bltzal", "Blez", "Bgtz"} ->
         <<S(w), ImmSe(w)>>
    [] op \in {"J", "Jal"} -> <<ImmJump(w)>>
    [] op \in {"Beq", "Bne"} -> <<S(w), T(w), ImmSe(w)>>
    [] op \in {"Andi", "Ori", "Xori"} -> <<T(w), S(w), Imm(w)>>
    [] op = "Lui" -> <<T(w), Imm(w)>>
    [] op \in {"Mfc0", "Mtc0"} -> <<T(w), D(w)>>
    [] op \in {"Addi", "Addiu", "Slti", "Sltiu", "Lb", "Lh", "Lwl", "Lw", "Lbu",
               "Lhu", "Lwr", "Sb", "Sh", "Swl", "Sw", "Swr"} ->
         <<T(w), S(w), ImmSe(w)>>
    [] OTHER -> <<>>

Decode(w) == Ins(Mnemonic(w), Operands(w))
=============================================================================

-------------------------------- MODULE Mips --------------------------------
(***************************************************************************)
(* The instructions that the models of the CPU (src/cpu/mod.rs) share.     *)
(*                                                                         *)
(* An instruction is a record: its class `op', its registers s, t and d    *)
(* and an immediate.  Instructions that differ only in the value they      *)
(* compute are one class.  Addresses and values are byte addresses of the  *)
(* small address space below: UserWords words of program, a jump back to   *)
(* the start with its delay slot, and the exception handler.               *)
(***************************************************************************)
EXTENDS Integers, Sequences

CONSTANT UserWords      \* instructions of the program

ASSUME UserWordsAssumption == UserWords \in Nat \ {0}

Wrap == 4 * UserWords
Handler == Wrap + 8
Addrs == 0 .. Handler + 19

\* Register 3 is left to the kernel; 2 is also the link register
Regs == 0 .. 3
Link == 2
K == 3

Loads == {"lw", "lwl", "mfc0", "mfc2"}
Stores == {"sw", "ack", "swc2"}
Branches == {"beq", "bal", "j", "jal", "jr", "jalr"}
Traps == {"syscall", "break", "illegal", "cop1", "add"}
Ops == Loads \cup Stores \cup Branches \cup Traps \cup
       {"alu", "alui", "mtlo", "mflo", "mtc0", "rfe", "gte", "mtc2", "lwc2", "skip"}

Instructions == [op : Ops, s : Regs, t : Regs, d : Regs, imm : Addrs]

I(op, s, t, d, imm) == [op |-> op, s |-> s, t |-> t, d |-> d, imm |-> imm]
Nop == I("alu", 0, 0, 0, 0)

IsBranch(i) == i.op \in Branches

\* Values stay inside of the program, as addresses of its instructions do
Compute(a, b) == (a + b + 4) % Wrap
Merge(cur, word) == (cur + word) % Wrap
Misaligned(a) == a % 4 # 0
Overflows(a, b) == a + b > Wrap

\* The part of the kernel that follows an exception: it reads EPC,
\* acknowledges the interrupt, steps over an instruction that trapped and
\* returns with RFE in the delay slot of the jump.
Kernel ==
  <<I("mfc0", 0, K, 0, 0), I("ack", 0, 0, 0, 0), I("skip", K, 0, K, 0),
    I("jr", K, 0, 0, 0), I("rfe", 0, 0, 0, 0)>>

\* The program text completed with its loop and with the kernel
Image(text) ==
  [a \in {x \in Addrs : x % 4 = 0} |->
     IF a < Wrap THEN text[a \div 4 + 1]
     ELSE IF a = Wrap THEN I("j", 0, 0, 0, 0)
     ELSE IF a < Handler THEN Nop
     ELSE Kernel[(a - Handler) \div 4 + 1]]

UserCode == 0 .. Handler - 1

----------------------------------------------------------------------------
\* Programs that respect the delay slots

\* What such a program computes with: the addresses of its instructions
Values == {4 * k : k \in 0 .. UserWords}

\* Its instructions; it leaves the system coprocessor and the GTE's commands
\* to the kernel
Ordinary == Branches \cup {"alu", "alui", "add", "mtlo", "mflo", "lw", "lwl",
                           "sw", "mfc2", "mtc2", "syscall", "break", "illegal"}

\* The registers an instruction reads before the load in flight lands
Reads(i) ==
  CASE i.op \in {"alu", "add", "beq", "bal", "sw"} -> {i.s, i.t}
    [] i.op \in {"alui", "jr", "jalr", "mtlo", "lw"} -> {i.s}
    [] i.op = "mtc2" -> {i.t}
    [] OTHER -> {}

\* The addresses of the instructions that may follow the one at address a
Follow(image, a) ==
  {a + 4} \cup {x \in Values :
                  /\ a >= 4 /\ IsBranch(image[a - 4])
                  /\ image[a - 4].op \in {"jr", "jalr"} \/ x = image[a - 4].imm}

\* The instruction can be run again after it has written the link register
RunsAgain(i) ==
  /\ i.op = "jalr" => i.s # i.d
  /\ i.op = "bal" => Link \notin {i.s, i.t}

\* No branch and no trap in the delay slot of a branch, no use of a register
\* in that of its load, branches inside of the program that can be run again
Respects(text) ==
  LET image == Image(text) IN
  \A a \in DOMAIN image : a < Wrap =>
    LET i == image[a] IN
    /\ i.op \in Ordinary /\ K \notin {i.s, i.t, i.d}
    /\ i.op \notin {"lw", "sw"} => i.imm \in Values
    /\ IsBranch(i) =>
         /\ ~IsBranch(image[a + 4]) /\ image[a + 4].op \notin Traps
         /\ ~Misaligned(image[a + 4].imm) /\ RunsAgain(i)
    /\ i.op \in Loads => \A x \in Follow(image, a) : i.t \notin Reads(image[x])
=============================================================================

------------------------------- MODULE MCCpu --------------------------------
EXTENDS Cpu, TLC

Straight == {I("alu", 1, 2, 1, 0), I("alui", 2, 1, 0, 4),
             I("add", 1, 2, 2, 0), I("mtlo", 1, 0, 0, 0),
             I("mflo", 0, 0, 2, 0)}
Memory == {I("lw", 1, 1, 0, 0), I("lwl", 0, 1, 0, 0),
           I("sw", 0, 1, 0, 0)}
Cop2 == {I("mfc2", 0, 1, 0, 0), I("mtc2", 0, 2, 0, 0)}
Jumps == {I("beq", 1, 2, 0, 0), I("bal", 1, 0, 0, 4), I("jal", 0, 0, 0, 8),
          I("jr", 1, 0, 0, 0), I("jalr", 1, 0, 2, 0)}
System == {I("syscall", 0, 0, 0, 0)}
Errors == {I("break", 0, 0, 0, 0), I("illegal", 0, 0, 0, 0),
           I("cop1", 0, 0, 0, 0), I("lw", 1, 2, 0, 2), I("sw", 1, 2, 0, 2)}
Privileged == {I("mtc0", 0, 1, 0, 0), I("rfe", 0, 0, 0, 0),
               I("mfc0", 0, 1, 0, 0)}
Transfers == {I("lwc2", 1, 0, 0, 0), I("swc2", 0, 0, 0, 0),
              I("alu", 1, 2, 0, 0)}
Command == {I("gte", 0, 0, 0, 0)}

CarefulTexts ==
  {t \in [1 .. UserWords -> Straight \cup Memory \cup Cop2 \cup Jumps \cup System] :
     Respects(t)}
AnyTexts ==
  [1 .. UserWords -> Errors \cup Privileged \cup Transfers \cup Command
                       \cup Cop2 \cup Jumps]
Aligned == {(1 :> 4) @@ (2 :> 4)}
Unaligned == {(1 :> 6) @@ (2 :> 4)}
=============================================================================

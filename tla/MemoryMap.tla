----------------------------- MODULE MemoryMap ------------------------------
(***************************************************************************)
(* The address map of src/memory/mod.rs: the region bits of an address and *)
(* the device that answers at it.  A 32-bit address is the pair of its     *)
(* halves <<hi, lo>>.                                                      *)
(***************************************************************************)
EXTENDS Integers, Sequences

KB == 1024

Range32(dev, base, len) == [dev |-> dev, base |-> base, len |-> len]

\* In the order the interconnect tries them.  0x1f800000 is 528482304.
IoBase == 528482304
Ranges ==
  <<Range32("RAM", 0, 8 * KB * KB),
    Range32("SCRATCH_PAD", IoBase, KB),
    Range32("BIOS", IoBase + 4096 * KB, 512 * KB),
    Range32("IRQ_CONTROL", IoBase + 4096 + 112, 8),
    Range32("DMA", IoBase + 4096 + 128, 128),
    Range32("GPU", IoBase + 6144 + 16, 8),
    Range32("TIMERS", IoBase + 4096 + 256, 48),
    Range32("CDROM", IoBase + 6144, 4),
    Range32("MDEC", IoBase + 6144 + 32, 8),
    Range32("SPU", IoBase + 7168, 640),
    Range32("PAD_MEMCARD", IoBase + 4096 + 64, 32),
    Range32("EXPANSION_1", IoBase - 8192 * KB, 512 * KB),
    Range32("RAM_SIZE", IoBase + 4096 + 96, 4),
    Range32("MEM_CONTROL", IoBase + 4096, 36),
    Range32("EXPANSION_2", IoBase + 8192, 66)>>

Mapped == {Ranges[k] : k \in 1 .. Len(Ranges)}

CacheControlAddress == <<65534, 304>>

\* The region in the three high bits is stripped, except in KSEG2
MaskRegion(w) ==
  CASE w[1] \div 8192 = 4 -> <<w[1] % 32768, w[2]>>
    [] w[1] \div 8192 = 5 -> <<w[1] % 8192, w[2]>>
    [] OTHER -> w

Region(w) ==
  CASE w[1] \div 8192 < 4 -> "KUSEG"
    [] w[1] \div 8192 = 4 -> "KSEG0"
    [] w[1] \div 8192 = 5 -> "KSEG1"
    [] OTHER -> "KSEG2"

Unmapped == [dev |-> "Unmapped", offset |-> 0]

\* No address is in two ranges: the order they are tried in does not matter
ASSUME RangesDisjoint ==
  \A j, k \in 1 .. Len(Ranges) :
    j < k => \/ Ranges[j].base + Ranges[j].len <= Ranges[k].base
             \/ Ranges[k].base + Ranges[k].len <= Ranges[j].base

\* The device that has an address, and the offset in its range
Device(w) ==
  LET n == MaskRegion(w)[1] * 65536 + w[2]
      found == {r \in Mapped : n >= r.base /\ n < r.base + r.len}
  IN IF Region(w) = "KSEG2"
       THEN IF w = CacheControlAddress
              THEN [dev |-> "CACHE_CONTROL", offset |-> 0] ELSE Unmapped
     ELSE IF found = {} THEN Unmapped
     ELSE LET r == CHOOSE x \in found : TRUE
          IN [dev |-> r.dev, offset |-> n - r.base]
=============================================================================

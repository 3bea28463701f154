-------------------------------- MODULE Spu ---------------------------------
(***************************************************************************)
(* The sound processor as far as src/spu/mod.rs has it: a shadow of the    *)
(* registers, the voice status, and the uploads of samples through the     *)
(* FIFO register into the SPU RAM.                                         *)
(*                                                                         *)
(* The RAM has RamSize halfwords (2^18 in the code), a multiple of 4.  The *)
(* two halves of the voice registers are one set of voices.  Registers     *)
(* that are only shadowed are one, "volume".  A store or a load of another *)
(* width, or of a register the code does not list, panics and is left out. *)
(***************************************************************************)
EXTENDS Integers

CONSTANTS RamSize, Voices, Samples

VARIABLES shadow, spu_ram, ram_index

vars == <<shadow, spu_ram, ram_index>>

Registers == {"volume", "voice_on", "voice_off", "voice_status",
              "transfer_start", "transfer_fifo", "transfer_control", "control"}

\* The type invariant; the mask keeps ram_index inside the RAM.
TypeOK ==
  /\ ram_index \in 0 .. RamSize - 1
  /\ \A v \in {"voice_on", "voice_off", "voice_status"} :
       shadow[v] \subseteq Voices
  /\ spu_ram \in [0 .. RamSize - 1 -> Samples]

\* The code fills its RAM with 0xbad
Init(blank) ==
  /\ shadow = [r \in Registers |->
                 IF r \in {"voice_on", "voice_off", "voice_status"} THEN {}
                 ELSE 0]
  /\ spu_ram = [i \in 0 .. RamSize - 1 |-> blank] /\ ram_index = 0

\* What a store leaves in the voice status before its own shadow is written
VoiceStatus(r, v) ==
  CASE r = "voice_on" -> shadow["voice_status"] \cup v
    [] r = "voice_off" -> shadow["voice_status"] \ v
    [] OTHER -> shadow["voice_status"]

\* Mutant: the write pointer is not brought back to the start of the RAM
fifo_write_stuck(v) ==
  /\ spu_ram' = [spu_ram EXCEPT ![ram_index] = v]
  /\ ram_index' = IF ram_index = RamSize - 1 THEN ram_index
                  ELSE ram_index + 1

fifo_write(v) ==
  /\ spu_ram' = [spu_ram EXCEPT ![ram_index] = v]
  /\ ram_index' = (ram_index + 1) % RamSize

\* set_control refuses the interrupt enable (bit 6), set_transfer_control every
\* access pattern but the normal one: the emulator panics
Refuses(r, v) ==
  \/ r = "control" /\ (v \div 64) % 2 = 1
  \/ r = "transfer_control" /\ v # 4

store(r, v) ==
  /\ ~Refuses(r, v)
  /\ shadow' = [shadow EXCEPT !["voice_status"] = VoiceStatus(r, v), ![r] = v]
  /\ CASE r = "transfer_start" -> ram_index' = 4 * v /\ UNCHANGED spu_ram
       [] r = "transfer_fifo" -> fifo_write(v)
       [] OTHER -> UNCHANGED <<spu_ram, ram_index>>

\* The status register repeats bits 5 to 0 of the control register
load(r) == IF r = "status" THEN shadow["control"] % 64 ELSE shadow[r]
=============================================================================

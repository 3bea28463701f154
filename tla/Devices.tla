------------------------------ MODULE Devices -------------------------------
(***************************************************************************)
(* The DMA controller with the devices at its ports: the ordering table of *)
(* the GPU (in Dma itself), the data buffer of the CD-ROM controller, the  *)
(* motion decoder and the sound processor, each with the program that      *)
(* drives it.  A transfer runs to its end within one instruction, so that  *)
(* the ports do not interfere, and a behaviour has the program of one      *)
(* device.                                                                 *)
(*                                                                         *)
(* A word of RAM is what Dma takes it for: a record with a field size and  *)
(* a field next.  Word i of a sector is [size |-> parity of the sector,    *)
(* next |-> i]; the word at address a of the program's stream for the      *)
(* motion decoder is [size |-> 1, next |-> a].                             *)
(***************************************************************************)
EXTENDS Dma

CONSTANTS
  DeviceNames,            \* the devices of the runs
  BlockSizes,             \* sizes of their transfers, in words
  SectorSizes, BufferSize,
  MatrixWords, Stream,    \* [address -> Handlers]: the commands of the stream
  SpuSize, Voices, SpuStores

\* The registers of the SPU a program writes
SpuRegisters == {"volume", "voice_on", "voice_off", "transfer_start",
                 "transfer_fifo", "transfer_control", "control"}

ASSUME DevicesAssumption ==
  /\ DeviceNames \subseteq {"table", "cdrom", "mdec", "spu"}
  /\ BlockSizes \subseteq Nat
  /\ SectorSizes \subseteq Nat \ {0} /\ BufferSize \in Nat
  /\ \A s \in SectorSizes : s <= BufferSize /\ s <= RamWords
  /\ MatrixWords \in Nat \ {0}
  /\ SpuSize \in Nat \ {0} /\ SpuSize % 4 = 0
  /\ \A s \in SpuStores :
       /\ s[1] \in SpuRegisters
       /\ s[1] = "transfer_start" => s[2] \in Nat /\ 4 * s[2] < SpuSize
       /\ s[1] \in {"voice_on", "voice_off"} => s[2] \subseteq Voices

\* The words a program sends after a command for the motion decoder
Payload(h) == CASE h = "command" -> 0
                [] h = "monochrome_quant" -> MatrixWords
                [] OTHER -> 2 * MatrixWords

\* The stream is one command after the other from address 0 on
ASSUME StreamAssumption ==
  /\ 0 \in DOMAIN Stream /\ DOMAIN Stream \subseteq Addrs
  /\ \A a \in DOMAIN Stream :
       /\ Stream[a] \in {"command", "color_quant", "monochrome_quant", "idct"}
       /\ a + 1 + Payload(Stream[a]) \in DOMAIN Stream \cup {RamWords}
       /\ \A b \in DOMAIN Stream : b <= a \/ b >= a + 1 + Payload(Stream[a])

VARIABLES
  device,
  rx_active, rx_index, rx_len, rx_buffer,     \* of CdRx
  handler, remaining, quant, idct,            \* of Mdec
  shadow, spu_ram, ram_index,                 \* of Spu
  at,       \* the number of words the program has read of its sector, or the
            \* address of the next word of its stream, or the number of
            \* samples it has written to the SPU
  from,     \* the address of its last command in the stream, or where it
            \* told the SPU to write
  parity,   \* of the last sector
  torn      \* has a sector arrived since the program asked for its data?

rx == <<rx_active, rx_index, rx_len, rx_buffer>>
mdec == <<handler, remaining, quant, idct>>
spu == <<shadow, spu_ram, ram_index>>
dma == <<channels, irqs, loop, memory, panic>>
side == <<at, from, parity, torn>>
allvars == <<dma, device, rx, mdec, spu, side>>

StreamOpcode == [w \in Headers |-> IF w.next \in DOMAIN Stream
                                   THEN Stream[w.next] ELSE "command"]
Tagged(p, i) == [size |-> p, next |-> i]

Rx == INSTANCE CdRx
Decoder == INSTANCE Mdec WITH Words <- Headers, Opcode <- StreamOpcode
Sound == INSTANCE Spu WITH RamSize <- SpuSize, Samples <- 0 .. SpuSize

DevicesInit ==
  /\ Init /\ device \in DeviceNames
  /\ Rx!Init /\ Decoder!Init(Zero) /\ Sound!Init(0)
  /\ at = 0 /\ from = 0 /\ parity = 0 /\ torn = FALSE

Between(d) == device = d /\ pc = "cpu" /\ ~panic

Writing == [enable |-> TRUE, trigger |-> TRUE, sync |-> "Request",
            direction |-> "FromRam", step |-> "Increment"]
Reading == [Writing EXCEPT !.sync = "Manual", !.direction = "ToRam"]

\* The program of a device writes the registers of its channel, for transfers
\* from an address and of no more words than it has a use for
Channel(p, b, max, c) ==
  LET sizes == {n \in BlockSizes : n <= max} IN
  /\ \/ SetBase(p, b)
     \/ \E n \in sizes : SetBlockControl(p, n)
     \/ base[p] = b /\ size[p] \in sizes /\ SetControl(p, c)
  /\ UNCHANGED <<device, rx, mdec, spu, side>>

----------------------------------------------------------------------------
\* The data buffer of the CD-ROM controller

\* A sector arrives.  The program changes the size of its sectors only while no
\* transfer is on.
Arrive(n) ==
  /\ Between("cdrom")
  /\ rx_active => n = rx_len
  /\ Rx!read_sector(n, 1 - parity)
  /\ parity' = 1 - parity /\ torn' = TRUE
  /\ UNCHANGED <<dma, device, mdec, spu, at, from>>

\* The program asks for the data once it was told of a sector, or gives up
Ask(active) ==
  /\ Between("cdrom")
  /\ active => rx_len > 0
  /\ Rx!set_host_chip_control(active)
  /\ IF active /\ rx_active THEN UNCHANGED <<at, torn>>
     ELSE at' = 0 /\ torn' = FALSE
  /\ UNCHANGED <<dma, device, mdec, spu, from, parity>>

\* It reads no more words than the sector has, in any number of transfers
ReadSector ==
  /\ Between("cdrom") /\ rx_active
  /\ Channel("CdRom", at, rx_len - at, Reading)

----------------------------------------------------------------------------
\* The stream for the motion decoder

Filled == ram[RamWords - 1] # Zero

\* The program writes its stream, and begins with it again at its end
FillStream ==
  /\ Between("mdec") /\ (at = RamWords \/ ~Filled)
  /\ ram' = [a \in Addrs |-> Tagged(1, a)]
  /\ at' = 0 /\ from' = 0
  /\ UNCHANGED <<channels, irqs, loop, sent, linked, panic>>
  /\ UNCHANGED <<device, rx, mdec, spu, parity, torn>>

\* The word at `at' goes to the command register
SendsWord(a) ==
  /\ Decoder!command(ram[a])
  /\ at' = at + 1 /\ from' = IF at \in DOMAIN Stream THEN at ELSE from
  /\ UNCHANGED <<parity, torn>>

StoreWord ==
  /\ Between("mdec") /\ Filled /\ at < RamWords
  /\ SendsWord(at)
  /\ UNCHANGED <<dma, device, rx, spu>>

SendStream ==
  /\ Between("mdec") /\ Filled /\ at < RamWords
  /\ Channel("MDecIn", at, RamWords - at, Writing)

\* After a reset the program starts again with one of its commands
StoreControl(reset, a) ==
  /\ Between("mdec")
  /\ Decoder!set_control(reset)
  /\ IF reset THEN at' = a /\ from' = a ELSE UNCHANGED <<at, from>>
  /\ UNCHANGED <<dma, device, rx, spu, parity, torn>>

----------------------------------------------------------------------------
\* The sound processor

\* Sample k of an upload is k + 1
SpuStore(r, v) ==
  /\ Between("spu")
  /\ r = "transfer_fifo" => v = at + 1 /\ at < SpuSize
  /\ Sound!store(r, v)
  /\ CASE r = "transfer_start" -> at' = 0 /\ from' = 4 * v
       [] r = "transfer_fifo" -> at' = at + 1 /\ UNCHANGED from
       [] OTHER -> UNCHANGED <<at, from>>
  /\ UNCHANGED <<dma, device, rx, mdec, parity, torn>>

SendSamples == Between("spu") /\ Channel("Spu", 0, RamWords, Writing)

----------------------------------------------------------------------------
\* One word of a block transfer, with what it does to the device
Word ==
  CASE port = "CdRom" ->
         /\ Rx!dma_read_word
         /\ ram'[addr] = Tagged(rx_buffer[rx_index], rx_index)
         /\ at' = at + 1
         /\ UNCHANGED <<mdec, spu, from, parity, torn>>
    [] port = "MDecIn" -> SendsWord(addr) /\ UNCHANGED <<rx, spu>>
    [] OTHER -> UNCHANGED <<rx, mdec, spu, side>>

DevicesTransfer ==
  \/ BlockStep /\ Word /\ UNCHANGED device
  \/ /\ \/ BlockUnhandled /\ (Handled => Rx!Refuses)
        \/ ListStep
        \/ BlockEnd
     /\ UNCHANGED <<device, rx, mdec, spu, side>>

DevicesProgram ==
  \/ device = "table" /\ Program /\ UNCHANGED <<device, rx, mdec, spu, side>>
  \/ \E n \in SectorSizes : Arrive(n)
  \/ \E active \in BOOLEAN : Ask(active)
  \/ ReadSector
  \/ FillStream \/ StoreWord \/ SendStream
  \/ \E reset \in BOOLEAN, a \in DOMAIN Stream : StoreControl(reset, a)
  \/ \E s \in SpuStores : SpuStore(s[1], s[2])
  \/ SendSamples

DevicesSpec ==
  /\ DevicesInit /\ [][DevicesTransfer \/ DevicesProgram]_allvars
  /\ WF_allvars(DevicesTransfer)

----------------------------------------------------------------------------
(***************************************************************************)
(* A sector is in RAM as it was on the disc: the program that asked for    *)
(* its data has word i at address i, however many transfers it took, and   *)
(* whatever became of the sector before (read to its end, where rx_active  *)
(* "clears automatically", given up, or replaced); all the words are of    *)
(* one sector unless another one arrived since; and read_byte never        *)
(* panics.                                                                 *)
(***************************************************************************)
SectorInOrder ==
  device = "cdrom" =>
    /\ Rx!TypeOK /\ ~panic
    /\ \A i \in 0 .. at - 1 : ram[i].next = i /\ (~torn => ram[i].size = parity)
    /\ rx_active => rx_index = at
    /\ at > 0 /\ at = rx_len => ~rx_active

(***************************************************************************)
(* Program and motion decoder agree on where a command begins, in whatever *)
(* pieces the CPU and the DMA send the stream and wherever a reset cuts    *)
(* it: the words sent since the last command are at their places of its    *)
(* matrix (the indices are computed from command_remaining), and the port  *)
(* waits for a command exactly when the next word is one.                  *)
(***************************************************************************)
UploadInPlace ==
  LET words == Payload(Stream[from])   \* of the last command
      n == at - from - 1               \* sent so far
  IN device = "mdec" =>
       /\ Decoder!TypeOK
       /\ IF at = from \/ n = words
          THEN handler = "command" /\ remaining = 1
          ELSE handler = Stream[from] /\ remaining = words - n
       /\ \A i \in 0 .. n - 1 :
            (IF Stream[from] = "idct" THEN idct ELSE quant)[i]
              = Tagged(1, from + 1 + i)

(***************************************************************************)
(* The samples the program writes to the FIFO are in the SPU RAM one after *)
(* the other from the address it set, around the end of the RAM, whatever  *)
(* it writes to other registers and sends by DMA (which do_dma_block       *)
(* ignores) in between; the address register still reads as it was set.    *)
(***************************************************************************)
SamplesInPlace ==
  device = "spu" =>
    /\ Sound!TypeOK
    /\ \A k \in 0 .. at - 1 : spu_ram[(from + k) % SpuSize] = k + 1
    /\ ram_index = (from + at) % SpuSize
    /\ 4 * Sound!load("transfer_start") = from
=============================================================================

-------------------------------- MODULE Dma --------------------------------
(***************************************************************************)
(* The DMA controller of src/memory/dma.rs and the transfers that          *)
(* Interconnect::do_dma (src/memory/mod.rs) makes for it.                  *)
(*                                                                         *)
(* A write to a register of a channel runs the whole transfer before the   *)
(* next instruction; `pc' is "cpu" between instructions and "list" or      *)
(* "block" inside the loop of a transfer.  RAM words are seen as the       *)
(* headers of linked lists: the number of words that follow, and the       *)
(* address of the next header or End.  Addresses count words.  `sent' are  *)
(* the addresses of the words the last list sent to the GPU, `linked' the  *)
(* packets the program put in the ordering table since it was cleared.     *)
(***************************************************************************)
EXTENDS Integers, Sequences, FiniteSets

CONSTANTS
  RamWords,  \* number of words of RAM
  Used,      \* the ports the program uses
  IrqPorts,  \* the ports whose interrupts it handles
  Controls,  \* [port, control] pairs the program writes
  Bases,     \* base addresses
  Sizes,     \* sizes of a transfer, in words
  Table,     \* [base, size] of the program's ordering table
  Packets,   \* addresses of the packets the program may link, one word each
  MaxSent,   \* bound: words of a list that are recorded
  Polite     \* does the program only follow lists it built?

Ports == {"MDecIn", "MDecOut", "Gpu", "CdRom", "Spu", "Pio", "Otc"}
Addrs == 0 .. RamWords - 1
End == RamWords
Syncs == {"Manual", "Request", "LinkedList"}
ControlType == [enable : BOOLEAN, trigger : BOOLEAN, sync : Syncs,
                direction : {"ToRam", "FromRam"},
                step : {"Increment", "Decrement"}]

ASSUME DmaAssumption ==
  /\ RamWords \in Nat \ {0}
  /\ Used \subseteq Ports /\ IrqPorts \subseteq Ports
  /\ Controls \subseteq [port : Used, control : ControlType]
  /\ Bases \subseteq Addrs /\ Sizes \subseteq Nat
  /\ Table \in [base : Addrs, size : Nat \ {0}]
  /\ Packets \subseteq Addrs /\ MaxSent \in Nat
  /\ Polite \in BOOLEAN

VARIABLES control, base, size,
          irq_en, channel_irq_en, channel_irq_flags, force_irq, istat,
          pc, port, addr, remsz, ram, sent, linked, panic

channels == <<control, base, size>>
irqs == <<irq_en, channel_irq_en, channel_irq_flags, force_irq, istat>>
loop == <<pc, port, addr, remsz>>
memory == <<ram, sent, linked>>
vars == <<channels, irqs, loop, memory, panic>>

Headers == [size : {0, 1}, next : Addrs \cup {End}]
Zero == [size |-> 0, next |-> 0]

\* The type invariant: addresses stay inside the RAM, list headers stay
\* headers whatever a transfer writes over them.
TypeOK ==
  /\ control \in [Ports -> ControlType]
  /\ base \in [Ports -> Addrs] /\ size \in [Ports -> Nat]
  /\ irq_en \in BOOLEAN /\ force_irq \in BOOLEAN /\ istat \in BOOLEAN
  /\ channel_irq_en \subseteq Ports /\ channel_irq_flags \subseteq Ports
  /\ pc \in {"cpu", "list", "block"}
  /\ port \in Ports /\ addr \in Addrs /\ remsz \in Nat
  /\ ram \in [Addrs -> Headers]
  /\ sent \in Seq(Addrs)
  /\ linked \subseteq [packet : Packets, entry : Addrs]
  /\ panic \in BOOLEAN

Stopped == [enable |-> FALSE, trigger |-> FALSE, sync |-> "Manual",
            direction |-> "ToRam", step |-> "Increment"]

Init ==
  /\ control = [p \in Ports |-> Stopped]
  /\ base = [p \in Ports |-> 0] /\ size = [p \in Ports |-> 0]
  /\ irq_en = FALSE /\ channel_irq_en = {} /\ channel_irq_flags = {}
  /\ force_irq = FALSE /\ istat = FALSE
  /\ pc = "cpu" /\ port = "Otc" /\ addr = 0 /\ remsz = 0
  /\ ram = [a \in Addrs |-> Zero] /\ sent = <<>> /\ linked = {}
  /\ panic = FALSE

----------------------------------------------------------------------------
\* Interrupts

Irq == force_irq \/ (irq_en /\ channel_irq_flags \cap channel_irq_en # {})

\* Mutant: the previous level is not looked at
AssertLevel(prev, now) == istat' = (istat \/ now \/ prev)

\* The interrupt controller latches the rising edge
AssertEdge(prev, now) == istat' = (istat \/ (~prev /\ now))

\* Bit 30 of the register is the flag of port 6, outside of the mask 0x3f
Ackable == Ports \ {"Otc"}

\* set_interrupt
SetInterrupt(force, en, ch_en, ack) ==
  /\ pc = "cpu" /\ ~panic
  /\ force_irq' = force /\ irq_en' = en /\ channel_irq_en' = ch_en
  /\ channel_irq_flags' = channel_irq_flags \ (ack \cap Ackable)
  /\ AssertEdge(Irq, Irq')
  /\ UNCHANGED <<channels, loop, memory, panic>>

\* The program acknowledges the interrupt in the interrupt controller
AckStatus ==
  /\ pc = "cpu" /\ ~panic
  /\ istat /\ istat' = FALSE
  /\ UNCHANGED <<irq_en, channel_irq_en, channel_irq_flags, force_irq>>
  /\ UNCHANGED <<channels, loop, memory, panic>>

----------------------------------------------------------------------------
\* Registers of the channels

Active(c) == c.enable /\ (c.sync = "Manual" => c.trigger)

\* Mutant: only the trigger is taken back
DoneTriggerOnly(c) == [c EXCEPT !.trigger = FALSE]

ChannelDone(c) == [c EXCEPT !.enable = FALSE, !.trigger = FALSE]

\* The end of do_dma: Dma::done
Done(p) ==
  /\ control' = [control EXCEPT ![p] = ChannelDone(@)]
  /\ channel_irq_flags' = channel_irq_flags \cup ({p} \cap channel_irq_en)
  /\ UNCHANGED <<base, size, irq_en, channel_irq_en, force_irq>>
  /\ AssertEdge(Irq, Irq')
  /\ pc' = "cpu"

\* The end of set_dma_reg: the transfer starts if the channel is active.
\* do_dma_linked_list refuses other ports and directions.
MaybeStart(p) ==
  IF Active(control'[p])
    THEN /\ port' = p /\ addr' = base'[p] /\ remsz' = size'[p]
         /\ IF control'[p].sync = "LinkedList"
              THEN /\ pc' = "list" /\ sent' = <<>>
                   /\ panic' = (control'[p].direction = "ToRam" \/ p # "Gpu")
              ELSE pc' = "block" /\ UNCHANGED <<sent, panic>>
         /\ linked' = IF p = "Otc" /\ pc' = "block" THEN {} ELSE linked
    ELSE UNCHANGED <<loop, sent, linked, panic>>

SetBase(p, b) ==
  /\ pc = "cpu" /\ ~panic
  /\ base' = [base EXCEPT ![p] = b]
  /\ UNCHANGED <<control, size>> /\ MaybeStart(p)
  /\ UNCHANGED <<irqs, ram>>

SetBlockControl(p, n) ==
  /\ pc = "cpu" /\ ~panic
  /\ size' = [size EXCEPT ![p] = n]
  /\ UNCHANGED <<control, base>> /\ MaybeStart(p)
  /\ UNCHANGED <<irqs, ram>>

\* A polite program clears its own table, and follows it once it is cleared
Allowed(p, c) ==
  Active(c) /\ p \in {"Otc", "Gpu"} =>
    /\ base[p] = Table.base
    /\ IF p = "Otc" THEN size[p] = Table.size
       ELSE ram[Table.base] # Zero

SetControl(p, c) ==
  /\ pc = "cpu" /\ ~panic
  /\ Polite => Allowed(p, c)
  /\ control' = [control EXCEPT ![p] = c]
  /\ UNCHANGED <<base, size>> /\ MaybeStart(p)
  /\ UNCHANGED <<irqs, ram>>

----------------------------------------------------------------------------
\* The transfers

\* Words beyond the bound are not recorded
Sends == ram[addr].size = 1 /\ Len(sent) < MaxSent

\* Mutant: the marker is looked at before the words are sent
ListStepMarkerFirst ==
  /\ pc = "list" /\ ~panic
  /\ IF ram[addr].next = End
       THEN Done(port) /\ UNCHANGED <<addr, sent>>
       ELSE /\ addr' = ram[addr].next
            /\ sent' = IF Sends THEN Append(sent, (addr + 1) % RamWords)
                       ELSE sent
            /\ UNCHANGED <<channels, irqs, pc>>
  /\ UNCHANGED <<port, remsz, ram, linked, panic>>

\* One header of a linked list with the words behind it
ListStep ==
  /\ pc = "list" /\ ~panic
  /\ sent' = IF Sends THEN Append(sent, (addr + 1) % RamWords)
             ELSE sent
  /\ IF ram[addr].next = End
       THEN Done(port) /\ UNCHANGED addr
       ELSE /\ addr' = ram[addr].next
            /\ UNCHANGED <<channels, irqs, pc>>
  /\ UNCHANGED <<port, remsz, ram, linked, panic>>

NextAddr == (addr + (IF control[port].step = "Increment" THEN 1 ELSE -1))
            % RamWords

\* Mutant: the marker is written after the last entry
OtcWordLate == [size |-> 0, next |-> IF remsz = 0 THEN End
                                     ELSE (addr - 1) % RamWords]

OtcWord == [size |-> 0, next |-> IF remsz = 1 THEN End
                                 ELSE (addr - 1) % RamWords]

\* The words a device can deliver
SourceWords(p) == CASE p = "Otc" -> {OtcWord}
                    [] p \in {"Gpu", "MDecOut"} -> {Zero}
                    [] OTHER -> Headers

Handled == IF control[port].direction = "FromRam"
             THEN port \in {"Gpu", "MDecIn", "Spu"}
             ELSE port \in {"Otc", "Gpu", "CdRom", "MDecOut"}

BlockStep ==
  /\ pc = "block" /\ ~panic /\ remsz > 0 /\ Handled
  /\ IF control[port].direction = "FromRam" THEN UNCHANGED ram
     ELSE \E w \in SourceWords(port) : ram' = [ram EXCEPT ![addr] = w]
  /\ addr' = NextAddr /\ remsz' = remsz - 1
  /\ UNCHANGED <<channels, irqs, pc, port, sent, linked, panic>>

\* A port the direction does not have, or a data buffer of the CD-ROM
\* controller that is not active
BlockUnhandled ==
  /\ pc = "block" /\ ~panic /\ remsz > 0
  /\ ~Handled \/ port = "CdRom"
  /\ panic' = TRUE
  /\ UNCHANGED <<channels, irqs, loop, memory>>

BlockEnd ==
  /\ pc = "block" /\ ~panic /\ remsz = 0
  /\ Done(port)
  /\ UNCHANGED <<port, addr, remsz, memory, panic>>

----------------------------------------------------------------------------
\* The program puts a packet in front of an entry of its cleared table: the
\* two stores of the usual AddPrim
TableEntries == {(Table.base - k) % RamWords : k \in 0 .. Table.size - 1}

Link(p, e) ==
  /\ pc = "cpu" /\ ~panic
  /\ ram[Table.base] # Zero
  /\ \A l \in linked : l.packet # p
  /\ ram' = [ram EXCEPT ![p] = [size |-> 1, next |-> ram[e].next],
                        ![e].next = p]
  /\ linked' = linked \cup {[packet |-> p, entry |-> e]}
  /\ UNCHANGED <<channels, irqs, loop, sent, panic>>

Transfer == ListStep \/ BlockStep \/ BlockUnhandled \/ BlockEnd

Program ==
  \/ \E p \in Used, b \in Bases : SetBase(p, b)
  \/ \E p \in Used, n \in Sizes : SetBlockControl(p, n)
  \/ \E c \in Controls : SetControl(c.port, c.control)
  \/ \E f, en \in BOOLEAN, ch, ack \in SUBSET IrqPorts :
       SetInterrupt(f, en, ch, ack)
  \/ AckStatus
  \/ \E p \in Packets, e \in TableEntries : Link(p, e)

Next == Transfer \/ Program

Spec == Init /\ [][Next]_vars

\* do_dma is a loop of the emulator: once entered, it goes on
FairSpec == Spec /\ WF_vars(Transfer)

----------------------------------------------------------------------------
(***************************************************************************)
(* A channel is active only while its own transfer is being made: when the *)
(* CPU goes on, set_dma_reg has run every channel it started to its end.   *)
(***************************************************************************)
NothingLeftActive ==
  \A p \in Ports : Active(control[p]) => pc # "cpu" /\ port = p

(***************************************************************************)
(* The interrupt controller sees the rising edges of the DMA interrupt and *)
(* nothing else, whether the edge comes from the end of a transfer or from *)
(* a write to the interrupt register ("must be called on the rising edge   *)
(* of the interrupt signal").                                              *)
(***************************************************************************)
LatchesRisingEdges ==
  [][/\ ~Irq /\ Irq' => istat'
     /\ ~istat /\ istat' => ~Irq /\ Irq']_vars

(***************************************************************************)
(* A list transfer over the ordering table sends each packet linked since  *)
(* the table was cleared exactly once, from the last entry of the table to *)
(* the first.                                                              *)
(***************************************************************************)
EntryOf(a) == (CHOOSE l \in linked : (l.packet + 1) % RamWords = a).entry

DrawsLinkedOnce ==
  [][pc = "list" /\ pc' = "cpu" =>
       /\ {sent'[i] : i \in 1 .. Len(sent')}
            = {(l.packet + 1) % RamWords : l \in linked}
       /\ Len(sent') = Cardinality(linked)
       /\ \A i, j \in 1 .. Len(sent') :
            i < j => EntryOf(sent'[i]) >= EntryOf(sent'[j])]_vars

(***************************************************************************)
(* Every transfer a program that follows its own tables starts comes to    *)
(* its end, or is refused: the loop of do_dma_linked_list meets the marker. *)
(***************************************************************************)
TransferEnds == pc # "cpu" ~> pc = "cpu" \/ panic
=============================================================================

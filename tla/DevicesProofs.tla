---------------------------- MODULE DevicesProofs ----------------------------
(***************************************************************************)
(* Proofs about the DMA controller, for any RAM size, any set of ports and *)
(* any control words the program writes, well-behaved or not; and about    *)
(* the controller with the devices at its ports, for any size of the RAM,  *)
(* of the sectors, of the matrices and of the SPU RAM, any pieces in which *)
(* the program transfers its data and any stream of commands for the       *)
(* motion decoder.                                                         *)
(***************************************************************************)
EXTENDS Devices, TLAPS

----------------------------------------------------------------------------
\* The controller

IInv == TypeOK /\ NothingLeftActive

\* The masks of the addresses keep them inside the RAM.
LEMMA MaskInRam == \A x \in Int : x % RamWords \in Addrs
  BY DmaAssumption DEF Addrs

\* The empty header and the word cleared into the table are headers.
LEMMA HeadersLemma ==
  /\ Zero \in Headers
  /\ TypeOK => OtcWord \in Headers
<1>1. 0 \in Addrs
  BY DmaAssumption DEF Addrs
<1>2. Zero \in Headers
  BY <1>1, Zenon DEF Zero, Headers
<1>3. ASSUME TypeOK PROVE OtcWord \in Headers
  <2>1. addr - 1 \in Int
    BY <1>3, DmaAssumption DEF TypeOK, Addrs
  <2>2. (addr - 1) % RamWords \in Addrs
    BY <2>1, MaskInRam, Zenon
  <2> QED BY <2>2, Zenon DEF OtcWord, Headers
<1> QED BY <1>2, <1>3, Zenon

\* Channel::done leaves a control word inactive.
LEMMA DoneStops ==
  \A c \in ControlType : ChannelDone(c) \in ControlType /\ ~Active(ChannelDone(c))
  BY Zenon DEF ControlType, ChannelDone, Active

\* The initial state satisfies the inductive invariant.
LEMMA InitLemma == Init => IInv
<1> SUFFICES ASSUME Init PROVE IInv
  BY Zenon
<1>1. 0 \in Addrs
  BY DmaAssumption DEF Addrs
<1>2. Stopped \in ControlType /\ ~Active(Stopped)
  BY Zenon DEF Stopped, ControlType, Syncs, Active
<1>3. ram \in [Addrs -> Headers]
  BY HeadersLemma, Zenon DEF Init
<1>4. sent \in Seq(Addrs)
  BY DEF Init
<1>5. TypeOK
  BY <1>1, <1>2, <1>3, <1>4, Zenon DEF Init, TypeOK, Ports
<1>6. NothingLeftActive
  BY <1>2, Zenon DEF Init, NothingLeftActive
<1> QED BY <1>5, <1>6, Zenon DEF IInv

\* The end of a transfer preserves the types of what it changes and leaves no
\* channel active.
LEMMA DoneLemma ==
  ASSUME IInv, pc # "cpu", Done(port)
  PROVE  /\ control' \in [Ports -> ControlType]
         /\ base' = base /\ size' = size
         /\ irq_en' \in BOOLEAN /\ force_irq' \in BOOLEAN /\ istat' \in BOOLEAN
         /\ channel_irq_en' \subseteq Ports
         /\ channel_irq_flags' \subseteq Ports
         /\ pc' = "cpu"
         /\ \A p \in Ports : ~Active(control'[p])
<1>1. control' = [control EXCEPT ![port] = ChannelDone(control[port])]
  BY Zenon DEF Done
<1>2. control \in [Ports -> ControlType] /\ port \in Ports
  BY Zenon DEF IInv, TypeOK
<1>3. control' \in [Ports -> ControlType] /\ ~Active(control'[port])
  BY <1>1, <1>2, DoneStops, Zenon
<1>4. \A p \in Ports : p # port => ~Active(control[p]) /\ control'[p] = control[p]
  BY <1>1, <1>2, Zenon DEF IInv, NothingLeftActive
<1>5. istat' \in BOOLEAN
  BY Zenon DEF Done, AssertEdge, Irq, IInv, TypeOK
<1>6. channel_irq_flags' \subseteq Ports /\ channel_irq_en' \subseteq Ports
  BY Zenon DEF Done, IInv, TypeOK
<1> QED BY <1>3, <1>4, <1>5, <1>6, Zenon DEF Done, IInv, TypeOK

\* A write to a register of a channel starts its transfer at once, and only
\* that one.
LEMMA StartLemma ==
  ASSUME IInv, pc = "cpu", NEW p \in Ports,
         control' \in [Ports -> ControlType],
         base' \in [Ports -> Addrs], size' \in [Ports -> Nat],
         \A q \in Ports : q # p => control'[q] = control[q],
         UNCHANGED <<irqs, ram>>, MaybeStart(p), panic \in BOOLEAN
  PROVE  IInv'
<1>1. /\ pc' \in {"cpu", "list", "block"} /\ port' \in Ports
      /\ addr' \in Addrs /\ remsz' \in Nat
  BY Zenon DEF MaybeStart, IInv, TypeOK, loop
<1>2. sent' \in Seq(Addrs)
  <2>1. sent' = <<>> \/ sent' = sent
    BY Zenon DEF MaybeStart
  <2>2. sent \in Seq(Addrs)
    BY Zenon DEF IInv, TypeOK
  <2>3. <<>> \in Seq(Addrs)
    OBVIOUS
  <2>4. CASE sent' = <<>>
    BY <2>3, <2>4, Zenon
  <2>5. CASE sent' = sent
    BY <2>2, <2>5, Zenon
  <2> QED BY <2>1, <2>4, <2>5, Zenon
<1>3. linked' \subseteq [packet : Packets, entry : Addrs]
  BY Zenon DEF MaybeStart, IInv, TypeOK
<1>4. panic' \in BOOLEAN
  BY Zenon DEF MaybeStart, IInv, TypeOK
<1>5. /\ irq_en' \in BOOLEAN /\ force_irq' \in BOOLEAN /\ istat' \in BOOLEAN
      /\ channel_irq_en' \subseteq Ports /\ channel_irq_flags' \subseteq Ports
      /\ ram' \in [Addrs -> Headers]
  BY Zenon DEF irqs, IInv, TypeOK
<1>6. TypeOK'
  BY <1>1, <1>2, <1>3, <1>4, <1>5, Zenon DEF TypeOK
<1>7. \A q \in Ports : q # p => ~Active(control'[q])
  BY Zenon DEF IInv, NothingLeftActive
<1>8. Active(control'[p]) => pc' # "cpu" /\ port' = p
  BY Zenon DEF MaybeStart
<1>9. NothingLeftActive'
  BY <1>7, <1>8, Zenon DEF NothingLeftActive, Active
<1> QED BY <1>6, <1>9, Zenon DEF IInv

\* Every step preserves the inductive invariant.
LEMMA NextLemma == IInv /\ [Next]_vars => IInv'
<1> SUFFICES ASSUME IInv, [Next]_vars PROVE IInv'
  BY Zenon
<1>1. ASSUME NEW p \in Used, NEW b \in Bases, SetBase(p, b) PROVE IInv'
  <2>1. p \in Ports /\ b \in Addrs
    BY DmaAssumption, Zenon
  <2>2. base' \in [Ports -> Addrs]
    BY <1>1, <2>1, Zenon DEF SetBase, IInv, TypeOK
  <2>3. /\ control' \in [Ports -> ControlType] /\ control' = control
        /\ size' \in [Ports -> Nat] /\ panic \in BOOLEAN
    BY <1>1, Zenon DEF SetBase, IInv, TypeOK
  <2> QED BY <1>1, <2>1, <2>2, <2>3, StartLemma, Zenon DEF SetBase
<1>2. ASSUME NEW p \in Used, NEW n \in Sizes, SetBlockControl(p, n) PROVE IInv'
  <2>1. p \in Ports /\ n \in Nat
    BY DmaAssumption, Zenon
  <2>2. size' \in [Ports -> Nat]
    BY <1>2, <2>1, Zenon DEF SetBlockControl, IInv, TypeOK
  <2>3. /\ control' \in [Ports -> ControlType] /\ control' = control
        /\ base' \in [Ports -> Addrs] /\ panic \in BOOLEAN
    BY <1>2, Zenon DEF SetBlockControl, IInv, TypeOK
  <2> QED BY <1>2, <2>1, <2>2, <2>3, StartLemma, Zenon DEF SetBlockControl
<1>3. ASSUME NEW c \in Controls, SetControl(c.port, c.control) PROVE IInv'
  <2>1. c.port \in Ports /\ c.control \in ControlType
    BY DmaAssumption, Zenon
  <2>2. /\ control' \in [Ports -> ControlType]
        /\ \A q \in Ports : q # c.port => control'[q] = control[q]
    BY <1>3, <2>1, Zenon DEF SetControl, IInv, TypeOK
  <2>3. /\ size' \in [Ports -> Nat] /\ base' \in [Ports -> Addrs]
        /\ panic \in BOOLEAN
    BY <1>3, Zenon DEF SetControl, IInv, TypeOK
  <2> QED BY <1>3, <2>1, <2>2, <2>3, StartLemma, Zenon DEF SetControl
<1>4. ASSUME NEW f \in BOOLEAN, NEW en \in BOOLEAN,
             NEW ch \in SUBSET IrqPorts, NEW ack \in SUBSET IrqPorts,
             SetInterrupt(f, en, ch, ack)
      PROVE IInv'
  <2>1. istat' \in BOOLEAN
    BY <1>4, Zenon DEF SetInterrupt, AssertEdge, Irq, IInv, TypeOK
  <2>2. channel_irq_en' \subseteq Ports /\ channel_irq_flags' \subseteq Ports
    BY <1>4, DmaAssumption, Zenon DEF SetInterrupt, IInv, TypeOK
  <2> QED BY <1>4, <2>1, <2>2, Zenon DEF SetInterrupt, channels, loop, memory,
             IInv, TypeOK, NothingLeftActive, Active
<1>5. CASE AckStatus
  BY <1>5, Zenon DEF AckStatus, channels, loop, memory, IInv, TypeOK,
     NothingLeftActive, Active
<1>6. ASSUME NEW p \in Packets, NEW e \in TableEntries, Link(p, e) PROVE IInv'
  <2>1. p \in Addrs
    BY DmaAssumption, Zenon
  <2>2. e \in Addrs
    <3>1. PICK k \in 0 .. Table.size - 1 : e = (Table.base - k) % RamWords
      BY Zenon DEF TableEntries
    <3>2. Table.base - k \in Int
      BY DmaAssumption DEF Addrs
    <3> QED BY <3>1, <3>2, MaskInRam, Zenon
  <2>3. ram' \in [Addrs -> Headers]
    <3> DEFINE h == [size |-> 1, next |-> ram[e].next]
    <3>1. h \in Headers
      BY <2>2, Zenon DEF IInv, TypeOK, Headers
    <3> DEFINE r == [ram EXCEPT ![p] = h]
    <3>2. r \in [Addrs -> Headers]
      BY <3>1, <2>1, Zenon DEF IInv, TypeOK
    <3>3. ram' = [r EXCEPT ![e].next = p]
      BY <1>6, Zenon DEF Link
    <3>4. [r[e] EXCEPT !.next = p] \in Headers
      BY <3>2, <2>1, <2>2, Zenon DEF Headers
    <3> HIDE DEF r
    <3> QED BY <3>2, <3>3, <3>4, <2>2, Zenon
  <2>4. linked' \subseteq [packet : Packets, entry : Addrs]
    BY <1>6, <2>2 DEF Link, IInv, TypeOK
  <2> QED BY <1>6, <2>3, <2>4, Zenon DEF Link, channels, irqs, loop, IInv,
             TypeOK, NothingLeftActive, Active
<1>7. CASE ListStep
  <2>1. /\ pc = "list" /\ addr \in Addrs /\ ram[addr] \in Headers
    BY <1>7, Zenon DEF ListStep, IInv, TypeOK
  <2>2. sent' \in Seq(Addrs)
    <3>1. addr + 1 \in Int
      BY <2>1, DmaAssumption DEF Addrs
    <3>2. (addr + 1) % RamWords \in Addrs
      BY <3>1, MaskInRam, Zenon
    <3>3. sent \in Seq(Addrs)
      BY Zenon DEF IInv, TypeOK
    <3>4. Append(sent, (addr + 1) % RamWords) \in Seq(Addrs)
      BY <3>2, <3>3
    <3>5. sent' = sent \/ sent' = Append(sent, (addr + 1) % RamWords)
      BY <1>7, Zenon DEF ListStep
    <3>6. CASE sent' = sent
      BY <3>3, <3>6, Zenon
    <3>7. CASE sent' = Append(sent, (addr + 1) % RamWords)
      BY <3>4, <3>7, Zenon
    <3> QED BY <3>5, <3>6, <3>7, Zenon
  <2>3. CASE ram[addr].next = End
    <3>1. Done(port) /\ addr' = addr
      BY <1>7, <2>3, Zenon DEF ListStep
    <3>2. UNCHANGED <<port, remsz, ram, linked, panic>>
      BY <1>7, Zenon DEF ListStep
    <3> QED BY <2>1, <2>2, <3>1, <3>2, DoneLemma, Zenon DEF IInv, TypeOK,
               NothingLeftActive, Active
  <2>4. CASE ram[addr].next # End
    <3>1. addr' \in Addrs
      BY <1>7, <2>1, <2>4, Zenon DEF ListStep, Headers
    <3> QED BY <1>7, <2>2, <2>4, <3>1, Zenon DEF ListStep, channels, irqs,
               IInv, TypeOK, NothingLeftActive, Active
  <2> QED BY <2>3, <2>4, Zenon
<1>8. CASE BlockStep
  <2>1. addr' \in Addrs
    <3>1. NextAddr \in Addrs
      <4>1. addr + 1 \in Int /\ addr + (-1) \in Int
        BY DmaAssumption DEF IInv, TypeOK, Addrs
      <4> QED BY <4>1, MaskInRam, Zenon DEF NextAddr
    <3> QED BY <1>8, <3>1, Zenon DEF BlockStep
  <2>2. ram' \in [Addrs -> Headers]
    <3>1. \A w \in SourceWords(port) : w \in Headers
      BY HeadersLemma, Zenon DEF SourceWords, IInv
    <3> QED BY <1>8, <3>1, Zenon DEF BlockStep, IInv, TypeOK
  <2>3. remsz' \in Nat
    BY <1>8 DEF BlockStep, IInv, TypeOK
  <2> QED BY <1>8, <2>1, <2>2, <2>3, Zenon DEF BlockStep, channels, irqs,
             IInv, TypeOK, NothingLeftActive, Active
<1>9. CASE BlockUnhandled
  BY <1>9, Zenon DEF BlockUnhandled, channels, irqs, loop, memory, IInv,
     TypeOK, NothingLeftActive, Active
<1>10. CASE BlockEnd
  <2>1. Done(port) /\ pc # "cpu" /\ UNCHANGED <<port, addr, remsz, memory, panic>>
    BY <1>10, Zenon DEF BlockEnd
  <2> QED BY <2>1, DoneLemma, Zenon DEF memory, IInv, TypeOK,
             NothingLeftActive, Active
<1>11. CASE UNCHANGED vars
  BY <1>11, Zenon DEF vars, channels, irqs, loop, memory, IInv, TypeOK,
     NothingLeftActive, Active
<1> QED BY <1>1, <1>2, <1>3, <1>4, <1>5, <1>6, <1>7, <1>8, <1>9, <1>10, <1>11,
           Zenon DEF Next, Transfer, Program

(***************************************************************************)
(* Type correctness; addresses stay inside the RAM through the masks of    *)
(* do_dma_linked_list and do_dma_block.                                    *)
(***************************************************************************)
THEOREM TypeCorrect == Spec => []TypeOK
<1>1. IInv => TypeOK
  BY Zenon DEF IInv
<1> QED BY <1>1, InitLemma, NextLemma, PTL DEF Spec

(***************************************************************************)
(* A channel is active only inside its own transfer, whatever registers    *)
(* the program writes.                                                     *)
(***************************************************************************)
THEOREM TransfersAreAtomic == Spec => []NothingLeftActive
<1>1. IInv => NothingLeftActive
  BY Zenon DEF IInv
<1> QED BY <1>1, InitLemma, NextLemma, PTL DEF Spec

\* An action that leaves the interrupt registers alone makes no edge.
LEMMA NoEdge == ASSUME UNCHANGED irqs PROVE Irq' = Irq /\ istat' = istat
  BY Zenon DEF irqs, Irq

(***************************************************************************)
(* The interrupt controller latches the rising edges of the DMA interrupt  *)
(* and nothing else.                                                       *)
(***************************************************************************)
THEOREM EdgesLatched == Spec => LatchesRisingEdges
<1> DEFINE Edge == /\ ~Irq /\ Irq' => istat'
                   /\ ~istat /\ istat' => ~Irq /\ Irq'
<1>1. ASSUME TypeOK, [Next]_vars PROVE Edge \/ UNCHANGED vars
  <2>1. CASE UNCHANGED irqs
    BY <2>1, NoEdge, Zenon
  <2>2. ASSUME AssertEdge(Irq, Irq') PROVE Edge
    BY <2>2, Zenon DEF AssertEdge
  <2>3. CASE AckStatus
    <3>1. Irq' = Irq /\ istat' = FALSE
      BY <2>3, Zenon DEF AckStatus, Irq
    <3> QED BY <3>1, Zenon
  <2>4. Next => UNCHANGED irqs \/ AssertEdge(Irq, Irq') \/ AckStatus
    BY Zenon DEF Next, Transfer, Program, SetBase, SetBlockControl,
       SetControl, SetInterrupt, Link, ListStep, BlockStep, BlockUnhandled,
       BlockEnd, Done
  <2> QED BY <1>1, <2>1, <2>2, <2>3, <2>4, Zenon
<1> HIDE DEF Edge
<1>2. TypeOK /\ [Next]_vars => [Edge]_vars
  BY <1>1, Zenon DEF vars
<1>3. Spec => [][Edge]_vars
  BY <1>2, TypeCorrect, PTL DEF Spec
<1> QED BY <1>3, Zenon DEF LatchesRisingEdges, Edge

----------------------------------------------------------------------------
\* The devices

\* The reading and the writing control words are active control words.
LEMMA ControlWords ==
  /\ Writing \in ControlType /\ Reading \in ControlType
  /\ Active(Writing) /\ Active(Reading)
  /\ Writing.sync = "Request" /\ Reading.sync = "Manual"
  /\ Writing.direction = "FromRam" /\ Reading.direction = "ToRam"
  /\ Writing.step = "Increment" /\ Reading.step = "Increment"
  BY Zenon DEF Writing, Reading, ControlType, Syncs, Active

\* A write to a register of a device's channel keeps the invariant of the DMA
\* controller, and starts a transfer only by the control word, with the
\* address and the size the program has set.
LEMMA ChannelLemma ==
  ASSUME IInv, NEW p \in {"CdRom", "MDecIn", "Spu"}, NEW b \in Addrs,
         NEW max \in Nat, NEW c \in {Reading, Writing}, Channel(p, b, max, c)
  PROVE  /\ IInv' /\ UNCHANGED <<ram, panic, device, rx, mdec, spu, side>>
         /\ pc = "cpu"
         /\ \/ pc' = "cpu"
            \/ /\ pc' = "block" /\ port' = p /\ control'[p] = c
               /\ addr' = b /\ remsz' <= max
<1>1. p \in Ports /\ c \in ControlType /\ Active(c) /\ c.sync # "LinkedList"
  BY ControlWords, Zenon DEF Ports
<1>2. UNCHANGED <<device, rx, mdec, spu, side>>
  BY Zenon DEF Channel
<1>3. ~Active(control[p]) /\ pc = "cpu" /\ ~panic
  BY <1>1, Zenon DEF Channel, SetBase, SetBlockControl, SetControl, IInv,
     NothingLeftActive
<1>4. CASE SetBase(p, b)
  <2>1. /\ base' \in [Ports -> Addrs] /\ control' = control /\ size' = size
        /\ UNCHANGED <<irqs, ram>> /\ MaybeStart(p)
    BY <1>1, <1>4, Zenon DEF SetBase, IInv, TypeOK
  <2>2. IInv'
    BY <1>1, <1>3, <2>1, StartLemma, Zenon DEF IInv, TypeOK
  <2>3. UNCHANGED <<loop, panic>>
    BY <1>3, <2>1, Zenon DEF MaybeStart
  <2> QED
    BY <1>2, <1>3, <2>1, <2>2, <2>3, Zenon DEF loop
<1>5. ASSUME NEW n \in BlockSizes, SetBlockControl(p, n)
      PROVE  /\ IInv' /\ pc' = "cpu" /\ UNCHANGED <<ram, panic>>
  <2>1. n \in Nat
    BY DevicesAssumption, Zenon
  <2>2. /\ size' \in [Ports -> Nat] /\ control' = control /\ base' = base
        /\ UNCHANGED <<irqs, ram>> /\ MaybeStart(p)
    BY <1>1, <1>5, <2>1, Zenon DEF SetBlockControl, IInv, TypeOK
  <2>3. IInv'
    BY <1>1, <1>3, <2>2, StartLemma, Zenon DEF IInv, TypeOK
  <2>4. UNCHANGED <<loop, panic>>
    BY <1>3, <2>2, Zenon DEF MaybeStart
  <2> QED
    BY <1>3, <2>2, <2>3, <2>4, Zenon DEF loop
<1>6. CASE base[p] = b /\ size[p] <= max /\ SetControl(p, c)
  <2>1. /\ control' = [control EXCEPT ![p] = c]
        /\ base' = base /\ size' = size
        /\ UNCHANGED <<irqs, ram>> /\ MaybeStart(p)
    BY <1>6, Zenon DEF SetControl
  <2>2. control' \in [Ports -> ControlType] /\ control'[p] = c
    BY <1>1, <2>1, Zenon DEF IInv, TypeOK
  <2>3. \A q \in Ports : q # p => control'[q] = control[q]
    BY <2>1, Zenon DEF IInv, TypeOK
  <2>4. IInv'
    BY <1>1, <1>3, <2>1, <2>2, <2>3, StartLemma, Zenon DEF IInv, TypeOK
  <2>5. /\ pc' = "block" /\ port' = p /\ addr' = base[p] /\ remsz' = size[p]
        /\ panic' = panic
    BY <1>1, <2>1, <2>2, Zenon DEF MaybeStart
  <2> QED
    BY <1>2, <1>3, <1>6, <2>1, <2>2, <2>4, <2>5, Zenon
<1> QED
  BY <1>2, <1>3, <1>4, <1>5, <1>6, Zenon DEF Channel

\* One word of a transfer with increasing addresses.
LEMMA BlockStepLemma ==
  ASSUME IInv, BlockStep, control[port].step = "Increment"
  PROVE  /\ IInv' /\ pc = "block" /\ pc' = "block" /\ port' = port
         /\ control' = control /\ panic' = panic
         /\ remsz > 0 /\ remsz' = remsz - 1
         /\ addr + 1 < RamWords => addr' = addr + 1
         /\ control[port].direction = "FromRam" => ram' = ram
         /\ \A a \in Addrs : a # addr => ram'[a] = ram[a]
<1>1. IInv'
  BY NextLemma, Zenon DEF Next, Transfer
<1>2. /\ pc = "block" /\ remsz > 0 /\ addr' = NextAddr /\ remsz' = remsz - 1
      /\ UNCHANGED <<channels, irqs, pc, port, sent, linked, panic>>
  BY Zenon DEF BlockStep
<1>3. addr \in Addrs /\ ram \in [Addrs -> Headers]
  BY Zenon DEF IInv, TypeOK
<1>4. \A a \in Addrs : a # addr => ram'[a] = ram[a]
  BY <1>3, Zenon DEF BlockStep
<1>5. addr + 1 < RamWords => (addr + 1) % RamWords = addr + 1
  BY <1>3, DmaAssumption DEF Addrs
<1>6. addr + 1 < RamWords => addr' = addr + 1
  BY <1>2, <1>5, Zenon DEF NextAddr
<1> QED
  BY <1>1, <1>2, <1>4, <1>6, Zenon DEF BlockStep, channels

----------------------------------------------------------------------------
\* The data buffer of the CD-ROM controller

(***************************************************************************)
(* SectorInOrder is inductive with what it takes for granted: an active    *)
(* buffer has words left, all the words of the buffer are of the last      *)
(* sector, and the transfer under way is one the program of the CD-ROM     *)
(* started, at the word it has read up to and for no more words than the   *)
(* sector has.                                                             *)
(***************************************************************************)
CdInv ==
  /\ ~panic /\ Rx!TypeOK /\ parity \in {0, 1} /\ torn \in BOOLEAN
  /\ at \in 0 .. RamWords
  /\ rx_index <= BufferSize \/ rx_index % 2 = 0
  /\ rx_active => rx_index = at /\ at < rx_len
  /\ \A i \in 0 .. at - 1 : ram[i].next = i /\ (~torn => ram[i].size = parity)
  /\ \A i \in 0 .. rx_len - 1 : rx_buffer[i] = parity
  /\ \/ pc = "cpu"
     \/ /\ pc = "block" /\ port = "CdRom" /\ control["CdRom"] = Reading
        /\ remsz > 0 => rx_active /\ addr = at /\ remsz <= rx_len - at

\* A sector has a size, and fits into the buffer and into the RAM.
LEMMA SectorSizesLemma ==
  \A n \in SectorSizes \cup {0} : n \in Nat /\ n <= BufferSize /\ n <= RamWords
  BY DevicesAssumption, DmaAssumption

\* A sector that arrives between two transfers.
LEMMA ArriveLemma ==
  ASSUME IInv, CdInv, NEW n \in SectorSizes, Arrive(n)
  PROVE  IInv' /\ CdInv'
<1>1. UNCHANGED <<dma, at>> /\ UNCHANGED <<rx_active, rx_index>> /\ pc = "cpu"
  BY Zenon DEF Arrive, Between, Rx!read_sector
<1>2. IInv' /\ UNCHANGED <<pc, panic, ram>>
  <2>1. UNCHANGED vars
    BY <1>1, Zenon DEF dma, vars
  <2> QED
    BY <2>1, NextLemma, Zenon DEF vars, loop, memory
<1>3. /\ n \in Nat /\ n <= BufferSize /\ n <= RamWords /\ rx_len' = n
      /\ parity' = 1 - parity /\ torn' = TRUE
  BY SectorSizesLemma, Zenon DEF Arrive, Rx!read_sector
<1>4. parity' \in {0, 1}
  BY <1>3 DEF CdInv
<1>5. rx_buffer' = [i \in Rx!Places |-> IF i < n THEN parity' ELSE rx_buffer[i]]
  BY <1>3, Zenon DEF Arrive, Rx!read_sector
<1>6. rx_buffer' \in [Rx!Places -> {0, 1}]
  BY <1>4, <1>5, Zenon DEF CdInv, Rx!TypeOK
<1>7. \A i \in 0 .. n - 1 : rx_buffer'[i] = parity'
  BY <1>3, <1>5, DevicesAssumption DEF Rx!Places
<1>8. Rx!TypeOK'
  BY <1>1, <1>3, <1>6, Zenon DEF CdInv, Rx!TypeOK, Rx!Places
<1>9. rx_active' => rx_index' = at' /\ at' < rx_len'
  BY <1>1, <1>3, Zenon DEF Arrive, CdInv
<1> QED
  BY <1>1, <1>2, <1>3, <1>4, <1>7, <1>8, <1>9, Zenon DEF CdInv

\* The program asks for the data of a sector, goes on or gives up.
LEMMA AskLemma ==
  ASSUME IInv, CdInv, NEW active \in BOOLEAN, Ask(active)
  PROVE  IInv' /\ CdInv'
<1>1. /\ UNCHANGED <<dma, parity, rx_len, rx_buffer>> /\ pc = "cpu"
      /\ rx_active' = active
  BY Zenon DEF Ask, Between, Rx!set_host_chip_control
<1>2. IInv' /\ UNCHANGED <<pc, panic, ram>>
  <2>1. UNCHANGED vars
    BY <1>1, Zenon DEF dma, vars
  <2> QED
    BY <2>1, NextLemma, Zenon DEF vars, loop, memory
<1>3. CASE active /\ rx_active
  <2>1. UNCHANGED <<at, torn, rx_index>>
    BY <1>3, Zenon DEF Ask, Rx!set_host_chip_control
  <2>2. Rx!TypeOK'
    BY <1>1, <2>1, Zenon DEF CdInv, Rx!TypeOK, Rx!Places
  <2> QED
    BY <1>1, <1>2, <1>3, <2>1, <2>2, Zenon DEF CdInv
<1>4. CASE ~(active /\ rx_active)
  <2>1. at' = 0 /\ torn' = FALSE
    BY <1>4, Zenon DEF Ask
  <2>2. active => rx_len > 0 /\ rx_index' = 0
    BY <1>4, Zenon DEF Ask, Rx!set_host_chip_control
  <2>3. ~active => rx_index' = rx_index + (rx_index % 2)
    BY Zenon DEF Ask, Rx!set_host_chip_control
  <2>4. rx_index \in 0 .. BufferSize + 1 /\ BufferSize \in Nat
    BY DevicesAssumption, Zenon DEF CdInv, Rx!TypeOK
  <2>5. /\ rx_index' \in 0 .. BufferSize + 1
        /\ rx_index' <= BufferSize \/ rx_index' % 2 = 0
    BY <2>2, <2>3, <2>4 DEF CdInv
  <2>6. Rx!TypeOK'
    BY <1>1, <2>5, Zenon DEF CdInv, Rx!TypeOK, Rx!Places
  <2>7. /\ at' \in 0 .. RamWords /\ torn' \in BOOLEAN
        /\ \A i \in 0 .. at' - 1 : FALSE
    <3>1. torn' \in BOOLEAN
      BY <2>1, Zenon
    <3> QED
      BY <2>1, <3>1, DmaAssumption
  <2>8. rx_active' => rx_index' = at' /\ at' < rx_len'
    BY <1>1, <2>1, <2>2, Zenon
  <2> QED
    BY <1>1, <1>2, <2>5, <2>6, <2>7, <2>8, Zenon DEF CdInv
<1> QED
  BY <1>3, <1>4, Zenon

\* A write to the registers of the CD-ROM's channel.
LEMMA ReadSectorLemma ==
  ASSUME IInv, CdInv, ReadSector
  PROVE  IInv' /\ CdInv'
<1>1. /\ rx_active /\ Channel("CdRom", at, rx_len - at, Reading)
  BY Zenon DEF ReadSector
<1>2. rx_len \in Nat /\ rx_len <= RamWords /\ at \in Nat /\ at < rx_len
  BY <1>1, SectorSizesLemma, DmaAssumption DEF CdInv, Rx!TypeOK
<1>3. at \in Addrs /\ rx_len - at \in Nat
  BY <1>2, DmaAssumption DEF Addrs
<1>4. /\ IInv' /\ UNCHANGED <<ram, panic, device, rx, side>>
      /\ \/ pc' = "cpu"
         \/ /\ pc' = "block" /\ port' = "CdRom" /\ control'["CdRom"] = Reading
            /\ addr' = at /\ remsz' <= rx_len - at
  BY <1>1, <1>3, ChannelLemma, Zenon
<1>5. Rx!TypeOK'
  BY <1>4, Zenon DEF rx, CdInv, Rx!TypeOK, Rx!Places
<1> QED
  BY <1>1, <1>2, <1>4, <1>5, Zenon DEF CdInv, rx, side

\* A word of the sector: it is taken from the place in the buffer that the
\* program has read up to, and put at the same place of the RAM.
LEMMA CdWordLemma ==
  ASSUME IInv, CdInv, BlockStep, Word
  PROVE  IInv' /\ CdInv'
<1>1. pc = "block" /\ remsz > 0
  BY Zenon DEF BlockStep
<1>2. /\ port = "CdRom" /\ control[port] = Reading
      /\ rx_active /\ addr = at /\ remsz <= rx_len - at
  BY <1>1, Zenon DEF CdInv
<1>3. control[port].step = "Increment"
  BY <1>2, ControlWords, Zenon
<1>4. /\ IInv' /\ pc' = "block" /\ port' = port
      /\ control' = control /\ panic' = panic /\ remsz' = remsz - 1
      /\ addr + 1 < RamWords => addr' = addr + 1
      /\ \A a \in Addrs : a # addr => ram'[a] = ram[a]
  BY <1>3, BlockStepLemma, Zenon
<1>5. /\ Rx!dma_read_word
      /\ ram'[addr] = Tagged(rx_buffer[rx_index], rx_index)
      /\ at' = at + 1 /\ UNCHANGED <<parity, torn>>
  BY <1>2, Zenon DEF Word
<1>6. /\ rx_index' = rx_index + 1 /\ UNCHANGED <<rx_len, rx_buffer>>
      /\ rx_active' <=> rx_index + 1 # rx_len
      /\ rx_active' \in BOOLEAN
  BY <1>5, Zenon DEF Rx!dma_read_word
<1>7. /\ at \in Nat /\ rx_len \in Nat /\ at < rx_len /\ rx_index = at
      /\ rx_len <= RamWords /\ rx_len <= BufferSize /\ RamWords \in Nat
      /\ BufferSize \in Nat /\ remsz \in Nat
  BY <1>2, SectorSizesLemma, DmaAssumption, DevicesAssumption
  DEF CdInv, Rx!TypeOK, IInv, TypeOK
<1>8. Rx!TypeOK' /\ (rx_index' <= BufferSize \/ rx_index' % 2 = 0)
  BY <1>6, <1>7 DEF CdInv, Rx!TypeOK, Rx!Places
<1>9. at' \in 0 .. RamWords
  BY <1>5, <1>7
<1>10. rx_active' => rx_index' = at' /\ at' < rx_len'
  BY <1>5, <1>6, <1>7
<1>11. \A i \in 0 .. at' - 1 :
         ram'[i].next = i /\ (~torn' => ram'[i].size = parity')
  <2> TAKE i \in 0 .. at' - 1
  <2>1. i \in Addrs /\ i \in 0 .. at
    BY <1>5, <1>7 DEF Addrs
  <2>2. CASE i = at
    <3>1. ram'[i] = Tagged(rx_buffer[i], i)
      BY <1>2, <1>5, <1>7, <2>2, Zenon
    <3>2. rx_buffer[i] = parity
      BY <1>7, <2>2 DEF CdInv
    <3> QED
      BY <1>5, <3>1, <3>2 DEF Tagged
  <2>3. CASE i # at
    <3>1. i \in 0 .. at - 1 /\ ram'[i] = ram[i]
      BY <1>2, <1>4, <1>7, <2>1, <2>3
    <3> QED
      BY <1>5, <3>1, Zenon DEF CdInv
  <2> QED
    BY <2>2, <2>3, Zenon
<1>12. remsz' > 0 => rx_active' /\ addr' = at' /\ remsz' <= rx_len' - at'
  BY <1>2, <1>4, <1>5, <1>6, <1>7
<1> QED
  BY <1>2, <1>4, <1>5, <1>6, <1>8, <1>9, <1>10, <1>11, <1>12, Zenon DEF CdInv

\* The steps of a behaviour with the CD-ROM.
LEMMA CdStep ==
  ASSUME IInv, CdInv, device = "cdrom",
         [DevicesTransfer \/ DevicesProgram]_allvars
  PROVE  IInv' /\ CdInv'
<1>1. CASE BlockStep /\ Word
  BY <1>1, CdWordLemma, Zenon
<1>2. CASE BlockUnhandled /\ (Handled => Rx!Refuses)
  <2>1. pc = "block" /\ remsz > 0
    BY <1>2, Zenon DEF BlockUnhandled
  <2>2. /\ port = "CdRom" /\ control[port] = Reading
        /\ rx_active /\ rx_index = at /\ at < rx_len
    BY <2>1, Zenon DEF CdInv
  <2>3. Handled
    BY <2>2, ControlWords, Zenon DEF Handled
  <2>4. rx_len \in Nat /\ rx_len <= BufferSize
    BY SectorSizesLemma, Zenon DEF CdInv, Rx!TypeOK
  <2>5. at \in Nat /\ BufferSize \in Nat
    BY DmaAssumption, DevicesAssumption DEF CdInv
  <2>6. ~Rx!Refuses
    BY <2>2, <2>4, <2>5 DEF Rx!Refuses
  <2> QED
    BY <1>2, <2>3, <2>6, Zenon
<1>3. CASE ListStep
  BY <1>3, Zenon DEF ListStep, CdInv
<1>4. CASE BlockEnd /\ UNCHANGED <<device, rx, mdec, spu, side>>
  <2>1. IInv'
    BY <1>4, NextLemma, Zenon DEF Next, Transfer
  <2>2. pc' = "cpu" /\ UNCHANGED <<memory, panic>>
    BY <1>4, Zenon DEF BlockEnd, Done
  <2>3. Rx!TypeOK'
    BY <1>4, Zenon DEF rx, CdInv, Rx!TypeOK, Rx!Places
  <2> QED
    BY <1>4, <2>1, <2>2, <2>3, Zenon DEF CdInv, rx, side, memory
<1>5. ASSUME NEW n \in SectorSizes, Arrive(n) PROVE IInv' /\ CdInv'
  BY <1>5, ArriveLemma, Zenon
<1>6. ASSUME NEW active \in BOOLEAN, Ask(active) PROVE IInv' /\ CdInv'
  BY <1>6, AskLemma, Zenon
<1>7. CASE ReadSector
  BY <1>7, ReadSectorLemma, Zenon
<1>8. CASE UNCHANGED allvars
  <2>1. UNCHANGED vars /\ UNCHANGED <<rx, side>>
    BY <1>8, Zenon DEF allvars, dma, vars
  <2>2. IInv'
    BY <2>1, NextLemma, Zenon
  <2>3. Rx!TypeOK'
    BY <2>1, Zenon DEF rx, CdInv, Rx!TypeOK, Rx!Places
  <2> QED
    BY <2>1, <2>2, <2>3, Zenon DEF CdInv, rx, side, vars, memory, loop,
       channels
<1>9. ~(device = "table" /\ Program) /\ ~FillStream /\ ~StoreWord /\ ~SendStream
      /\ ~SendSamples
  BY Zenon DEF FillStream, StoreWord, SendStream, SendSamples, Between
<1>10. /\ \A reset \in BOOLEAN, a \in DOMAIN Stream : ~StoreControl(reset, a)
       /\ \A s \in SpuStores : ~SpuStore(s[1], s[2])
  BY Zenon DEF StoreControl, SpuStore, Between
<1> QED
  BY <1>1, <1>2, <1>3, <1>4, <1>5, <1>6, <1>7, <1>8, <1>9, <1>10, Zenon DEF
     DevicesTransfer, DevicesProgram

----------------------------------------------------------------------------
\* The sound processor

(***************************************************************************)
(* SamplesInPlace is inductive with the types of the registers and with    *)
(* the port of the transfer under way, whose words do_dma_block ignores.   *)
(***************************************************************************)
SpuInv ==
  /\ at \in 0 .. SpuSize /\ from \in 0 .. SpuSize - 1
  /\ Sound!TypeOK /\ shadow = [r \in Sound!Registers |-> shadow[r]]
  /\ \A k \in 0 .. at - 1 : spu_ram[(from + k) % SpuSize] = k + 1
  /\ ram_index = (from + at) % SpuSize
  /\ 4 * shadow["transfer_start"] = from
  /\ pc = "cpu" \/ (pc = "block" /\ port = "Spu" /\ control["Spu"] = Writing)

\* The mask of the write pointer, for the sums that occur.
LEMMA ModuloLemma ==
  \A x \in 0 .. 2 * SpuSize - 1 :
    x % SpuSize = IF x < SpuSize THEN x ELSE x - SpuSize
<1>1. SpuSize \in Nat \ {0}
  BY DevicesAssumption, Zenon
<1>2. \A x \in 0 .. SpuSize - 1 : x % SpuSize = x
  BY <1>1
<1>3. \A x \in SpuSize .. 2 * SpuSize - 1 : x % SpuSize = x - SpuSize
  BY <1>1
<1> QED
  BY <1>1, <1>2, <1>3

\* A sample is written behind the ones before it, and over none of them.
LEMMA FifoLemma ==
  ASSUME SpuInv, at < SpuSize, Sound!fifo_write(at + 1)
  PROVE  /\ ram_index' \in 0 .. SpuSize - 1
         /\ ram_index' = (from + (at + 1)) % SpuSize
         /\ spu_ram' \in [0 .. SpuSize - 1 -> 0 .. SpuSize]
         /\ \A k \in 0 .. at : spu_ram'[(from + k) % SpuSize] = k + 1
<1>1. /\ SpuSize \in Nat \ {0} /\ at \in 0 .. SpuSize - 1
      /\ from \in 0 .. SpuSize - 1 /\ ram_index = (from + at) % SpuSize
      /\ ram_index \in 0 .. SpuSize - 1
      /\ spu_ram \in [0 .. SpuSize - 1 -> 0 .. SpuSize]
  BY DevicesAssumption DEF SpuInv, Sound!TypeOK
<1>2. /\ spu_ram' = [spu_ram EXCEPT ![ram_index] = at + 1]
      /\ ram_index' = (ram_index + 1) % SpuSize
  BY Zenon DEF Sound!fifo_write
<1>3. ram_index' = (from + (at + 1)) % SpuSize
  <2>1. /\ from + at \in 0 .. 2 * SpuSize - 1
        /\ from + (at + 1) \in 0 .. 2 * SpuSize - 1
        /\ ram_index + 1 \in 0 .. 2 * SpuSize - 1
    BY <1>1
  <2> DEFINE M(x) == x % SpuSize
  <2>2. \A x \in 0 .. 2 * SpuSize - 1 :
          M(x) = IF x < SpuSize THEN x ELSE x - SpuSize
    BY ModuloLemma, Zenon
  <2>3. ram_index = M(from + at) /\ ram_index' = M(ram_index + 1)
    BY <1>1, <1>2, Zenon
  <2> HIDE DEF M
  <2>4. /\ SpuSize \in Nat \ {0} /\ at \in 0 .. SpuSize - 1
        /\ from \in 0 .. SpuSize - 1 /\ ram_index \in 0 .. SpuSize - 1
    BY <1>1, Zenon
  <2>5. ram_index = IF from + at < SpuSize THEN from + at ELSE from + at - SpuSize
    BY <2>4, <2>1, <2>2, <2>3
  <2>6. M(ram_index + 1) = IF ram_index + 1 < SpuSize
                           THEN ram_index + 1 ELSE ram_index + 1 - SpuSize
    BY <2>4, <2>1, <2>2
  <2>7. M(from + (at + 1)) = IF from + (at + 1) < SpuSize
                             THEN from + (at + 1) ELSE from + (at + 1) - SpuSize
    BY <2>4, <2>1, <2>2
  <2>8. M(ram_index + 1) = M(from + (at + 1))
    BY <2>4, <2>5, <2>6, <2>7
  <2> QED
    BY <2>3, <2>8, Zenon DEF M
<1>4. ram_index' \in 0 .. SpuSize - 1
  BY <1>1, <1>2
<1>5. spu_ram' \in [0 .. SpuSize - 1 -> 0 .. SpuSize]
  BY <1>1, <1>2
<1>6. \A k \in 0 .. at : spu_ram'[(from + k) % SpuSize] = k + 1
  <2> TAKE k \in 0 .. at
  <2>1. /\ from + k \in 0 .. 2 * SpuSize - 1 /\ from + at \in 0 .. 2 * SpuSize - 1
    BY <1>1
  <2>2. (from + k) % SpuSize \in 0 .. SpuSize - 1
    BY <1>1, <2>1
  <2>3. CASE k = at
    BY <1>1, <1>2, <2>2, <2>3, Zenon
  <2>4. CASE k # at
    <3> DEFINE M(x) == x % SpuSize
    <3>1. \A x \in 0 .. 2 * SpuSize - 1 :
            M(x) = IF x < SpuSize THEN x ELSE x - SpuSize
      BY ModuloLemma, Zenon
    <3>2. ram_index = M(from + at)
      BY <1>1, Zenon
    <3> HIDE DEF M
    <3>3. M(from + k) # ram_index
      BY <1>1, <2>1, <2>4, <3>1, <3>2
    <3>4. (from + k) % SpuSize # ram_index
      BY <3>3, Zenon DEF M
    <3>5. spu_ram'[(from + k) % SpuSize] = spu_ram[(from + k) % SpuSize]
      BY <1>1, <1>2, <2>2, <3>4, Zenon
    <3>6. k \in 0 .. at - 1
      BY <1>1, <2>4
    <3> QED
      BY <3>5, <3>6, Zenon DEF SpuInv
  <2> QED
    BY <2>3, <2>4, Zenon
<1> QED
  BY <1>3, <1>4, <1>5, <1>6, Zenon

\* A store to any register.
LEMMA SpuStoreLemma ==
  ASSUME IInv, SpuInv, NEW s \in SpuStores, SpuStore(s[1], s[2])
  PROVE  IInv' /\ SpuInv'
<1> DEFINE r == s[1]
           v == s[2]
<1>1. /\ r \in SpuRegisters
      /\ r = "transfer_start" => v \in Nat /\ 4 * v < SpuSize
      /\ r \in {"voice_on", "voice_off"} => v \subseteq Voices
      /\ SpuSize \in Nat \ {0}
  BY DevicesAssumption, Zenon
<1>2. /\ pc = "cpu" /\ UNCHANGED dma
      /\ r = "transfer_fifo" => v = at + 1 /\ at < SpuSize
      /\ Sound!store(r, v)
      /\ r = "transfer_start" => at' = 0 /\ from' = 4 * v
      /\ r = "transfer_fifo" => at' = at + 1 /\ from' = from
      /\ r \notin {"transfer_start", "transfer_fifo"} => at' = at /\ from' = from
  BY Zenon DEF SpuStore, Between
<1>3. IInv' /\ pc' = pc
  <2>1. UNCHANGED vars
    BY <1>2, Zenon DEF dma, vars
  <2> QED
    BY <2>1, NextLemma, Zenon DEF vars, loop
<1> HIDE DEF r, v
<1>4. /\ shadow' = [shadow EXCEPT !["voice_status"] = Sound!VoiceStatus(r, v),
                                  ![r] = v]
      /\ r = "transfer_start" => ram_index' = 4 * v /\ spu_ram' = spu_ram
      /\ r = "transfer_fifo" => Sound!fifo_write(v)
      /\ r \notin {"transfer_start", "transfer_fifo"} =>
           UNCHANGED <<spu_ram, ram_index>>
  BY <1>2, Zenon DEF Sound!store
<1>5. /\ "voice_status" \in Sound!Registers /\ "transfer_start" \in Sound!Registers
      /\ "voice_on" \in Sound!Registers /\ "voice_off" \in Sound!Registers
      /\ r \in Sound!Registers /\ r # "voice_status"
  BY <1>1, Zenon DEF Sound!Registers, SpuRegisters
<1>6. shadow = [q \in Sound!Registers |-> shadow[q]]
  BY Zenon DEF SpuInv
<1>7. /\ shadow' = [q \in Sound!Registers |-> shadow'[q]]
      /\ shadow'[r] = v /\ shadow'["voice_status"] = Sound!VoiceStatus(r, v)
      /\ \A q \in Sound!Registers \ {r, "voice_status"} : shadow'[q] = shadow[q]
  BY <1>4, <1>5, <1>6, Zenon
<1>8. \A q \in {"voice_on", "voice_off", "voice_status"} : shadow'[q] \subseteq Voices
  <2>1. /\ shadow["voice_on"] \subseteq Voices /\ shadow["voice_off"] \subseteq Voices
        /\ shadow["voice_status"] \subseteq Voices
    BY Zenon DEF SpuInv, Sound!TypeOK
  <2>2. Sound!VoiceStatus(r, v) \subseteq Voices
    BY <1>1, <2>1, Zenon DEF Sound!VoiceStatus
  <2> QED
    BY <1>1, <1>5, <1>7, <2>1, <2>2, Zenon
<1>9. CASE r = "transfer_start"
  <2>1. /\ at' = 0 /\ from' = 4 * v /\ ram_index' = 4 * v /\ spu_ram' = spu_ram
        /\ shadow'["transfer_start"] = v /\ 4 * v \in 0 .. SpuSize - 1
    BY <1>1, <1>2, <1>4, <1>7, <1>9
  <2>2. ram_index' = (from' + at') % SpuSize
    BY <1>1, <2>1
  <2>3. Sound!TypeOK'
    BY <1>8, <2>1, Zenon DEF Sound!TypeOK, SpuInv
  <2>4. at' \in 0 .. SpuSize /\ from' \in 0 .. SpuSize - 1
        /\ \A k \in 0 .. at' - 1 : FALSE
    BY <1>1, <2>1
  <2> QED
    BY <1>2, <1>3, <1>7, <2>1, <2>2, <2>3, <2>4, Zenon DEF SpuInv
<1>10. CASE r = "transfer_fifo"
  <2>1. /\ at' = at + 1 /\ from' = from /\ Sound!fifo_write(at + 1)
        /\ at < SpuSize
    BY <1>2, <1>4, <1>10, Zenon
  <2>2. /\ ram_index' \in 0 .. SpuSize - 1
        /\ ram_index' = (from + (at + 1)) % SpuSize
        /\ spu_ram' \in [0 .. SpuSize - 1 -> 0 .. SpuSize]
        /\ \A k \in 0 .. at : spu_ram'[(from + k) % SpuSize] = k + 1
    BY <2>1, FifoLemma, Zenon
  <2>3. Sound!TypeOK'
    BY <1>8, <2>2, Zenon DEF Sound!TypeOK
  <2>4. at' \in 0 .. SpuSize /\ 0 .. at' - 1 = 0 .. at
    BY <1>1, <2>1 DEF SpuInv
  <2>5. shadow'["transfer_start"] = shadow["transfer_start"]
    BY <1>5, <1>7, <1>10, Zenon
  <2> QED
    BY <1>2, <1>3, <1>7, <2>1, <2>2, <2>3, <2>4, <2>5, Zenon DEF SpuInv
<1>11. CASE r \notin {"transfer_start", "transfer_fifo"}
  <2>1. UNCHANGED <<at, from, spu_ram, ram_index>>
    BY <1>2, <1>4, <1>11, Zenon
  <2>2. shadow'["transfer_start"] = shadow["transfer_start"]
    BY <1>5, <1>7, <1>11, Zenon
  <2>3. Sound!TypeOK'
    BY <1>8, <2>1, Zenon DEF Sound!TypeOK, SpuInv
  <2> QED
    BY <1>2, <1>3, <1>7, <2>1, <2>2, <2>3, Zenon DEF SpuInv
<1> QED
  BY <1>9, <1>10, <1>11, Zenon

\* The steps of a behaviour with the SPU.
LEMMA SpuStep ==
  ASSUME IInv, SpuInv, device = "spu",
         [DevicesTransfer \/ DevicesProgram]_allvars
  PROVE  IInv' /\ SpuInv'
<1>1. ASSUME IInv', UNCHANGED <<spu, at, from>>,
             \/ pc' = "cpu"
             \/ pc' = "block" /\ port' = "Spu" /\ control'["Spu"] = Writing
      PROVE  IInv' /\ SpuInv'
  <2>1. Sound!TypeOK'
    BY <1>1, Zenon DEF SpuInv, Sound!TypeOK, spu
  <2> QED
    BY <1>1, <2>1, Zenon DEF SpuInv, spu
<1>2. CASE BlockStep /\ Word
  <2>1. pc = "block" /\ port = "Spu" /\ control[port] = Writing
    BY <1>2, Zenon DEF BlockStep, SpuInv
  <2>2. IInv' /\ pc' = "block" /\ port' = port /\ control' = control
    BY <1>2, <2>1, ControlWords, BlockStepLemma, Zenon
  <2>3. UNCHANGED <<spu, side>>
    BY <1>2, <2>1, Zenon DEF Word
  <2> QED
    BY <1>1, <2>1, <2>2, <2>3, Zenon DEF side
<1>3. CASE BlockUnhandled
  <2>1. pc = "block"
    BY <1>3, Zenon DEF BlockUnhandled
  <2>2. port = "Spu" /\ control[port] = Writing
    BY <2>1, Zenon DEF SpuInv
  <2> QED
    BY <1>3, <2>2, ControlWords, Zenon DEF BlockUnhandled, Handled
<1>4. CASE ListStep
  BY <1>4, Zenon DEF ListStep, SpuInv
<1>5. CASE BlockEnd /\ UNCHANGED <<device, rx, mdec, spu, side>>
  <2>1. IInv' /\ pc' = "cpu"
    BY <1>5, NextLemma, Zenon DEF Next, Transfer, BlockEnd, Done
  <2> QED
    BY <1>1, <1>5, <2>1, Zenon DEF side
<1>6. ASSUME NEW s \in SpuStores, SpuStore(s[1], s[2]) PROVE IInv' /\ SpuInv'
  BY <1>6, SpuStoreLemma, Zenon
<1>7. CASE SendSamples
  <2>1. 0 \in Addrs /\ RamWords \in Nat
    BY DmaAssumption DEF Addrs
  <2>2. Channel("Spu", 0, RamWords, Writing)
    BY <1>7, Zenon DEF SendSamples
  <2>3. /\ IInv' /\ UNCHANGED <<spu, side>>
        /\ \/ pc' = "cpu"
           \/ pc' = "block" /\ port' = "Spu" /\ control'["Spu"] = Writing
    BY <2>1, <2>2, ChannelLemma, Zenon
  <2> QED
    BY <1>1, <2>3, Zenon DEF side
<1>8. CASE UNCHANGED allvars
  <2>1. UNCHANGED vars /\ UNCHANGED <<spu, side>>
    BY <1>8, Zenon DEF allvars, dma, vars
  <2>2. IInv'
    BY <2>1, NextLemma, Zenon
  <2> QED
    BY <1>1, <2>1, <2>2, Zenon DEF side, SpuInv, vars, loop, channels
<1>9. ~(device = "table" /\ Program) /\ ~FillStream /\ ~StoreWord /\ ~SendStream
      /\ ~ReadSector
  BY Zenon DEF FillStream, StoreWord, SendStream, ReadSector, Between
<1>10. /\ \A reset \in BOOLEAN, a \in DOMAIN Stream : ~StoreControl(reset, a)
       /\ \A n \in SectorSizes : ~Arrive(n)
       /\ \A active \in BOOLEAN : ~Ask(active)
  BY Zenon DEF StoreControl, Arrive, Ask, Between
<1> QED
  BY <1>2, <1>3, <1>4, <1>5, <1>6, <1>7, <1>8, <1>9, <1>10, Zenon DEF
     DevicesTransfer, DevicesProgram

----------------------------------------------------------------------------
\* The motion decoder

(***************************************************************************)
(* The decoder after n of the w words that follow a command h, which       *)
(* begin at address b of the stream.                                       *)
(***************************************************************************)
Receiving(b, h, w, n) ==
  /\ IF n = -1 \/ n = w
     THEN handler = "command" /\ remaining = 1
     ELSE handler = h /\ remaining = w - n
  /\ \A i \in 0 .. n - 1 :
       (IF h = "idct" THEN idct ELSE quant)[i] = Tagged(1, b + i)

(***************************************************************************)
(* UploadInPlace is inductive with the contents of the stream and with     *)
(* what the program knows of a transfer under way: it starts with the next *)
(* word of the stream and ends no later than the stream.                   *)
(***************************************************************************)
MdecInv ==
  /\ Decoder!TypeOK
  /\ from \in DOMAIN Stream /\ at \in Nat
  /\ from <= at /\ at <= from + 1 + Payload(Stream[from])
  /\ Receiving(from + 1, Stream[from], Payload(Stream[from]), at - from - 1)
  /\ IF Filled THEN \A a \in Addrs : ram[a] = Tagged(1, a) ELSE at = from
  /\ \/ pc = "cpu"
     \/ /\ pc = "block" /\ port = "MDecIn" /\ control["MDecIn"] = Writing
        /\ Filled /\ remsz \in Nat
        /\ remsz > 0 => addr = at /\ remsz <= RamWords - at

\* The words handle_command announces are the words the program sends.
LEMMA PayloadLemma ==
  /\ Payload("command") = 0 /\ Decoder!Length("command") = 1
  /\ \A h \in {"color_quant", "monochrome_quant", "idct"} :
       /\ Payload(h) \in 1 .. 2 * MatrixWords
       /\ Decoder!Length(h) = Payload(h)
  /\ Payload("color_quant") = 2 * MatrixWords
  /\ Payload("monochrome_quant") = MatrixWords
  /\ Payload("idct") = 2 * MatrixWords
BY DevicesAssumption DEF Payload, Decoder!Length, Decoder!Color

\* What is known of the place the program has reached in its stream.
LEMMA StreamLemma ==
  ASSUME MdecInv
  PROVE  /\ from \in Addrs /\ from \in Nat /\ RamWords \in Nat
         /\ Stream[from] \in Decoder!Handlers /\ Payload(Stream[from]) \in Nat
         /\ at <= RamWords /\ from + 1 + Payload(Stream[from]) <= RamWords
         /\ at = from \/ at = from + 1 + Payload(Stream[from]) =>
              at \in DOMAIN Stream \/ at = RamWords
         /\ at # from /\ at # from + 1 + Payload(Stream[from]) =>
              at \notin DOMAIN Stream
<1>1. from \in Addrs /\ from \in Nat /\ RamWords \in Nat
  BY StreamAssumption, DmaAssumption DEF MdecInv, Addrs
<1>2. Stream[from] \in Decoder!Handlers
  BY StreamAssumption, Zenon DEF MdecInv, Decoder!Handlers
<1>3. Payload(Stream[from]) \in Nat
  BY <1>2, PayloadLemma, DevicesAssumption DEF Decoder!Handlers
<1>4. /\ from + 1 + Payload(Stream[from]) \in DOMAIN Stream \cup {RamWords}
      /\ \A b \in DOMAIN Stream :
           b <= from \/ b >= from + 1 + Payload(Stream[from])
  BY StreamAssumption, Zenon DEF MdecInv
<1>5. from + 1 + Payload(Stream[from]) <= RamWords
  BY <1>1, <1>3, <1>4, StreamAssumption DEF Addrs
<1>6. /\ from <= at /\ at <= from + 1 + Payload(Stream[from]) /\ at \in Nat
      /\ from \in DOMAIN Stream
  BY Zenon DEF MdecInv
<1>7. at <= RamWords
  BY <1>1, <1>3, <1>5, <1>6
<1>8. at # from /\ at # from + 1 + Payload(Stream[from]) => at \notin DOMAIN Stream
  <2>1. SUFFICES ASSUME at # from, at # from + 1 + Payload(Stream[from]),
                        at \in DOMAIN Stream
                 PROVE  FALSE
    BY Zenon
  <2>2. at <= from \/ at >= from + 1 + Payload(Stream[from])
    BY <1>4, <2>1, Zenon
  <2> QED
    BY <1>1, <1>3, <1>6, <2>1, <2>2
<1> QED
  BY <1>1, <1>2, <1>3, <1>4, <1>5, <1>6, <1>7, <1>8, Zenon

\* A word at the start of a command installs its handler.
LEMMA CommandLemma ==
  ASSUME MdecInv, NEW w \in Headers, at \in DOMAIN Stream, w = Tagged(1, at),
         at = from \/ at = from + 1 + Payload(Stream[from]),
         Decoder!command(w)
  PROVE  /\ Decoder!TypeOK'
         /\ IF Payload(Stream[at]) = 0
            THEN handler' = "command" /\ remaining' = 1
            ELSE handler' = Stream[at] /\ remaining' = Payload(Stream[at])
<1>1. handler = "command"
  BY StreamLemma DEF MdecInv, Receiving
<1>2. /\ Decoder!Finish(StreamOpcode[w], Decoder!Length(StreamOpcode[w]))
      /\ UNCHANGED Decoder!tables
  BY <1>1, Zenon DEF Decoder!command, Decoder!handle_command,
     Decoder!handle_color_quant_matrices, Decoder!handle_monochrome_quant_matrix,
     Decoder!handle_idct_matrix
<1>3. StreamOpcode[w] = Stream[at]
  BY Zenon DEF StreamOpcode, Tagged
<1>4. Stream[at] \in Decoder!Handlers
  BY StreamAssumption, Zenon DEF Decoder!Handlers
<1>5. Decoder!Finish(Stream[at], Decoder!Length(Stream[at]))
  BY <1>2, <1>3, Zenon
<1>6. CASE Stream[at] = "command"
  <2>1. handler' = "command" /\ remaining' = 1
    BY <1>5, <1>6, PayloadLemma, Zenon DEF Decoder!Finish
  <2>2. Decoder!TypeOK'
    BY <1>2, <2>1, DevicesAssumption
    DEF MdecInv, Decoder!TypeOK, Decoder!tables, Decoder!Handlers, Decoder!Color
  <2> QED
    BY <1>6, <2>1, <2>2, PayloadLemma, Zenon
<1>7. CASE Stream[at] \in {"color_quant", "monochrome_quant", "idct"}
  <2>1. /\ Payload(Stream[at]) \in 1 .. 2 * MatrixWords
        /\ Decoder!Length(Stream[at]) = Payload(Stream[at])
    BY <1>7, PayloadLemma, Zenon
  <2>2. Payload(Stream[at]) # 0
    BY <2>1, DevicesAssumption
  <2>3. handler' = Stream[at] /\ remaining' = Payload(Stream[at])
    BY <1>5, <2>1, <2>2, Zenon DEF Decoder!Finish
  <2>4. Decoder!TypeOK'
    BY <1>2, <1>4, <2>1, <2>3, Zenon DEF MdecInv, Decoder!TypeOK,
       Decoder!tables, Decoder!Color
  <2> QED
    BY <2>2, <2>3, <2>4, Zenon
<1> QED
  BY <1>4, <1>6, <1>7, Zenon DEF Decoder!Handlers

\* A word in the middle of a command goes to the place of its matrix that is
\* next: the index computed from command_remaining is the number of words
\* received so far.
LEMMA MatrixLemma ==
  ASSUME MdecInv, NEW w \in Headers, NEW n, NEW h, NEW words,
         n = at - from - 1, h = Stream[from], words = Payload(h),
         at # from, n # words, Decoder!command(w)
  PROVE  /\ n \in Nat /\ n < words /\ words <= 2 * MatrixWords
         /\ Decoder!TypeOK'
         /\ IF n + 1 = words
            THEN handler' = "command" /\ remaining' = 1
            ELSE handler' = h /\ remaining' = words - (n + 1)
         /\ (IF h = "idct" THEN idct' ELSE quant')
              = [(IF h = "idct" THEN idct ELSE quant) EXCEPT ![n] = w]
<1>1. /\ from \in Nat /\ at \in Nat /\ words \in Nat /\ h \in Decoder!Handlers
      /\ from <= at /\ at <= from + 1 + words
  BY StreamLemma, Zenon DEF MdecInv
<1>2. n \in Nat /\ n < words
  BY <1>1
<1>3. h \in {"color_quant", "monochrome_quant", "idct"}
  BY <1>1, <1>2, PayloadLemma DEF Decoder!Handlers
<1>4. words \in 1 .. 2 * MatrixWords /\ MatrixWords \in Nat
  BY <1>3, PayloadLemma, DevicesAssumption, Zenon
<1>5. n # -1
  BY <1>2
<1>6. handler = h /\ remaining = words - n
  BY <1>5, Zenon DEF MdecInv, Receiving
<1>7. /\ quant \in [0 .. 2 * MatrixWords - 1 -> Headers]
      /\ idct \in [0 .. 2 * MatrixWords - 1 -> Headers]
  BY Zenon DEF MdecInv, Decoder!TypeOK, Decoder!Color
<1>8. ASSUME NEW matrix \in [0 .. 2 * MatrixWords - 1 -> Headers]
      PROVE  [matrix EXCEPT ![n] = w] \in [0 .. 2 * MatrixWords - 1 -> Headers]
  BY <1>8, Zenon
<1>9. /\ Decoder!Finish(h, words - n - 1)
      /\ IF h = "idct"
         THEN idct' = [idct EXCEPT ![n] = w] /\ quant' = quant
         ELSE quant' = [quant EXCEPT ![n] = w] /\ idct' = idct
  <2>1. remaining - 1 = words - n - 1 /\ words - 1 - (remaining - 1) = n
    BY <1>2, <1>4, <1>6
  <2>2. CASE h = "color_quant"
    <3>1. words = Decoder!Color
      BY <2>2, PayloadLemma, Zenon DEF Decoder!Color
    <3>2. Decoder!handle_color_quant_matrices(w)
      BY <1>6, <2>2, Zenon DEF Decoder!command, Decoder!handle_command,
         Decoder!handle_monochrome_quant_matrix, Decoder!handle_idct_matrix
    <3> QED
      BY <1>6, <2>1, <2>2, <3>1, <3>2, Zenon DEF
         Decoder!handle_color_quant_matrices
  <2>3. CASE h = "monochrome_quant"
    <3>1. words = MatrixWords
      BY <2>3, PayloadLemma, Zenon
    <3>2. Decoder!handle_monochrome_quant_matrix(w)
      BY <1>6, <2>3, Zenon DEF Decoder!command, Decoder!handle_command,
         Decoder!handle_color_quant_matrices, Decoder!handle_idct_matrix
    <3> QED
      BY <1>6, <2>1, <2>3, <3>1, <3>2, Zenon DEF
         Decoder!handle_monochrome_quant_matrix
  <2>4. CASE h = "idct"
    <3>1. words = Decoder!Color
      BY <2>4, PayloadLemma, Zenon DEF Decoder!Color
    <3>2. Decoder!handle_idct_matrix(w)
      BY <1>6, <2>4, Zenon DEF Decoder!command, Decoder!handle_command,
         Decoder!handle_color_quant_matrices,
         Decoder!handle_monochrome_quant_matrix
    <3> QED
      BY <1>6, <2>1, <2>4, <3>1, <3>2, Zenon DEF Decoder!handle_idct_matrix
  <2> QED
    BY <1>3, <2>2, <2>3, <2>4, Zenon
<1>10. IF n + 1 = words
       THEN handler' = "command" /\ remaining' = 1
       ELSE handler' = h /\ remaining' = words - (n + 1)
  BY <1>2, <1>4, <1>9 DEF Decoder!Finish
<1>11. /\ quant' \in [0 .. 2 * MatrixWords - 1 -> Headers]
       /\ idct' \in [0 .. 2 * MatrixWords - 1 -> Headers]
  BY <1>7, <1>8, <1>9
<1>12. handler' \in Decoder!Handlers
  BY <1>1, <1>10, Zenon DEF Decoder!Handlers
<1>13. remaining' \in 1 .. 2 * MatrixWords
  BY <1>2, <1>4, <1>10
<1>14. Decoder!TypeOK'
  BY <1>11, <1>12, <1>13, Zenon DEF Decoder!TypeOK, Decoder!Color
<1> QED
  BY <1>2, <1>4, <1>9, <1>10, <1>14

\* What a word of the stream changes, wherever it comes from.
LEMMA SendsLemma ==
  ASSUME IInv, MdecInv, Filled, at < RamWords, SendsWord(at)
  PROVE  /\ Decoder!TypeOK'
         /\ from' \in DOMAIN Stream /\ at' = at + 1 /\ at' \in Nat
         /\ from' <= at' /\ at' <= from' + 1 + Payload(Stream[from'])
         /\ Receiving(from + 1, Stream[from], Payload(Stream[from]),
                      at - from - 1)'
<1>1. at \in Addrs /\ at \in Nat
  BY StreamLemma, DmaAssumption DEF MdecInv, Addrs
<1>2. ram[at] \in Headers /\ ram[at] = Tagged(1, at)
  BY <1>1, Zenon DEF IInv, TypeOK, MdecInv
<1>3. /\ Decoder!command(ram[at]) /\ at' = at + 1
      /\ from' = IF at \in DOMAIN Stream THEN at ELSE from
  BY Zenon DEF SendsWord
<1>4. CASE at = from \/ at = from + 1 + Payload(Stream[from])
  <2>1. at \in DOMAIN Stream
    BY <1>1, <1>4, StreamLemma
  <2>2. from' = at
    BY <1>3, <2>1, Zenon
  <2>3. /\ Decoder!TypeOK'
        /\ IF Payload(Stream[at]) = 0
           THEN handler' = "command" /\ remaining' = 1
           ELSE handler' = Stream[at] /\ remaining' = Payload(Stream[at])
    BY <1>2, <1>3, <1>4, <2>1, CommandLemma, Zenon
  <2>4. Stream[at] \in Decoder!Handlers
    BY <2>1, StreamAssumption, Zenon DEF Decoder!Handlers
  <2>5. Payload(Stream[at]) \in Nat
    BY <2>4, PayloadLemma, DevicesAssumption DEF Decoder!Handlers
  <2>6. at' - from' - 1 = 0
    <3>1. at' = at + 1
      BY <1>3, Zenon
    <3> QED
      BY <1>1, <2>2, <3>1
  <2>7. \A i \in 0 .. 0 - 1 : FALSE
    OBVIOUS
  <2>8. Receiving(from + 1, Stream[from], Payload(Stream[from]), at - from - 1)'
    BY <2>2, <2>3, <2>5, <2>6, <2>7 DEF Receiving
  <2> QED
    BY <1>1, <1>3, <2>1, <2>2, <2>3, <2>5, <2>8
<1>5. CASE at # from /\ at # from + 1 + Payload(Stream[from])
  <2> DEFINE n == at - from - 1
             h == Stream[from]
             words == Payload(h)
  <2>1. /\ from \in Nat /\ words \in Nat /\ from <= at /\ at <= from + 1 + words
        /\ from \in DOMAIN Stream
    BY StreamLemma, Zenon DEF MdecInv
  <2>2. n # words /\ n \in Int
    BY <1>1, <1>5, <2>1
  <2>3. at \notin DOMAIN Stream /\ from' = from
    BY <1>3, <1>5, StreamLemma, Zenon
  <2>4. /\ n \in Nat /\ n < words /\ words <= 2 * MatrixWords
        /\ Decoder!TypeOK'
        /\ IF n + 1 = words
           THEN handler' = "command" /\ remaining' = 1
           ELSE handler' = h /\ remaining' = words - (n + 1)
        /\ (IF h = "idct" THEN idct' ELSE quant')
             = [(IF h = "idct" THEN idct ELSE quant) EXCEPT ![n] = ram[at]]
    BY <1>2, <1>3, <1>5, <2>2, MatrixLemma, Zenon
  <2>5. at' - from' - 1 = n + 1 /\ at = from + 1 + n
    BY <1>1, <1>3, <2>1, <2>3
  <2>6. n # -1 /\ n + 1 # -1
    BY <2>4
  <2>7. \A i \in 0 .. n - 1 :
          (IF h = "idct" THEN idct ELSE quant)[i] = Tagged(1, from + 1 + i)
    BY Zenon DEF MdecInv, Receiving
  <2>8. /\ quant \in [0 .. 2 * MatrixWords - 1 -> Headers]
        /\ idct \in [0 .. 2 * MatrixWords - 1 -> Headers]
    BY Zenon DEF MdecInv, Decoder!TypeOK, Decoder!Color
  <2> HIDE DEF n, h, words
  <2>9. \A i \in 0 .. n :
          (IF h = "idct" THEN idct' ELSE quant')[i] = Tagged(1, from + 1 + i)
    <3> TAKE i \in 0 .. n
    <3> DEFINE old == IF h = "idct" THEN idct ELSE quant
               new == IF h = "idct" THEN idct' ELSE quant'
    <3>1. /\ old \in [0 .. 2 * MatrixWords - 1 -> Headers]
          /\ new = [old EXCEPT ![n] = ram[at]]
      BY <2>4, <2>8, Zenon
    <3>2. i \in 0 .. 2 * MatrixWords - 1 /\ n \in 0 .. 2 * MatrixWords - 1
      BY <2>1, <2>4, DevicesAssumption
    <3>3. i # n => i \in 0 .. n - 1
      BY <2>4
    <3> QED
      BY <1>2, <2>5, <2>7, <3>1, <3>2, <3>3, Zenon
  <2>10. 0 .. (n + 1) - 1 = 0 .. n
    BY <2>4, SMTT(30)
  <2>11. Receiving(from + 1, Stream[from], Payload(Stream[from]), at - from - 1)'
    BY <2>3, <2>4, <2>5, <2>6, <2>9, <2>10, Zenon DEF Receiving, h, words
  <2>12. from' <= at' /\ at' <= from' + 1 + Payload(Stream[from'])
    BY <1>1, <1>3, <2>1, <2>3, <2>4, <2>5, SMTT(30) DEF h, words
  <2> QED
    BY <1>1, <1>3, <2>1, <2>3, <2>4, <2>11, <2>12, SMTT(30)
<1> QED
  BY <1>4, <1>5, Zenon

\* The steps of a behaviour with the motion decoder.
LEMMA MdecStep ==
  ASSUME IInv, MdecInv, device = "mdec",
         [DevicesTransfer \/ DevicesProgram]_allvars
  PROVE  IInv' /\ MdecInv'
<1>1. ASSUME IInv', UNCHANGED <<mdec, at, from, ram>>,
             \/ pc' = "cpu"
             \/ /\ pc' = "block" /\ port' = "MDecIn" /\ control'["MDecIn"] = Writing
                /\ Filled /\ remsz' \in Nat
                /\ remsz' > 0 => addr' = at /\ remsz' <= RamWords - at
      PROVE  IInv' /\ MdecInv'
  <2>1. Decoder!TypeOK'
    BY <1>1, Zenon DEF MdecInv, Decoder!TypeOK, mdec, Decoder!Handlers,
       Decoder!Color
  <2>2. Receiving(from + 1, Stream[from], Payload(Stream[from]), at - from - 1)'
    BY <1>1, Zenon DEF MdecInv, Receiving, mdec
  <2>3. Filled' = Filled
    BY <1>1, Zenon DEF Filled
  <2> QED
    BY <1>1, <2>1, <2>2, <2>3, Zenon DEF MdecInv
<1>2. CASE BlockStep /\ Word
  <2>1. pc = "block" /\ remsz > 0
    BY <1>2, Zenon DEF BlockStep
  <2>2. /\ port = "MDecIn" /\ control[port] = Writing /\ Filled /\ remsz \in Nat
        /\ addr = at /\ remsz <= RamWords - at /\ at \in Nat
    BY <2>1, Zenon DEF MdecInv
  <2>3. /\ IInv' /\ pc' = "block" /\ port' = port /\ control' = control
        /\ remsz' = remsz - 1 /\ ram' = ram
        /\ addr + 1 < RamWords => addr' = addr + 1
    BY <1>2, <2>2, ControlWords, BlockStepLemma, Zenon
  <2>4. SendsWord(at)
    BY <1>2, <2>2, Zenon DEF Word
  <2>5. at < RamWords /\ RamWords \in Nat
    BY <2>1, <2>2, DmaAssumption
  <2>6. /\ Decoder!TypeOK'
        /\ from' \in DOMAIN Stream /\ at' = at + 1 /\ at' \in Nat
        /\ from' <= at' /\ at' <= from' + 1 + Payload(Stream[from'])
        /\ Receiving(from + 1, Stream[from], Payload(Stream[from]),
                     at - from - 1)'
    BY <2>2, <2>4, <2>5, SendsLemma, Zenon
  <2>7. Filled' /\ \A a \in Addrs : ram'[a] = Tagged(1, a)
    BY <2>2, <2>3, Zenon DEF Filled, MdecInv
  <2>8. /\ remsz' \in Nat
        /\ remsz' > 0 => addr' = at' /\ remsz' <= RamWords - at'
    BY <2>1, <2>2, <2>3, <2>5, <2>6, SMTT(30)
  <2> QED
    BY <2>2, <2>3, <2>6, <2>7, <2>8, Zenon DEF MdecInv
<1>3. CASE BlockUnhandled
  <2>1. pc = "block"
    BY <1>3, Zenon DEF BlockUnhandled
  <2>2. port = "MDecIn" /\ control[port] = Writing
    BY <2>1, Zenon DEF MdecInv
  <2> QED
    BY <1>3, <2>2, ControlWords, Zenon DEF BlockUnhandled, Handled
<1>4. CASE ListStep
  BY <1>4, Zenon DEF ListStep, MdecInv
<1>5. CASE BlockEnd /\ UNCHANGED <<device, rx, mdec, spu, side>>
  <2>1. IInv' /\ pc' = "cpu" /\ ram' = ram
    BY <1>5, NextLemma, Zenon DEF Next, Transfer, BlockEnd, Done, memory
  <2> QED
    BY <1>1, <1>5, <2>1, Zenon DEF side
<1>6. CASE FillStream
  <2>1. /\ pc = "cpu"
        /\ at = RamWords \/ ~Filled
        /\ ram' = [a \in Addrs |-> Tagged(1, a)]
        /\ at' = 0 /\ from' = 0
        /\ UNCHANGED <<channels, irqs, loop, sent, linked, panic, mdec>>
    BY <1>6, Zenon DEF FillStream, Between
  <2>2. ram' \in [Addrs -> Headers]
    BY <2>1, Zenon DEF Tagged, Headers
  <2>3. IInv'
    BY <2>1, <2>2, Zenon DEF IInv, TypeOK, NothingLeftActive, channels, irqs,
       loop
  <2>4. RamWords - 1 \in Addrs
    BY DmaAssumption DEF Addrs
  <2>5. Filled' /\ \A a \in Addrs : ram'[a] = Tagged(1, a)
    <3>1. \A a \in Addrs : ram'[a] = Tagged(1, a)
      BY <2>1, Zenon
    <3>2. ram'[RamWords - 1] = Tagged(1, RamWords - 1)
      BY <2>4, <3>1, Zenon
    <3>3. Tagged(1, RamWords - 1).size = 1 /\ Zero.size = 0
      BY Zenon DEF Tagged, Zero
    <3>4. Tagged(1, RamWords - 1) # Zero
      BY <3>3
    <3> QED
      BY <3>1, <3>2, <3>4, Zenon DEF Filled
  <2>6. handler = "command" /\ remaining = 1
    <3>1. /\ from \in Nat /\ at \in Nat /\ from < RamWords /\ RamWords \in Nat
          /\ Payload(Stream[from]) \in Nat
          /\ at <= from + 1 + Payload(Stream[from])
          /\ from + 1 + Payload(Stream[from]) <= RamWords
      BY StreamLemma DEF MdecInv, Addrs
    <3>2. at - from - 1 = -1 \/ at - from - 1 = Payload(Stream[from])
      <4>1. CASE at = RamWords
        BY <3>1, <4>1
      <4>2. CASE ~Filled
        BY <3>1, <4>2, SMTT(30) DEF MdecInv
      <4> QED
        BY <2>1, <4>1, <4>2, Zenon
    <3> QED
      BY <3>2, Zenon DEF MdecInv, Receiving
  <2>7. Decoder!TypeOK'
    BY <2>1, Zenon DEF MdecInv, Decoder!TypeOK, mdec, Decoder!Handlers,
       Decoder!Color
  <2>8. at' - from' - 1 = -1 /\ \A i \in 0 .. -1 - 1 : FALSE
    BY <2>1
  <2>9. Receiving(from + 1, Stream[from], Payload(Stream[from]), at - from - 1)'
    BY <2>1, <2>6, <2>8, Zenon DEF Receiving, mdec
  <2>10. 0 \in DOMAIN Stream /\ Payload(Stream[0]) \in Nat
    <3>1. 0 \in DOMAIN Stream /\ Stream[0] \in Decoder!Handlers
      BY StreamAssumption, Zenon DEF Decoder!Handlers
    <3> QED
      BY <3>1, PayloadLemma, DevicesAssumption DEF Decoder!Handlers
  <2>11. 0 <= 0 + 1 + Payload(Stream[0])
    BY <2>10, SMTT(30)
  <2> QED
    BY <2>1, <2>3, <2>5, <2>7, <2>9, <2>10, <2>11 DEF MdecInv, loop
<1>7. CASE StoreWord
  <2>1. /\ pc = "cpu" /\ Filled /\ at < RamWords /\ SendsWord(at)
        /\ UNCHANGED dma
    BY <1>7, Zenon DEF StoreWord, Between
  <2>2. UNCHANGED vars
    BY <2>1, Zenon DEF dma, vars
  <2>3. IInv' /\ pc' = "cpu" /\ ram' = ram
    BY <2>1, <2>2, NextLemma, Zenon DEF vars, loop, memory
  <2>4. /\ Decoder!TypeOK'
        /\ from' \in DOMAIN Stream /\ at' = at + 1 /\ at' \in Nat
        /\ from' <= at' /\ at' <= from' + 1 + Payload(Stream[from'])
        /\ Receiving(from + 1, Stream[from], Payload(Stream[from]),
                     at - from - 1)'
    BY <2>1, SendsLemma, Zenon
  <2>5. Filled' /\ \A a \in Addrs : ram'[a] = Tagged(1, a)
    BY <2>1, <2>3, Zenon DEF Filled, MdecInv
  <2> QED
    BY <2>3, <2>4, <2>5, Zenon DEF MdecInv
<1>8. CASE SendStream
  <2>1. /\ pc = "cpu" /\ Filled /\ at < RamWords
        /\ Channel("MDecIn", at, RamWords - at, Writing)
    BY <1>8, Zenon DEF SendStream, Between
  <2>2. at \in Nat /\ RamWords \in Nat
    BY StreamLemma, Zenon DEF MdecInv
  <2>3. at \in Addrs /\ RamWords - at \in Nat
    BY <2>1, <2>2 DEF Addrs
  <2>4. /\ IInv' /\ UNCHANGED <<ram, mdec, side>>
        /\ \/ pc' = "cpu"
           \/ /\ pc' = "block" /\ port' = "MDecIn" /\ control'["MDecIn"] = Writing
              /\ addr' = at /\ remsz' <= RamWords - at
    BY <2>1, <2>3, ChannelLemma, Zenon
  <2>5. remsz' \in Nat
    BY <2>4, Zenon DEF IInv, TypeOK
  <2> QED
    BY <1>1, <2>1, <2>4, <2>5, Zenon DEF side
<1>9. ASSUME NEW reset \in BOOLEAN, NEW a \in DOMAIN Stream,
             StoreControl(reset, a)
      PROVE  IInv' /\ MdecInv'
  <2>1. /\ pc = "cpu" /\ UNCHANGED dma /\ UNCHANGED Decoder!tables
        /\ IF reset THEN at' = a /\ from' = a ELSE UNCHANGED <<at, from>>
        /\ IF reset THEN handler' = "command" /\ remaining' = 1
                    ELSE UNCHANGED <<handler, remaining>>
    BY <1>9, Zenon DEF StoreControl, Between, Decoder!set_control
  <2>2. UNCHANGED vars
    BY <2>1, Zenon DEF dma, vars
  <2>3. IInv' /\ pc' = "cpu" /\ ram' = ram
    BY <2>1, <2>2, NextLemma, Zenon DEF vars, loop, memory
  <2>4. CASE ~reset
    BY <1>1, <2>1, <2>3, <2>4, Zenon DEF mdec, Decoder!tables
  <2>5. CASE reset
    <3>1. at' = a /\ from' = a /\ handler' = "command" /\ remaining' = 1
      BY <2>1, <2>5, Zenon
    <3>2. Decoder!TypeOK'
      BY <2>1, <3>1, DevicesAssumption, SMTT(30)
      DEF MdecInv, Decoder!TypeOK, Decoder!tables, Decoder!Handlers, Decoder!Color
    <3>3. a \in Nat /\ Payload(Stream[a]) \in Nat
      <4>1. Stream[a] \in Decoder!Handlers /\ a \in Addrs
        BY StreamAssumption, Zenon DEF Decoder!Handlers
      <4> QED
        BY <4>1, PayloadLemma, DevicesAssumption DEF Decoder!Handlers, Addrs
    <3>4. at' - from' - 1 = -1 /\ \A i \in 0 .. -1 - 1 : FALSE
      BY <3>1, <3>3
    <3>5. Receiving(from + 1, Stream[from], Payload(Stream[from]), at - from - 1)'
      BY <3>1, <3>4, Zenon DEF Receiving
    <3>6. a <= a + 1 + Payload(Stream[a])
      BY <3>3
    <3>7. Filled' = Filled
      BY <2>3, Zenon DEF Filled
    <3> QED
      BY <2>3, <3>1, <3>2, <3>3, <3>5, <3>6, <3>7 DEF MdecInv
  <2> QED
    BY <2>4, <2>5, Zenon
<1>10. CASE UNCHANGED allvars
  <2>1. UNCHANGED vars /\ UNCHANGED <<mdec, side>>
    BY <1>10, Zenon DEF allvars, dma, vars
  <2>2. IInv'
    BY <2>1, NextLemma, Zenon
  <2> QED
    BY <1>1, <2>1, <2>2, Zenon DEF side, MdecInv, vars, loop, channels, memory
<1>11. ~(device = "table" /\ Program) /\ ~ReadSector /\ ~SendSamples
  BY Zenon DEF ReadSector, SendSamples, Between
<1>12. /\ \A n \in SectorSizes : ~Arrive(n)
       /\ \A active \in BOOLEAN : ~Ask(active)
       /\ \A s \in SpuStores : ~SpuStore(s[1], s[2])
  BY Zenon DEF Arrive, Ask, SpuStore, Between
<1> QED
  BY <1>2, <1>3, <1>4, <1>5, <1>6, <1>7, <1>8, <1>9, <1>10, <1>11, <1>12,
     Zenon DEF DevicesTransfer, DevicesProgram

----------------------------------------------------------------------------
\* The controller with any device

DInv ==
  /\ IInv /\ device \in DeviceNames
  /\ device = "cdrom" => CdInv
  /\ device = "mdec" => MdecInv
  /\ device = "spu" => SpuInv

\* The device of a behaviour does not change.
LEMMA DeviceLemma ==
  ASSUME [DevicesTransfer \/ DevicesProgram]_allvars
  PROVE  device' = device
BY Zenon DEF DevicesTransfer, DevicesProgram, allvars, Arrive, Ask,
   ReadSector, Channel, FillStream, StoreWord, SendStream, StoreControl,
   SpuStore, SendSamples

\* The invariant holds initially.
LEMMA DevicesInitLemma == DevicesInit => DInv
<1> SUFFICES ASSUME DevicesInit PROVE DInv
  BY Zenon
<1>1. IInv /\ pc = "cpu" /\ ram = [a \in Addrs |-> Zero]
  BY InitLemma, Zenon DEF DevicesInit, Init
<1>2. at = 0 /\ from = 0 /\ parity = 0
  BY Zenon DEF DevicesInit
<1>3. torn \in BOOLEAN /\ ~panic
  BY Zenon DEF DevicesInit, Init
<1>4. CdInv
  <2>1. rx_index = 0 /\ rx_len = 0
    BY Zenon DEF DevicesInit, Rx!Init
  <2>2. ~rx_active /\ rx_active \in BOOLEAN
    BY Zenon DEF DevicesInit, Rx!Init
  <2>3. Rx!TypeOK
    BY <2>1, <2>2, DevicesAssumption DEF DevicesInit, Rx!Init, Rx!TypeOK, Rx!Places
  <2>4. \A i \in 0 .. 0 - 1 : FALSE
    OBVIOUS
  <2>5. 0 \in 0 .. RamWords /\ 0 <= BufferSize
    BY DmaAssumption, DevicesAssumption
  <2> QED
    BY <1>1, <1>2, <1>3, <2>1, <2>2, <2>3, <2>4, <2>5, Zenon DEF CdInv
<1>5. MdecInv
  <2>1. /\ handler = "command" /\ remaining = 1
        /\ quant = [i \in 0 .. 2 * MatrixWords - 1 |-> Zero] /\ idct = quant
    BY Zenon DEF DevicesInit, Decoder!Init, Decoder!Color
  <2>2. Decoder!TypeOK
    BY <2>1, HeadersLemma, DevicesAssumption, SMTT(30)
    DEF Decoder!TypeOK, Decoder!Handlers, Decoder!Color
  <2>3. 0 \in DOMAIN Stream /\ Payload(Stream[0]) \in Nat
    <3>1. 0 \in DOMAIN Stream /\ Stream[0] \in Decoder!Handlers
      BY StreamAssumption, Zenon DEF Decoder!Handlers
    <3> QED
      BY <3>1, PayloadLemma, DevicesAssumption DEF Decoder!Handlers
  <2>4. 0 <= 0 + 1 + Payload(Stream[0])
    BY <2>3
  <2>5. at - from - 1 = -1 /\ \A i \in 0 .. -1 - 1 : FALSE
    BY <1>2
  <2>6. Receiving(from + 1, Stream[from], Payload(Stream[from]), at - from - 1)
    BY <2>1, <2>5, Zenon DEF Receiving
  <2>7. ~Filled
    <3>1. RamWords - 1 \in Addrs
      BY DmaAssumption, SMTT(30) DEF Addrs
    <3> QED
      BY <1>1, <3>1, Zenon DEF Filled
  <2> QED
    BY <1>1, <1>2, <2>2, <2>3, <2>4, <2>6, <2>7 DEF MdecInv
<1>6. SpuInv
  <2>1. /\ shadow = [r \in Sound!Registers |->
                       IF r \in {"voice_on", "voice_off", "voice_status"}
                       THEN {} ELSE 0]
        /\ spu_ram = [i \in 0 .. SpuSize - 1 |-> 0] /\ ram_index = 0
    BY Zenon DEF DevicesInit, Sound!Init
  <2>2. /\ "voice_on" \in Sound!Registers /\ "voice_off" \in Sound!Registers
        /\ "voice_status" \in Sound!Registers
        /\ "transfer_start" \in Sound!Registers
    BY Zenon DEF Sound!Registers
  <2>3. Sound!TypeOK
    BY <2>1, <2>2, DevicesAssumption DEF Sound!TypeOK
  <2>4. \A k \in 0 .. 0 - 1 : FALSE
    OBVIOUS
  <2>5. SpuSize \in Nat \ {0} /\ (0 + 0) % SpuSize = 0
    BY DevicesAssumption
  <2>6. shadow["transfer_start"] = 0
    BY <2>1, <2>2, Zenon
  <2>7. shadow = [r \in Sound!Registers |-> shadow[r]]
    BY <2>1, Zenon
  <2> QED
    BY <1>1, <1>2, <2>1, <2>3, <2>4, <2>5, <2>6, <2>7, SMTT(30) DEF SpuInv
<1> QED
  BY <1>1, <1>4, <1>5, <1>6, Zenon DEF DInv, DevicesInit

\* Every step keeps it.
LEMMA DevicesStep ==
  DInv /\ [DevicesTransfer \/ DevicesProgram]_allvars => DInv'
<1> SUFFICES ASSUME DInv, [DevicesTransfer \/ DevicesProgram]_allvars
             PROVE  DInv'
  BY Zenon
<1>1. device' = device /\ device \in {"table", "cdrom", "mdec", "spu"}
  BY DeviceLemma, DevicesAssumption, Zenon DEF DInv
<1>2. CASE device = "cdrom"
  BY <1>1, <1>2, CdStep, Zenon DEF DInv
<1>3. CASE device = "mdec"
  BY <1>1, <1>3, MdecStep, Zenon DEF DInv
<1>4. CASE device = "spu"
  BY <1>1, <1>4, SpuStep, Zenon DEF DInv
<1>5. CASE device = "table"
  <2>1. [Next]_vars
    <3>1. CASE DevicesTransfer
      BY <3>1, Zenon DEF DevicesTransfer, Next, Transfer
    <3>2. CASE DevicesProgram
      BY <1>5, <3>2, Zenon DEF DevicesProgram, Next, Arrive, Ask, ReadSector,
         FillStream, StoreWord, SendStream, StoreControl, SpuStore, SendSamples,
         Between
    <3>3. CASE UNCHANGED allvars
      BY <3>3, Zenon DEF allvars, dma, vars
    <3> QED
      BY <3>1, <3>2, <3>3, Zenon
  <2> QED
    BY <1>1, <1>5, <2>1, NextLemma, Zenon DEF DInv
<1> QED
  BY <1>1, <1>2, <1>3, <1>4, <1>5, Zenon

(***************************************************************************)
(* A sector reaches the RAM as it was on the disc, however many transfers  *)
(* the program takes for it and whenever it asks for it or gives it up.    *)
(***************************************************************************)
THEOREM SectorsArriveInOrder == DevicesSpec => []SectorInOrder
<1>1. DInv => SectorInOrder
  <2> SUFFICES ASSUME DInv, device = "cdrom" PROVE SectorInOrder
    BY Zenon DEF SectorInOrder
  <2>1. CdInv
    BY Zenon DEF DInv
  <2>2. at > 0 /\ at = rx_len => ~rx_active
    <3>1. rx_len \in Nat
      BY <2>1, SectorSizesLemma, Zenon DEF CdInv, Rx!TypeOK
    <3> QED
      BY <2>1, <3>1, DmaAssumption, SMTT(30) DEF CdInv
  <2> QED
    BY <2>1, <2>2, Zenon DEF CdInv, SectorInOrder
<1> QED BY <1>1, DevicesInitLemma, DevicesStep, PTL DEF DevicesSpec

(***************************************************************************)
(* The matrix words of every stream of commands are where the decoder      *)
(* looks for them, in whatever pieces the stream is sent and wherever a    *)
(* reset cuts it.                                                          *)
(***************************************************************************)
THEOREM MatricesInPlace == DevicesSpec => []UploadInPlace
<1>1. DInv => UploadInPlace
  <2> SUFFICES ASSUME DInv, device = "mdec" PROVE UploadInPlace
    BY Zenon DEF UploadInPlace
  <2>1. MdecInv
    BY Zenon DEF DInv
  <2>2. from \in Nat /\ at \in Nat
    BY <2>1, StreamLemma, Zenon DEF MdecInv
  <2>3. at = from => at - from - 1 = -1
    BY <2>2
  <2>4. at - from - 1 = -1 => at = from
    BY <2>2
  <2> QED
    BY <2>1, <2>3, <2>4, Zenon DEF MdecInv, UploadInPlace, Receiving
<1> QED BY <1>1, DevicesInitLemma, DevicesStep, PTL DEF DevicesSpec

(***************************************************************************)
(* The samples written to the FIFO are in the SPU RAM one after the other, *)
(* for every size of that RAM and every start address.                     *)
(***************************************************************************)
THEOREM SamplesStayInPlace == DevicesSpec => []SamplesInPlace
<1>1. DInv => SamplesInPlace
  BY Zenon DEF DInv, SpuInv, SamplesInPlace, Sound!load
<1> QED BY <1>1, DevicesInitLemma, DevicesStep, PTL DEF DevicesSpec

(***************************************************************************)
(* No channel stays active outside of its own transfer, whichever device   *)
(* the transfer is for.                                                    *)
(***************************************************************************)
THEOREM DevicesLeaveNothingActive == DevicesSpec => []NothingLeftActive
<1>1. DInv => NothingLeftActive
  BY Zenon DEF DInv, IInv
<1> QED BY <1>1, DevicesInitLemma, DevicesStep, PTL DEF DevicesSpec
==============================================================================

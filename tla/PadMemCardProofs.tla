-------------------------- MODULE PadMemCardProofs --------------------------
(***************************************************************************)
(* The pad and memory card port, for every bit period, every duration of   *)
(* the DSR pulse and every interleaving of time and register accesses.     *)
(* For any program a pad never runs past its reply sequence and every      *)
(* rising edge of the interrupt is latched.  A program that waits for each *)
(* byte reads the reply of its pad in order and meets no panic.            *)
(***************************************************************************)
EXTENDS PadMemCard, TLAPS

\* The states of a profile's reply sequence.
Pads == [seq : 0 .. 5, active : BOOLEAN]

\* What PadInsideReply needs to be inductive.
IInv == /\ pads \in [Slots -> Pads]
        /\ target \in Slots
        /\ PadInsideReply

\* The answer of a profile promises more only before the last byte.
LEMMA ReplyLemma ==
  ASSUME NEW s \in Slots, NEW c \in Commands, pads \in [Slots -> Pads],
         HandleCommand(s, c).dsr
  PROVE  pads[s].seq <= 3
<1>1. pads[s].seq \in 0 .. 5
  BY Zenon DEF Pads
<1>2. ~NoReply.dsr
  BY Zenon DEF NoReply
<1>3. s \in connected
  BY <1>2, Zenon DEF HandleCommand
<1>4. Reply(pads[s].seq, c).dsr
  BY <1>3, Zenon DEF HandleCommand
<1>5. CASE pads[s].seq = 4
  BY <1>4, <1>5 DEF Reply
<1>6. CASE pads[s].seq = 5
  BY <1>4, <1>6 DEF Reply
<1> QED BY <1>1, <1>5, <1>6

\* The answer of a profile says with a Boolean whether DSR is asserted.
LEMMA ReplyType ==
  ASSUME NEW s \in Slots, NEW c \in Commands, pads \in [Slots -> Pads]
  PROVE  HandleCommand(s, c).dsr \in BOOLEAN
<1>1. NoReply.dsr \in BOOLEAN
  BY Zenon DEF NoReply
<1>2. pads[s].seq \in 0 .. 5
  BY Zenon DEF Pads
<1>3. Reply(pads[s].seq, c).dsr \in BOOLEAN
  BY <1>2, Zenon DEF Reply
<1> QED BY <1>1, <1>3, Zenon DEF HandleCommand

\* A step of a pad stays inside the reply.
LEMMA AfterLemma ==
  ASSUME NEW pad \in Pads, pad.active => pad.seq <= 4,
         NEW r, r.dsr \in BOOLEAN, pad.active /\ r.dsr => pad.seq <= 3
  PROVE  /\ After(pad, r) \in Pads
         /\ After(pad, r).active => After(pad, r).seq <= 4
<1>1. CASE pad.active
  <2>1. After(pad, r) = [seq |-> pad.seq + 1, active |-> r.dsr]
    BY <1>1, Zenon DEF After
  <2>2. pad.seq + 1 \in 0 .. 5
    BY <1>1 DEF Pads
  <2> QED BY <1>1, <2>1, <2>2 DEF Pads
<1>2. CASE ~pad.active
  BY <1>2, Zenon DEF After
<1> QED BY <1>1, <1>2, Zenon

\* The initial state satisfies the inductive invariant.
LEMMA InitLemma == Init => IInv
  BY DEF Init, IInv, Pads, Slots, PadInsideReply

\* Every step preserves the inductive invariant.
LEMMA NextLemma == IInv /\ [Next]_vars => IInv'
<1> SUFFICES ASSUME IInv, [Next]_vars PROVE IInv'
  BY Zenon
<1>1. CASE UNCHANGED <<pads, target>>
  BY <1>1, Zenon DEF IInv, PadInsideReply
<1>2. ASSUME NEW c \in Commands, SendCommand(c) PROVE IInv'
  <2> DEFINE p == IF select /\ pads[target].active THEN HandleCommand(target, c)
                  ELSE NoReply
  <2>1. target' = target /\ target \in Slots
    BY <1>2, Zenon DEF SendCommand, control, IInv
  <2>2. pads' = IF select THEN [pads EXCEPT ![target] = After(pads[target], p)]
                ELSE pads
    BY <1>2, Zenon DEF SendCommand
  <2>3. CASE ~select
    BY <2>1, <2>2, <2>3, Zenon DEF IInv, PadInsideReply
  <2>4. CASE select
    <3>1. pads[target] \in Pads /\ (pads[target].active => pads[target].seq <= 4)
      BY <2>1, Zenon DEF IInv, PadInsideReply
    <3>2. p.dsr \in BOOLEAN
      <4>1. HandleCommand(target, c).dsr \in BOOLEAN
        BY <2>1, ReplyType, Zenon DEF IInv
      <4>2. NoReply.dsr \in BOOLEAN
        BY Zenon DEF NoReply
      <4> QED BY <4>1, <4>2, Zenon
    <3>3. pads[target].active /\ p.dsr => pads[target].seq <= 3
      <4> SUFFICES ASSUME pads[target].active, p.dsr
                   PROVE  pads[target].seq <= 3
        BY Zenon
      <4>1. HandleCommand(target, c).dsr
        BY <2>4, Zenon
      <4> QED BY <4>1, <2>1, ReplyLemma, Zenon DEF IInv
    <3> HIDE DEF p
    <3> DEFINE q == After(pads[target], p)
    <3>4. q \in Pads /\ (q.active => q.seq <= 4)
      BY <3>1, <3>2, <3>3, AfterLemma
    <3>5. pads' = [pads EXCEPT ![target] = q]
      BY <2>2, <2>4, Zenon
    <3> HIDE DEF q
    <3>6. pads' \in [Slots -> Pads]
      BY <3>4, <3>5, Zenon DEF IInv
    <3>7. \A s \in Slots : pads'[s].active => pads'[s].seq <= 4
      BY <3>4, <3>5, <2>1, Zenon DEF IInv, PadInsideReply
    <3> QED BY <2>1, <3>6, <3>7, Zenon DEF IInv, PadInsideReply
  <2> QED BY <2>3, <2>4, Zenon
<1>3. ASSUME NEW ack \in BOOLEAN, NEW tx \in BOOLEAN, NEW sel \in BOOLEAN,
             NEW it \in BOOLEAN, NEW t \in Targets,
             SetControl(ack, tx, sel, it, t)
      PROVE  IInv'
  <2> DEFINE ready == [seq |-> 0, active |-> TRUE]
  <2>1. target' \in Slots
    BY <1>3, PadAssumption, Zenon DEF SetControl
  <2>2. pads' = pads \/ pads' = [pads EXCEPT ![1] = ready]
    BY <1>3, Zenon DEF SetControl
  <2>3. ready \in Pads /\ ready.seq <= 4
    BY DEF Pads
  <2> HIDE DEF ready
  <2> QED BY <2>1, <2>2, <2>3, Zenon DEF IInv, PadInsideReply, Slots
<1>4. CASE SoftReset
  BY <1>4, Zenon DEF SoftReset, slots, IInv, PadInsideReply, Slots
<1> QED
  BY <1>1, <1>2, <1>3, <1>4, Zenon DEF Next, vars, slots, control, SyncPanics,
     Tick, CpuSync, Poll, Sync, ReadRx, SendDisabled, AckStatus, SetProfile,
     SetBaud, SetControlPanics

(***************************************************************************)
(* The arm of DigitalProfile::handle_command marked "Shouldn't be reached" *)
(* is not reached, and the position in the reply never overflows: a pad    *)
(* that still answers is inside its reply sequence, for any program and    *)
(* any plugging and unplugging.                                            *)
(***************************************************************************)
THEOREM PadStaysInsideReply == Spec => []PadInsideReply
<1>1. IInv => PadInsideReply
  BY Zenon DEF IInv
<1> QED BY <1>1, InitLemma, NextLemma, PTL DEF Spec

-----------------------------------------------------------------------------
\* The states of the port: what the registers and the transfer in progress hold.
Ports == [bus : BusStates, response : Bytes, rx_not_empty : BOOLEAN,
          dsr : BOOLEAN, interrupt : BOOLEAN, istat : BOOLEAN, due : Int]

\* A port after a synchronisation.
LEMMA PortLemma ==
  ASSUME NEW p \in Ports, NEW bus \in BusStates, NEW due \in Int
  PROVE  /\ [p EXCEPT !.bus = bus, !.due = due] \in Ports
         /\ \A dsr \in BOOLEAN : [p EXCEPT !.bus = bus, !.dsr = dsr, !.due = due] \in Ports
         /\ \A r \in Bytes, rx, dsr, irq, is \in BOOLEAN :
              [p EXCEPT !.response = r, !.rx_not_empty = rx, !.dsr = dsr, !.istat = is,
                        !.interrupt = irq, !.bus = bus, !.due = due] \in Ports
  BY Zenon DEF Ports

\* The synchronisation of a port on which nothing happens.
LEMMA SyncedIdle ==
  ASSUME port \in Ports, port.bus.state = "Idle"
  PROVE  /\ Synced \in Ports
         /\ Synced.bus = port.bus /\ Synced.response = port.response
         /\ Synced.rx_not_empty = port.rx_not_empty /\ Synced.dsr = port.dsr
         /\ Synced.interrupt = port.interrupt /\ Synced.istat = port.istat
<1>1. Synced = [port EXCEPT !.due = Never]
  BY Zenon DEF Synced
<1> QED BY <1>1, PadAssumption DEF Ports

\* The synchronisation during a transfer.
LEMMA SyncedTransfer ==
  ASSUME port \in Ports, port.bus.state = "Transfer", since \in Nat,
         since < port.bus.delay, dsr_it \in BOOLEAN
  PROVE  /\ Synced \in Ports
         /\ Synced.bus = [port.bus EXCEPT !.delay = port.bus.delay - since]
         /\ Synced.response = port.response
         /\ Synced.rx_not_empty = port.rx_not_empty /\ Synced.dsr = port.dsr
         /\ Synced.interrupt = port.interrupt /\ Synced.istat = port.istat
         /\ dsr_it => Synced.due = port.bus.delay - since
<1>0. port.bus \in BusStates /\ port.bus.delay \in Nat
  BY Zenon DEF Ports, BusStates
<1> DEFINE n == port.bus.delay - since
           due == IF dsr_it THEN n ELSE Never
<1>1. n \in Nat /\ due \in Int
  BY <1>0, PadAssumption
<1>2. Synced = [port EXCEPT !.bus = [port.bus EXCEPT !.delay = n], !.due = due]
  BY Zenon DEF Synced, SyncTransfer, Ports
<1>3. [port.bus EXCEPT !.delay = n] \in BusStates
  BY <1>0, <1>1, Zenon DEF BusStates
<1> HIDE DEF n, due
<1>4. Synced \in Ports /\ Synced.due = due
      /\ Synced.bus = [port.bus EXCEPT !.delay = n]
  BY <1>1, <1>2, <1>3, Zenon DEF Ports
<1>5. /\ Synced.response = port.response
      /\ Synced.rx_not_empty = port.rx_not_empty /\ Synced.dsr = port.dsr
      /\ Synced.interrupt = port.interrupt /\ Synced.istat = port.istat
  BY <1>2, Zenon DEF Ports
<1> QED BY <1>4, <1>5, Zenon DEF n, due

\* The synchronisation that receives a byte.
LEMMA SyncedReceived ==
  ASSUME port \in Ports, port.bus.state = "Transfer", since \in Nat,
         ~(since < port.bus.delay), dsr_it \in BOOLEAN
  PROVE  /\ Synced \in Ports
         /\ Synced.bus = IF port.bus.dsr THEN Dsr(DsrDuration) ELSE Idle
         /\ Synced.response = port.bus.response
         /\ Synced.rx_not_empty /\ Synced.dsr = port.bus.dsr
         /\ Synced.istat = (port.istat \/ (port.bus.dsr /\ dsr_it /\ ~port.interrupt))
         /\ Synced.interrupt = (port.interrupt \/ (port.bus.dsr /\ dsr_it))
<1>0. port.bus.response \in Bytes /\ port.bus.dsr \in BOOLEAN
  BY Zenon DEF Ports, BusStates
<1>1. Synced = EndTransfer(port)
  BY Zenon DEF Synced
<1>2. Dsr(DsrDuration) \in BusStates /\ Idle \in BusStates
  BY PadAssumption, Zenon DEF Dsr, Idle, BusStates, Bytes
<1> DEFINE bus == IF port.bus.dsr THEN Dsr(DsrDuration) ELSE Idle
           istat == port.istat \/ (port.bus.dsr /\ dsr_it /\ ~port.interrupt)
           irq == port.interrupt \/ (port.bus.dsr /\ dsr_it)
<1>3. bus \in BusStates /\ istat \in BOOLEAN /\ irq \in BOOLEAN
  BY <1>0, <1>2, Zenon DEF Ports
<1>4. Synced = [port EXCEPT !.response = port.bus.response, !.rx_not_empty = TRUE,
                  !.dsr = port.bus.dsr, !.istat = istat, !.interrupt = irq,
                  !.bus = bus, !.due = Never]
  BY <1>1, Zenon DEF EndTransfer
<1> HIDE DEF bus, istat, irq
<1>7. Never \in Int /\ TRUE \in BOOLEAN
  BY PadAssumption
<1>8. \A r \in Bytes, rx, dsr, ir, is \in BOOLEAN :
        [port EXCEPT !.response = r, !.rx_not_empty = rx, !.dsr = dsr, !.istat = is,
                     !.interrupt = ir, !.bus = bus, !.due = Never] \in Ports
  BY <1>3, <1>7, PortLemma, Zenon
<1>5. Synced \in Ports
  <2>1. \A rx, dsr, ir, is \in BOOLEAN :
        [port EXCEPT !.response = port.bus.response, !.rx_not_empty = rx,
                     !.dsr = dsr, !.istat = is,
                     !.interrupt = ir, !.bus = bus, !.due = Never] \in Ports
    BY <1>0, <1>8, Zenon
  <2>2. \A rx \in BOOLEAN :
        [port EXCEPT !.response = port.bus.response, !.rx_not_empty = rx,
                     !.dsr = port.bus.dsr, !.istat = istat,
                     !.interrupt = irq, !.bus = bus, !.due = Never] \in Ports
    BY <1>0, <1>3, <2>1, Zenon
  <2> QED BY <1>4, <1>7, <2>2, Zenon
<1>6. /\ Synced.bus = bus /\ Synced.response = port.bus.response
      /\ Synced.rx_not_empty = TRUE /\ Synced.dsr = port.bus.dsr
      /\ Synced.istat = istat /\ Synced.interrupt = irq
  BY <1>4, Zenon DEF Ports
<1> QED BY <1>5, <1>6, Zenon DEF bus, istat, irq

\* The synchronisation during the DSR pulse, and the one that ends it.
LEMMA SyncedDsr ==
  ASSUME port \in Ports, port.bus.state = "Dsr", since \in Nat
  PROVE  /\ Synced \in Ports /\ Synced.response = port.response
         /\ Synced.rx_not_empty = port.rx_not_empty
         /\ Synced.interrupt = port.interrupt /\ Synced.istat = port.istat
         /\ \/ Synced.bus.state = "Dsr" /\ Synced.dsr = port.dsr
            \/ Synced.bus = Idle /\ ~Synced.dsr
<1>0. port.bus \in BusStates /\ port.bus.delay \in Nat
  BY Zenon DEF Ports, BusStates
<1>1. Synced = SyncDsr(port)
  BY Zenon DEF Synced
<1>4. Never \in Int
  BY PadAssumption
<1>2. CASE since < port.bus.delay
  <2> DEFINE bus == [port.bus EXCEPT !.delay = port.bus.delay - since]
  <2>1. Synced = [port EXCEPT !.bus = bus, !.due = Never]
    BY <1>1, <1>2, Zenon DEF SyncDsr, Ports
  <2>2. bus \in BusStates /\ bus.state = "Dsr"
    BY <1>0, <1>2 DEF BusStates
  <2> HIDE DEF bus
  <2>3. Synced \in Ports
    BY <1>4, <2>1, <2>2, PortLemma, Zenon
  <2>4. /\ Synced.bus = bus /\ Synced.response = port.response /\ Synced.dsr = port.dsr
        /\ Synced.rx_not_empty = port.rx_not_empty
        /\ Synced.interrupt = port.interrupt /\ Synced.istat = port.istat
    BY <2>1, Zenon DEF Ports
  <2> QED BY <2>2, <2>3, <2>4, Zenon
<1>3. CASE ~(since < port.bus.delay)
  <2>1. Synced = [port EXCEPT !.bus = Idle, !.dsr = FALSE, !.due = Never]
    BY <1>1, <1>3, Zenon DEF SyncDsr
  <2>2. Idle \in BusStates
    BY Zenon DEF Idle, BusStates, Bytes
  <2>3. Synced \in Ports
    BY <1>4, <2>1, <2>2, PortLemma, Zenon
  <2>4. /\ Synced.bus = Idle /\ Synced.response = port.response /\ Synced.dsr = FALSE
        /\ Synced.rx_not_empty = port.rx_not_empty
        /\ Synced.interrupt = port.interrupt /\ Synced.istat = port.istat
    BY <2>1, Zenon DEF Ports
  <2> QED BY <2>3, <2>4, Zenon
<1> QED BY <1>2, <1>3, Zenon

\* While DSR is active and its interrupt enabled, the interrupt is active: the
\* reason why an acknowledgement during the pulse raises no edge of its own.
DsrNoticed == port.dsr /\ dsr_it => port.interrupt

\* In all cases the port keeps its type, and the interrupt controller is told.
LEMMA SyncedLemma ==
  ASSUME TypeOK
  PROVE  /\ port \in Ports /\ Synced \in Ports
         /\ port.interrupt => Synced.interrupt
         /\ port.istat => Synced.istat
         /\ Synced.interrupt /\ ~port.interrupt => Synced.istat
         /\ Synced.istat /\ ~port.istat => Synced.interrupt
         /\ DsrNoticed => (Synced.dsr /\ dsr_it => Synced.interrupt)
<1>1. /\ port \in Ports /\ since \in Nat /\ dsr_it \in BOOLEAN
      /\ port.bus.state \in {"Idle", "Transfer", "Dsr"}
      /\ port.dsr \in BOOLEAN /\ port.interrupt \in BOOLEAN /\ port.istat \in BOOLEAN
  BY PadAssumption DEF TypeOK, Ports, BusStates
<1>2. CASE port.bus.state = "Idle"
  BY <1>1, <1>2, SyncedIdle, Zenon DEF DsrNoticed
<1>3. CASE port.bus.state = "Transfer" /\ since < port.bus.delay
  BY <1>1, <1>3, SyncedTransfer, Zenon DEF DsrNoticed
<1>4. CASE port.bus.state = "Transfer" /\ ~(since < port.bus.delay)
  BY <1>1, <1>4, SyncedReceived, Zenon DEF DsrNoticed
<1>5. CASE port.bus.state = "Dsr"
  BY <1>1, <1>5, SyncedDsr, Zenon DEF DsrNoticed
<1> QED BY <1>1, <1>2, <1>3, <1>4, <1>5, Zenon

\* A port after the rest of a step.
LEMMA PortUpdates ==
  ASSUME NEW p \in Ports, NEW b \in BOOLEAN, NEW due \in Int
  PROVE  /\ [p EXCEPT !.due = due] \in Ports
         /\ [p EXCEPT !.istat = b] \in Ports
         /\ [p EXCEPT !.rx_not_empty = FALSE, !.response = "none"] \in Ports
         /\ [p EXCEPT !.interrupt = FALSE, !.rx_not_empty = FALSE, !.bus = Idle,
                      !.dsr = FALSE] \in Ports
         /\ \A c \in BOOLEAN : [p EXCEPT !.interrupt = b, !.istat = c] \in Ports
<1>1. Idle \in BusStates
  BY Zenon DEF Idle, BusStates, Bytes
<1> QED BY <1>1, Zenon DEF Ports, Bytes

\* What a pad answers is a byte and a level of DSR.
LEMMA ReplyBytes ==
  ASSUME NEW s \in Slots, NEW c \in Commands, pads \in [Slots -> Pads]
  PROVE  HandleCommand(s, c) \in [byte : Bytes, dsr : BOOLEAN]
<1>1. NoReply \in [byte : Bytes, dsr : BOOLEAN]
  BY Zenon DEF NoReply, Bytes
<1>2. pads[s].seq \in 0 .. 5
  BY Zenon DEF Pads
<1>3. Reply(pads[s].seq, c) \in [byte : Bytes, dsr : BOOLEAN]
  BY <1>2, Zenon DEF Reply, Bytes
<1> QED BY <1>1, <1>3, Zenon DEF HandleCommand

\* The transfer a command starts.
LEMMA SendLemma ==
  ASSUME TypeOK, NEW c \in Commands, SendCommand(c)
  PROVE  \E r \in [byte : Bytes, dsr : BOOLEAN] :
           LET n == Bits * baud_div IN
           /\ n \in Nat /\ n < Never
           /\ r = IF select /\ pads[target].active THEN HandleCommand(target, c)
                  ELSE NoReply
           /\ Transfer(r.byte, r.dsr, n) \in BusStates
           /\ port' = [Synced EXCEPT !.bus = Transfer(r.byte, r.dsr, n), !.due = n]
           /\ port' \in Ports
<1> DEFINE n == Bits * baud_div
           r == IF select /\ pads[target].active THEN HandleCommand(target, c)
                ELSE NoReply
<1>1. n \in Nat /\ n < Never
  BY PadAssumption DEF TypeOK
<1>2. r \in [byte : Bytes, dsr : BOOLEAN]
  BY ReplyBytes, Zenon DEF TypeOK, NoReply, Bytes, Pads
<1>3. port' = [Synced EXCEPT !.bus = Transfer(r.byte, r.dsr, n), !.due = n]
  BY Zenon DEF SendCommand
<1> HIDE DEF n
<1>4. Transfer(r.byte, r.dsr, n) \in BusStates
  <2> HIDE DEF r
  <2> QED BY <1>1, <1>2, Zenon DEF Transfer, BusStates
<1>5. port' \in Ports
  <2> HIDE DEF r
  <2>1. Synced \in Ports /\ n \in Int
    BY <1>1, SyncedLemma
  <2> QED BY <1>3, <1>4, <2>1, PortLemma, Zenon
<1> QED BY <1>1, <1>2, <1>3, <1>4, <1>5, Zenon DEF n

\* Every step keeps the types.
LEMMA TypeLemma ==
  ASSUME IInv, TypeOK, [Next]_vars
  PROVE  TypeOK'
<1>0. /\ pads' \in [Slots -> Pads] /\ target' \in Slots
      /\ port \in Ports /\ Synced \in Ports /\ Never \in Nat
      /\ 0 \in 0 .. MaxSince
  BY NextLemma, SyncedLemma, PadAssumption DEF IInv
<1> DEFINE kept == /\ connected' \subseteq Slots /\ baud_div' \in Bauds
                   /\ tx_en' \in BOOLEAN /\ select' \in BOOLEAN /\ dsr_it' \in BOOLEAN
                   /\ since' \in 0 .. MaxSince /\ got' \in Seq(Bytes)
                   /\ polite' \in BOOLEAN /\ panic' \in BOOLEAN
<1>1. port' \in Ports /\ kept => TypeOK'
  BY <1>0, Zenon DEF TypeOK, Ports, Pads
<1> USE DEF TypeOK, slots, control
<1>2. CASE UNCHANGED vars \/ SyncPanics
  BY <1>0, <1>1, <1>2, Zenon DEF vars, SyncPanics
<1>3. CASE Tick
  <2>1. kept
    BY <1>3, PadAssumption DEF Tick
  <2>2. port.due \in Int
    BY <1>0, Zenon DEF Ports
  <2> DEFINE d == IF port.due = Never THEN Never ELSE port.due - 1
  <2>4. d \in Int /\ port' = [port EXCEPT !.due = d]
    BY <1>0, <1>3, <2>2 DEF Tick
  <2> HIDE DEF d
  <2>3. port' \in Ports
    BY <1>0, <2>4, PortUpdates, Zenon
  <2> QED BY <1>1, <2>1, <2>3, Zenon
<1>4. CASE CpuSync \/ Poll
  BY <1>0, <1>1, <1>4, Zenon DEF CpuSync, Poll, Sync, Access
<1>5. CASE ReadRx
  <2>1. got' \in Seq(Bytes)
    BY <1>0, <1>5 DEF ReadRx, Ports
  <2>2. port' \in Ports
    BY <1>0, <1>5, PortUpdates, Zenon DEF ReadRx
  <2> QED BY <1>0, <1>1, <1>5, <2>1, <2>2, Zenon DEF ReadRx, Access
<1>6. CASE SendDisabled
  BY <1>0, <1>1, <1>6, Zenon DEF SendDisabled
<1>7. CASE SoftReset
  <2>1. port' \in Ports
    BY <1>0, <1>7, PortUpdates, Zenon DEF SoftReset
  <2> QED BY <1>0, <1>1, <1>7, <2>1, PadAssumption, Zenon DEF SoftReset,
             Access
<1>8. CASE AckStatus
  <2>1. port' \in Ports
    BY <1>0, <1>8, PortUpdates, Zenon DEF AckStatus
  <2> QED BY <1>0, <1>1, <1>8, <2>1, Zenon DEF AckStatus
<1>9. ASSUME NEW s \in Slots, SetProfile(s) PROVE TypeOK'
  BY <1>0, <1>1, <1>9, Zenon DEF SetProfile
<1>10. ASSUME NEW c \in Commands, SendCommand(c) PROVE TypeOK'
  <2>1. port' \in Ports
    BY <1>10, SendLemma, Zenon
  <2> QED BY <1>0, <1>1, <1>10, <2>1, Zenon DEF SendCommand, Access
<1>11. ASSUME NEW b \in Bauds, SetBaud(b) PROVE TypeOK'
  BY <1>0, <1>1, <1>11, Zenon DEF SetBaud, Access
<1>12. ASSUME NEW ack \in BOOLEAN, NEW tx \in BOOLEAN, NEW sel \in BOOLEAN,
              NEW it \in BOOLEAN, NEW t \in Targets, SetControl(ack, tx, sel, it, t)
       PROVE  TypeOK'
  <2> DEFINE again == ack /\ Synced.dsr /\ dsr_it
             irq == again \/ (~ack /\ Synced.interrupt)
             is == Synced.istat \/ again
  <2>1. irq \in BOOLEAN /\ is \in BOOLEAN
    BY <1>0, Zenon DEF Ports
  <2>2. port' = [Synced EXCEPT !.interrupt = irq, !.istat = is]
    BY <1>0, <1>12, Zenon DEF SetControl
  <2> HIDE DEF irq, is
  <2>3. port' \in Ports
    BY <1>0, <2>1, <2>2, PortUpdates, Zenon
  <2>4. got' \in Seq(Bytes)
    BY <1>12 DEF SetControl
  <2> QED BY <1>0, <1>1, <1>12, <2>3, <2>4, Zenon DEF SetControl, Access
<1>13. ASSUME NEW ack \in BOOLEAN, SetControlPanics(ack) PROVE TypeOK'
  BY <1>0, <1>1, <1>13, Zenon DEF SetControlPanics
<1> HIDE DEF TypeOK, slots, control
<1> QED
  BY <1>2, <1>3, <1>4, <1>5, <1>6, <1>7, <1>8, <1>9, <1>10, <1>11, <1>12,
     <1>13, Zenon DEF Next

\* The edges of the interrupt are told to the interrupt controller by the
\* synchronisation, or by an acknowledgement while DSR is active.
Latched == /\ ~port.interrupt /\ port'.interrupt => port'.istat
           /\ ~port.istat /\ port'.istat => Synced.interrupt

\* Every step satisfies it, and keeps DSR noticed.
LEMMA EdgeLemma ==
  ASSUME TypeOK, DsrNoticed, Next
  PROVE  Latched /\ DsrNoticed'
<1>0. /\ port \in Ports /\ Synced \in Ports
      /\ port.interrupt => Synced.interrupt
      /\ port.istat => Synced.istat
      /\ Synced.interrupt /\ ~port.interrupt => Synced.istat
      /\ Synced.istat /\ ~port.istat => Synced.interrupt
      /\ Synced.dsr /\ dsr_it => Synced.interrupt
  BY SyncedLemma, Zenon
<1>1. CASE /\ port'.interrupt = port.interrupt /\ port'.istat = port.istat
           /\ port'.dsr = port.dsr /\ dsr_it' = dsr_it
  BY <1>1, Zenon DEF Latched, DsrNoticed
<1>2. CASE /\ port'.interrupt = Synced.interrupt /\ port'.istat = Synced.istat
           /\ port'.dsr = Synced.dsr /\ dsr_it' = dsr_it
  BY <1>0, <1>2, Zenon DEF Latched, DsrNoticed
<1>3. CASE SyncPanics \/ Tick \/ \E s \in Slots : SetProfile(s)
  BY <1>0, <1>1, <1>3, Zenon DEF SyncPanics, Tick, SetProfile, control, Ports
<1>4. CASE AckStatus
  BY <1>0, <1>4, Zenon DEF AckStatus, Latched, DsrNoticed, control, Ports
<1>5. CASE SoftReset
  <2>1. /\ ~port'.interrupt /\ ~port'.dsr /\ port'.istat = Synced.istat
    BY <1>0, <1>5, Zenon DEF SoftReset, Ports
  <2> QED BY <1>0, <2>1, Zenon DEF Latched, DsrNoticed
<1>6. CASE CpuSync \/ Poll \/ SendDisabled \/ \E b \in Bauds : SetBaud(b)
  BY <1>2, <1>6, Zenon DEF CpuSync, Poll, Sync, SendDisabled, SetBaud, control
<1>7. CASE \E ack \in BOOLEAN : SetControlPanics(ack)
  BY <1>2, <1>7, Zenon DEF SetControlPanics, control
<1>8. CASE ReadRx
  BY <1>0, <1>2, <1>8, Zenon DEF ReadRx, control, Ports
<1>9. ASSUME NEW c \in Commands, SendCommand(c) PROVE Latched /\ DsrNoticed'
  <2>1. PICK bus, n : port' = [Synced EXCEPT !.bus = bus, !.due = n]
    BY <1>9, SendLemma, Zenon
  <2> QED BY <1>0, <1>2, <1>9, <2>1, Zenon DEF SendCommand, control, Ports
<1>10. ASSUME NEW ack \in BOOLEAN, NEW tx \in BOOLEAN, NEW sel \in BOOLEAN,
              NEW it \in BOOLEAN, NEW t \in Targets, SetControl(ack, tx, sel, it, t)
       PROVE  Latched /\ DsrNoticed'
  <2> DEFINE again == ack /\ Synced.dsr /\ dsr_it
             irq == again \/ (~ack /\ Synced.interrupt)
             is == Synced.istat \/ again
  <2>1. port' = [Synced EXCEPT !.interrupt = irq, !.istat = is]
    BY <1>0, <1>10, Zenon DEF SetControl
  <2>2. dsr_it' = it /\ ~(it /\ ~irq /\ Synced.dsr)
    BY <1>10, Zenon DEF SetControl
  <2>3. /\ port'.interrupt = irq /\ port'.istat = is /\ port'.dsr = Synced.dsr
    <3> HIDE DEF irq, is
    <3> QED BY <1>0, <2>1, Zenon DEF Ports
  <2> QED BY <1>0, <2>2, <2>3, Zenon DEF Latched, DsrNoticed
<1> QED
  BY <1>3, <1>4, <1>5, <1>6, <1>7, <1>8, <1>9, <1>10, Zenon DEF Next

\* The initial state has its types, and DSR is not active in it.
LEMMA TypeInit == Init => TypeOK /\ DsrNoticed
<1> SUFFICES ASSUME Init PROVE TypeOK /\ DsrNoticed
  BY Zenon
<1>1. Idle \in BusStates
  BY Zenon DEF Idle, BusStates, Bytes
<1>2. port \in Ports /\ ~port.dsr
  BY <1>1 DEF Init, Ports, Bytes
<1>3. pads \in [Slots -> [seq : 0 .. 5, active : BOOLEAN]]
  BY DEF Init
<1>4. connected \subseteq Slots /\ 0 \in 0 .. MaxSince /\ 1 \in Slots /\ 0 \in Bauds
  BY PadAssumption DEF Init, Slots
<1>5. got \in Seq(Bytes) /\ since = 0 /\ target = 1 /\ baud_div = 0
  BY DEF Init
<1>6. /\ polite \in BOOLEAN /\ panic \in BOOLEAN
      /\ tx_en \in BOOLEAN /\ select \in BOOLEAN /\ dsr_it \in BOOLEAN
  BY Zenon DEF Init
<1> QED BY <1>2, <1>3, <1>4, <1>5, <1>6, Zenon DEF TypeOK, DsrNoticed, Ports

(***************************************************************************)
(* For any program the port's registers, the transfer in progress and the  *)
(* pads keep their types.                                                  *)
(***************************************************************************)
THEOREM Typed == Spec => []TypeOK
<1>1. IInv /\ TypeOK /\ [Next]_vars => TypeOK'
  BY TypeLemma, Zenon
<1> QED BY <1>1, TypeInit, InitLemma, NextLemma, PTL DEF Spec

(***************************************************************************)
(* PadMemCard::sync and set_control: the interrupt controller is told of   *)
(* every rising edge of the port's interrupt, and never of one that the    *)
(* synchronisation did not raise, for any program.                         *)
(***************************************************************************)
THEOREM EveryEdgeIsLatched == Spec => LatchesInterrupt
<1>1. TypeOK /\ DsrNoticed /\ [Next]_vars => DsrNoticed'
  BY EdgeLemma, Zenon DEF vars, control, DsrNoticed
<1>2. TypeOK /\ DsrNoticed /\ [Next]_vars => [Latched]_vars
  BY EdgeLemma, Zenon
<1> QED BY <1>1, <1>2, TypeInit, Typed, PTL DEF Spec, LatchesInterrupt, Latched

-----------------------------------------------------------------------------
\* A byte was sent and its answer was not read yet.
InFlight(p) == p.bus.state = "Transfer" \/ p.rx_not_empty

\* How many bytes a polite program sent since it selected the pad.
Sent(p) == Len(got) + (IF InFlight(p) THEN 1 ELSE 0)

\* The answer to the i-th byte.
Expected(i) == IF target \in connected /\ i \in 1 .. 6 THEN WholeReply[i] ELSE "none"

\* The pad when n bytes were sent to it.
PadAfter(n) == IF n < 5 THEN [seq |-> n, active |-> TRUE]
               ELSE [seq |-> 5, active |-> FALSE]

(***************************************************************************)
(* The inductive invariant of a polite program, of the port p when s       *)
(* cycles passed since its last synchronisation: the pad is where the      *)
(* bytes sent to it lead, the answer in flight or in the register is the   *)
(* next one of the reply, DSR is active only during its pulse, no transfer *)
(* runs over an unread byte, and a synchronisation is scheduled in time    *)
(* for a DSR pulse that must interrupt.                                    *)
(***************************************************************************)
Courteous(p, s) ==
  /\ ~panic /\ target = 1
  /\ RepliesInOrder /\ Len(got) <= 6
  /\ InFlight(p) => select
  /\ p.bus.state = "Transfer" =>
       /\ ~p.rx_not_empty
       /\ p.bus.response = Expected(Len(got) + 1)
       /\ p.bus.delay < Never
       /\ p.bus.dsr /\ dsr_it => p.due <= p.bus.delay - s
  /\ p.rx_not_empty => p.response = Expected(Len(got) + 1)
  /\ p.bus.state # "Dsr" => ~p.dsr
  /\ p.bus.state = "Idle" => p.bus = Idle
  /\ select /\ target \in connected => pads[target] = PadAfter(Sent(p))

\* PadMemCard::sync keeps to the protocol.
LEMMA CourteousSync ==
  ASSUME TypeOK, Courteous(port, since)
  PROVE  Courteous(Synced, 0) /\ ~Overrun
<1>1. /\ port \in Ports /\ since \in Nat /\ dsr_it \in BOOLEAN
      /\ port.bus.state \in {"Idle", "Transfer", "Dsr"}
      /\ port.bus.delay \in Nat
      /\ port.dsr \in BOOLEAN /\ Len(got) \in Nat
  BY PadAssumption DEF TypeOK, Ports, BusStates
<1>2. ~Overrun
  BY Zenon DEF Courteous, Overrun
<1>3. CASE port.bus.state = "Idle"
  <2>1. /\ Synced.bus = port.bus /\ Synced.response = port.response
        /\ Synced.rx_not_empty = port.rx_not_empty /\ Synced.dsr = port.dsr
    BY <1>1, <1>3, SyncedIdle, Zenon
  <2> QED BY <1>2, <1>3, <2>1, Zenon DEF Courteous, InFlight, Sent
<1>4. CASE port.bus.state = "Transfer" /\ since < port.bus.delay
  <2> DEFINE n == port.bus.delay - since
  <2>1. /\ Synced.bus = [port.bus EXCEPT !.delay = n]
        /\ Synced.response = port.response
        /\ Synced.rx_not_empty = port.rx_not_empty /\ Synced.dsr = port.dsr
        /\ dsr_it => Synced.due = n
    BY <1>1, <1>4, SyncedTransfer, Zenon
  <2>2. n \in Nat /\ n < Never /\ Never \in Nat
    BY <1>1, <1>4, PadAssumption DEF Courteous
  <2> HIDE DEF n
  <2>3. /\ Synced.bus.state = "Transfer" /\ Synced.bus.response = port.bus.response
        /\ Synced.bus.dsr = port.bus.dsr /\ Synced.bus.delay = n
    BY <1>1, <1>4, <2>1, Zenon DEF Ports, BusStates
  <2>4. dsr_it => Synced.due <= Synced.bus.delay - 0
    BY <2>1, <2>2, <2>3
  <2> QED BY <1>2, <1>4, <2>1, <2>2, <2>3, <2>4, Zenon DEF Courteous,
             InFlight, Sent
<1>5. CASE port.bus.state = "Transfer" /\ ~(since < port.bus.delay)
  <2>1. /\ Synced.bus = IF port.bus.dsr THEN Dsr(DsrDuration) ELSE Idle
        /\ Synced.response = port.bus.response
        /\ Synced.rx_not_empty /\ Synced.dsr = port.bus.dsr
    BY <1>1, <1>5, SyncedReceived, Zenon
  <2>2. /\ Synced.bus.state # "Transfer"
        /\ Synced.bus.state = "Idle" => Synced.bus = Idle /\ ~Synced.dsr
        /\ Synced.bus.state # "Dsr" => ~Synced.dsr
    BY <2>1 DEF Dsr, Idle
  <2>3. InFlight(port) /\ InFlight(Synced) /\ Sent(Synced) = Sent(port)
    BY <1>5, <2>1, Zenon DEF InFlight, Sent
  <2> QED BY <1>2, <1>5, <2>1, <2>2, <2>3, Zenon DEF Courteous
<1>6. CASE port.bus.state = "Dsr"
  <2>1. /\ Synced.response = port.response
        /\ Synced.rx_not_empty = port.rx_not_empty
        /\ \/ Synced.bus.state = "Dsr" /\ Synced.dsr = port.dsr
           \/ Synced.bus = Idle /\ ~Synced.dsr
    BY <1>1, <1>6, SyncedDsr, Zenon
  <2>2. /\ Synced.bus.state # "Transfer"
        /\ Synced.bus.state = "Idle" => Synced.bus = Idle /\ ~Synced.dsr
        /\ Synced.bus.state # "Dsr" => ~Synced.dsr
    BY <2>1 DEF Idle
  <2>3. InFlight(port) = InFlight(Synced) /\ Sent(Synced) = Sent(port)
    BY <1>6, <2>1, <2>2, Zenon DEF InFlight, Sent
  <2> QED BY <1>2, <1>6, <2>1, <2>2, <2>3, Zenon DEF Courteous
<1> QED BY <1>1, <1>3, <1>4, <1>5, <1>6, Zenon

\* A step that leaves the pads, the control register and the bytes alone.
LEMMA CourteousSame ==
  ASSUME NEW p, NEW s, Courteous(p, s), since' = s,
         port'.bus = p.bus, port'.response = p.response, port'.dsr = p.dsr,
         port'.rx_not_empty = p.rx_not_empty, port'.due = p.due,
         UNCHANGED <<pads, connected, select, target, dsr_it, got, panic>>
  PROVE  Courteous(port, since)'
  BY Zenon DEF Courteous, RepliesInOrder, Expected, Sent, InFlight

\* The bytes of the reply: what the pad answers to the next byte of the
\* protocol is the next one expected.
LEMMA ReplyInOrder ==
  ASSUME TypeOK, Courteous(Synced, 0), select, NEW c \in Commands, InProtocol(c)
  PROVE  LET r == IF select /\ pads[target].active THEN HandleCommand(target, c)
                  ELSE NoReply
         IN  /\ r.byte = Expected(Len(got) + 1)
             /\ target \in connected => After(pads[target], r) = PadAfter(Len(got) + 1)
<1> DEFINE r == IF select /\ pads[target].active THEN HandleCommand(target, c)
                ELSE NoReply
           n == Len(got)
<1>0. n \in 0 .. 6 /\ ~InFlight(Synced)
  <2>1. n \in Nat
    BY DEF TypeOK
  <2>2. n <= 6
    BY Zenon DEF Courteous
  <2>3. ~InFlight(Synced)
    BY DEF InProtocol, Waited, InFlight, Idle
  <2> HIDE DEF n
  <2> QED BY <2>1, <2>2, <2>3
<1>1. CASE target \notin connected
  BY <1>1, Zenon DEF HandleCommand, NoReply, Expected
<1>2. CASE target \in connected
  <2>1. pads[target] = PadAfter(n)
    BY <1>0, <1>2 DEF Courteous, Sent
  <2>2. c = CASE n = 0 -> "access" [] n = 1 -> "read" [] OTHER -> "other"
    BY Zenon DEF InProtocol
  <2>3. Expected(n + 1) = IF n < 6 THEN WholeReply[n + 1] ELSE "none"
    BY <1>0, <1>2 DEF Expected
  <2> HIDE DEF n
  <2>4. CASE n < 5
    <3>1. pads[target].active /\ pads[target].seq = n
      BY <2>1, <2>4 DEF PadAfter
    <3>2. r = Reply(n, c)
      BY <1>2, <3>1, Zenon DEF HandleCommand
    <3>3. /\ r.byte = WholeReply[n + 1]
          /\ n < 4 => r.dsr = TRUE
          /\ n = 4 => r.dsr = FALSE
      <4>1. n \in {0, 1, 2, 3, 4}
        BY <1>0, <2>4
      <4>2. CASE n = 0
        <5>1. c = "access" /\ WholeReply[n + 1] = "none"
          BY <2>2, <4>2 DEF WholeReply
        <5>2. r = [byte |-> "none", dsr |-> c = "access"]
          BY <3>2, <4>2 DEF Reply
        <5>3. (c = "access") = TRUE
          BY <5>1, Zenon
        <5>4. r = [byte |-> "none", dsr |-> TRUE]
          BY <5>2, <5>3, Zenon
        <5> QED BY <4>2, <5>1, <5>4
      <4>3. CASE n = 1
        <5>1. c = "read" /\ WholeReply[n + 1] = "id"
          BY <2>2, <4>3 DEF WholeReply
        <5>2. r = [byte |-> "id", dsr |-> c = "read"]
          BY <3>2, <4>3 DEF Reply
        <5>3. (c = "read") = TRUE
          BY <5>1, Zenon
        <5>4. r = [byte |-> "id", dsr |-> TRUE]
          BY <5>2, <5>3, Zenon
        <5> QED BY <4>3, <5>1, <5>4
      <4>4. CASE n \in {2, 3, 4}
        BY <3>2, <4>4 DEF Reply, WholeReply
      <4> QED BY <4>1, <4>2, <4>3, <4>4, Zenon
    <3>4. After(pads[target], r) = PadAfter(n + 1)
      <4> HIDE DEF r
      <4>1. After(pads[target], r) = [seq |-> n + 1, active |-> r.dsr]
        BY <3>1, Zenon DEF After
      <4>2. CASE n < 4
        <5>1. PadAfter(n + 1) = [seq |-> n + 1, active |-> TRUE]
          BY <1>0, <4>2 DEF PadAfter
        <5> QED BY <3>3, <4>1, <4>2, <5>1, Zenon
      <4>3. CASE n = 4
        <5>1. PadAfter(n + 1) = [seq |-> n + 1, active |-> FALSE]
          BY <4>3 DEF PadAfter
        <5> QED BY <3>3, <4>1, <4>3, <5>1, Zenon
      <4> QED BY <1>0, <2>4, <4>2, <4>3
    <3> QED BY <2>3, <2>4, <3>3, <3>4 DEF n
  <2>5. CASE ~(n < 5)
    <3>1. n \in {5, 6}
      BY <1>0, <2>5
    <3>2. ~pads[target].active /\ PadAfter(n) = PadAfter(n + 1)
      BY <2>1, <3>1 DEF PadAfter
    <3>3. r = NoReply
      BY <3>2, Zenon
    <3>4. Expected(n + 1) = "none"
      BY <2>3, <3>1 DEF WholeReply
    <3> QED BY <2>1, <3>2, <3>3, <3>4, Zenon DEF n, NoReply, After
  <2> QED BY <2>4, <2>5, Zenon
<1> QED BY <1>1, <1>2, Zenon

\* A byte is sent.
LEMMA CourteousSend ==
  ASSUME TypeOK, polite, Courteous(Synced, 0), NEW c \in Commands, SendCommand(c)
  PROVE  Courteous(port, since)'
<1>1. InProtocol(c) /\ select
  BY Zenon DEF SendCommand, InProtocol
<1>2. Synced.bus = Idle /\ ~Synced.rx_not_empty /\ ~Synced.dsr
  BY <1>1 DEF InProtocol, Waited, Courteous, Idle
<1>3. /\ since' = 0 /\ UNCHANGED <<connected, select, target, dsr_it, got, panic>>
  BY Zenon DEF SendCommand, Access, control
<1> DEFINE r == IF select /\ pads[target].active THEN HandleCommand(target, c)
                ELSE NoReply
           n == Bits * baud_div
<1>4. /\ n \in Nat /\ n < Never
      /\ port' = [Synced EXCEPT !.bus = Transfer(r.byte, r.dsr, n), !.due = n]
  BY SendLemma, Zenon
<1>5. r.byte = Expected(Len(got) + 1)
      /\ (target \in connected => After(pads[target], r) = PadAfter(Len(got) + 1))
  BY <1>1, ReplyInOrder, Zenon
<1>6. pads' = [pads EXCEPT ![target] = After(pads[target], r)]
  BY <1>1, Zenon DEF SendCommand
<1> HIDE DEF r, n
<1>7. /\ port'.bus = Transfer(r.byte, r.dsr, n) /\ port'.due = n
      /\ port'.rx_not_empty = Synced.rx_not_empty /\ port'.dsr = Synced.dsr
  BY <1>4, SyncedLemma, Zenon DEF Ports
<1>8. /\ port'.bus.state = "Transfer" /\ port'.bus.response = r.byte /\ port'.bus.delay = n
  BY <1>7 DEF Transfer
<1>9. port'.due <= port'.bus.delay - since'
  BY <1>3, <1>4, <1>7, <1>8
<1>10. Sent(port)' = Len(got) + 1 /\ InFlight(port)'
  BY <1>3, <1>8, Zenon DEF Sent, InFlight
<1>11. target \in connected => pads'[target] = PadAfter(Len(got) + 1)
  BY <1>5, <1>6, PadAssumption, Zenon DEF TypeOK
<1>12. Expected(Len(got) + 1)' = Expected(Len(got) + 1)
  BY <1>3, Zenon DEF Expected
<1>13. /\ ~panic' /\ target' = 1 /\ RepliesInOrder' /\ Len(got') <= 6 /\ select'
  BY <1>1, <1>3, Zenon DEF Courteous, RepliesInOrder
<1> QED
  BY <1>2, <1>3, <1>4, <1>5, <1>7, <1>8, <1>9, <1>10, <1>11, <1>12, <1>13,
     Zenon DEF Courteous

\* A byte is read.
LEMMA CourteousRead ==
  ASSUME TypeOK, polite, Courteous(Synced, 0), ReadRx
  PROVE  Courteous(port, since)'
<1>1. /\ since' = 0 /\ UNCHANGED <<pads, connected, select, target, dsr_it, panic>>
  BY Zenon DEF ReadRx, Access, control, slots
<1>2. /\ port'.bus = Synced.bus /\ port'.due = Synced.due /\ port'.dsr = Synced.dsr
      /\ ~port'.rx_not_empty
  BY SyncedLemma, Zenon DEF ReadRx, Ports
<1>3. Len(got) \in 0 .. 6 /\ got \in Seq(Bytes) /\ Synced.response \in Bytes
  <2>1. Synced.response \in Bytes
    BY SyncedLemma, Zenon DEF Ports
  <2>2. got \in Seq(Bytes) /\ Len(got) \in Nat
    BY DEF TypeOK
  <2> DEFINE n == Len(got)
  <2>3. n \in Nat /\ n <= 6
    BY <2>2, Zenon DEF Courteous
  <2>4. n \in 0 .. 6
    <3> HIDE DEF n
    <3> QED BY <2>3
  <2> QED BY <2>1, <2>2, <2>4, Zenon
<1>4. CASE ~Synced.rx_not_empty
  <2>1. got' = got
    BY <1>4, Zenon DEF ReadRx
  <2>2. InFlight(port)' = InFlight(Synced) /\ Sent(port)' = Sent(Synced)
    BY <1>2, <1>4, <2>1, Zenon DEF InFlight, Sent
  <2>3. RepliesInOrder' /\ Expected(Len(got) + 1)' = Expected(Len(got) + 1)
    BY <1>1, <2>1, Zenon DEF RepliesInOrder, Expected, Courteous
  <2> QED BY <1>1, <1>2, <1>4, <2>1, <2>2, <2>3, Zenon DEF Courteous
<1>5. CASE Synced.rx_not_empty
  <2>1. port'.bus.state # "Transfer" /\ Sent(Synced) = Len(got) + 1 /\ ~InFlight(port)'
        /\ select
    BY <1>2, <1>5, Zenon DEF Courteous, InFlight, Sent
  <2>2. Synced.response = Expected(Len(got) + 1)
    BY <1>5, Zenon DEF Courteous
  <2>3. CASE Len(got) < 6
    <3>1. got' = Append(got, Synced.response)
      BY <1>5, <2>3, Zenon DEF ReadRx
    <3>2. /\ Len(got') = Len(got) + 1
          /\ \A i \in 1 .. Len(got) : got'[i] = got[i]
          /\ got'[Len(got) + 1] = Synced.response
      BY <1>3, <3>1
    <3>3. Sent(port)' = Sent(Synced)
      BY <1>3, <2>1, <3>2 DEF Sent
    <3>4. RepliesInOrder'
      <4>1. Len(got) + 1 \in 1 .. 6
        BY <1>3, <2>3
      <4>2. Synced.response = IF target \in connected THEN WholeReply[Len(got) + 1]
                              ELSE "none"
        BY <2>2, <4>1, Zenon DEF Expected
      <4> SUFFICES ASSUME NEW i \in 1 .. Len(got')
                   PROVE  got'[i] = IF target \in connected THEN WholeReply[i] ELSE "none"
        BY <1>1, Zenon DEF RepliesInOrder
      <4>3. CASE i \in 1 .. Len(got)
        BY <3>2, <4>3, Zenon DEF Courteous, RepliesInOrder
      <4>4. CASE i = Len(got) + 1
        <5>1. got'[i] = Synced.response
          BY <3>2, <4>4, Zenon
        <5> QED BY <4>2, <4>4, <5>1, Zenon
      <4> QED BY <1>3, <3>2, <4>3, <4>4
    <3>5. Len(got') <= 6
      BY <1>3, <2>3, <3>2
    <3> QED BY <1>1, <1>2, <2>1, <3>3, <3>4, <3>5, Zenon DEF Courteous
  <2>4. CASE ~(Len(got) < 6)
    <3>1. got' = got /\ Len(got) = 6
      <4>1. got' = got
        BY <2>4, Zenon DEF ReadRx
      <4> DEFINE n == Len(got)
      <4>2. n \in 0 .. 6 /\ ~(n < 6)
        BY <1>3, <2>4, Zenon
      <4>3. n = 6
        <5> HIDE DEF n
        <5> QED BY <4>2
      <4> QED BY <4>1, <4>3, Zenon
    <3>2. Sent(port)' = 6 /\ Sent(Synced) = 7 /\ PadAfter(6) = PadAfter(7)
      BY <2>1, <3>1 DEF Sent, PadAfter
    <3>3. RepliesInOrder'
      BY <1>1, <3>1, Zenon DEF RepliesInOrder, Courteous
    <3> QED BY <1>1, <1>2, <2>1, <3>1, <3>2, <3>3, Zenon DEF Courteous
  <2> QED BY <2>3, <2>4, Zenon
<1> QED BY <1>4, <1>5, Zenon

\* The control register is written.
LEMMA CourteousControl ==
  ASSUME TypeOK, polite, Targets \subseteq {1}, Courteous(Synced, 0),
         NEW ack \in BOOLEAN, NEW tx \in BOOLEAN, NEW sel \in BOOLEAN,
         NEW it \in BOOLEAN, NEW t \in Targets, SetControl(ack, tx, sel, it, t)
  PROVE  Courteous(port, since)'
<1>1. /\ since' = 0 /\ UNCHANGED <<connected, panic>> /\ target' = target
      /\ select' = sel /\ dsr_it' = it
  BY Zenon DEF SetControl, Access, Courteous
<1>2. /\ port'.bus = Synced.bus /\ port'.response = Synced.response
      /\ port'.due = Synced.due
      /\ port'.dsr = Synced.dsr /\ port'.rx_not_empty = Synced.rx_not_empty
  BY SyncedLemma, Zenon DEF SetControl, Ports
<1>3. \/ Waited
      \/ sel = select /\ it = dsr_it
  BY Zenon DEF SetControl, control
<1>4. Waited => ~InFlight(Synced) /\ Synced.bus.state = "Idle"
  BY DEF Waited, InFlight, Idle
<1>5. InFlight(port)' = InFlight(Synced)
  BY <1>2, Zenon DEF InFlight
<1>6. target = 1 /\ pads \in [Slots -> Pads]
  BY Zenon DEF Courteous, TypeOK, Pads
<1>7. CASE ~select /\ sel
  <2>1. Waited /\ got' = <<>> /\ pads' = [pads EXCEPT ![1] = [seq |-> 0, active |-> TRUE]]
    BY <1>3, <1>7, Zenon DEF SetControl
  <2>2. Len(got') = 0 /\ RepliesInOrder'
    BY <2>1 DEF RepliesInOrder
  <2>3. Sent(port)' = 0
    BY <1>4, <1>5, <2>1, <2>2 DEF Sent
  <2>4. pads'[1] = PadAfter(0)
    BY <1>6, <2>1 DEF PadAfter, Slots
  <2> QED BY <1>1, <1>2, <1>4, <1>5, <1>6, <2>1, <2>2, <2>3, <2>4 DEF Courteous, InFlight
<1>8. CASE ~(~select /\ sel)
  <2>1. UNCHANGED <<got, pads>>
    BY <1>8, Zenon DEF SetControl
  <2>2. RepliesInOrder' /\ Sent(port)' = Sent(Synced)
        /\ Expected(Len(got) + 1)' = Expected(Len(got) + 1)
    BY <1>1, <1>5, <2>1, Zenon DEF RepliesInOrder, Sent, Expected, Courteous
  <2>3. CASE Waited
    BY <1>1, <1>2, <1>4, <1>5, <1>8, <2>1, <2>2, <2>3, Zenon DEF Courteous,
       InFlight
  <2>4. CASE sel = select /\ it = dsr_it
    BY <1>1, <1>2, <2>1, <2>4, CourteousSame, Zenon
  <2> QED BY <1>3, <2>3, <2>4, Zenon
<1> QED BY <1>7, <1>8, Zenon

\* A polite program is courteous at every step.
PoliteInv == polite => Courteous(port, since)

\* Time passes for the scheduled date and for the transfer alike.
LEMMA CourteousTick ==
  ASSUME TypeOK, Courteous(port, since), Tick
  PROVE  Courteous(port, since)'
<1>1. /\ port \in Ports /\ port.due \in Int /\ port.bus.delay \in Nat
      /\ since \in Nat /\ Never \in Nat
  BY SyncedLemma, PadAssumption DEF Ports, BusStates, TypeOK
<1>2. UNCHANGED <<pads, connected, select, target, dsr_it, got, panic>>
  BY Zenon DEF Tick, slots, control
<1> DEFINE d == IF port.due = Never THEN Never ELSE port.due - 1
           s == IF since = MaxSince THEN since ELSE since + 1
<1>3. port' = [port EXCEPT !.due = d] /\ since' = s
  BY Zenon DEF Tick
<1>4. port.bus.state = "Transfer" /\ port.bus.dsr /\ dsr_it => d <= port.bus.delay - s
  <2> SUFFICES ASSUME port.bus.state = "Transfer" /\ port.bus.dsr /\ dsr_it
               PROVE  d <= port.bus.delay - s
    BY Zenon
  <2>1. port.bus.delay < Never /\ port.due <= port.bus.delay - since
    BY Zenon DEF Courteous
  <2> DEFINE a == port.due
             b == port.bus.delay
  <2>2. a \in Int /\ b \in Nat /\ b < Never /\ a <= b - since
    BY <1>1, <2>1, Zenon
  <2>3. d = (IF a = Never THEN Never ELSE a - 1)
    BY Zenon
  <2> HIDE DEF a, b, d
  <2>4. d = a - 1
    BY <1>1, <2>2, <2>3
  <2>5. s \in Nat /\ s <= since + 1
    BY <1>1
  <2> HIDE DEF s
  <2>6. d <= b - s
    BY <1>1, <2>2, <2>4, <2>5
  <2> QED BY <2>6, Zenon DEF b
<1> HIDE DEF d, s
<1>5. /\ port'.bus = port.bus /\ port'.due = d /\ port'.dsr = port.dsr
      /\ port'.response = port.response /\ port'.rx_not_empty = port.rx_not_empty
  BY <1>1, <1>3, Zenon DEF Ports
<1>6. InFlight(port)' = InFlight(port) /\ Sent(port)' = Sent(port)
  BY <1>2, <1>5, Zenon DEF InFlight, Sent
<1>7. RepliesInOrder' /\ Expected(Len(got) + 1)' = Expected(Len(got) + 1)
  BY <1>2, Zenon DEF RepliesInOrder, Expected, Courteous
<1> QED BY <1>2, <1>3, <1>4, <1>5, <1>6, <1>7, Zenon DEF Courteous

\* Every step of a polite program.
LEMMA CourteousLemma ==
  ASSUME TypeOK, polite, Targets \subseteq {1}, Courteous(port, since), [Next]_vars
  PROVE  Courteous(port, since)'
<1>0. Courteous(Synced, 0) /\ ~Overrun /\ port \in Ports /\ Synced \in Ports
  BY CourteousSync, SyncedLemma, Zenon
<1>1. CASE UNCHANGED vars
  BY <1>1, CourteousSame, Zenon DEF vars, slots, control
<1>2. CASE SyncPanics \/ SendDisabled \/ \E s \in Slots : SetProfile(s)
  BY <1>0, <1>2, Zenon DEF SyncPanics, SendDisabled, SetProfile
<1>3. CASE Tick
  BY <1>3, CourteousTick, Zenon
<1>4. CASE CpuSync \/ Poll \/ \E b \in Bauds : SetBaud(b)
  BY <1>0, <1>4, CourteousSame, Zenon DEF CpuSync, Poll, Sync, SetBaud,
     Access, slots, control
<1>5. CASE ReadRx
  BY <1>0, <1>5, CourteousRead, Zenon
<1>6. CASE SoftReset
  <2>1. /\ port'.bus = Idle /\ ~port'.dsr /\ ~port'.rx_not_empty
        /\ ~select' /\ target' = target
        /\ UNCHANGED <<connected, got, panic>>
    BY <1>0, <1>6, Zenon DEF SoftReset, Ports, Access, slots, Courteous
  <2>2. RepliesInOrder' /\ ~InFlight(port)'
    BY <2>1 DEF RepliesInOrder, Courteous, InFlight, Idle
  <2> QED BY <2>1, <2>2 DEF Courteous, Idle
<1>7. CASE AckStatus
  <2>1. /\ port'.bus = port.bus /\ port'.due = port.due /\ port'.dsr = port.dsr
        /\ port'.response = port.response /\ port'.rx_not_empty = port.rx_not_empty
    BY <1>0, <1>7, Zenon DEF AckStatus, Ports
  <2>2. UNCHANGED <<pads, connected, select, target, dsr_it, got, panic, since>>
    BY <1>7, Zenon DEF AckStatus, slots, control
  <2> QED BY <2>1, <2>2, CourteousSame, Zenon
<1>8. ASSUME NEW c \in Commands, SendCommand(c) PROVE Courteous(port, since)'
  BY <1>0, <1>8, CourteousSend, Zenon
<1>9. ASSUME NEW ack \in BOOLEAN, NEW tx \in BOOLEAN, NEW sel \in BOOLEAN,
             NEW it \in BOOLEAN, NEW t \in Targets, SetControl(ack, tx, sel, it, t)
      PROVE  Courteous(port, since)'
  BY <1>0, <1>9, CourteousControl, Zenon
<1>10. ASSUME NEW ack \in BOOLEAN, SetControlPanics(ack) PROVE FALSE
  <2>1. Synced.bus = Idle /\ Synced.dsr
    BY <1>10, Zenon DEF SetControlPanics
  <2> QED BY <1>0, <2>1 DEF Courteous, Idle
<1> QED
  BY <1>1, <1>2, <1>3, <1>4, <1>5, <1>6, <1>7, <1>8, <1>9, <1>10, Zenon DEF
     Next

\* The initial state is courteous.
LEMMA PoliteInit == Init => PoliteInv
<1> SUFFICES ASSUME Init PROVE Courteous(port, since)
  BY Zenon DEF PoliteInv
<1>1. /\ port.bus = Idle /\ ~port.dsr /\ ~port.rx_not_empty
      /\ got = <<>> /\ ~select /\ target = 1 /\ ~panic
  BY Zenon DEF Init
<1>2. Len(got) = 0 /\ RepliesInOrder
  BY <1>1 DEF RepliesInOrder
<1>3. port.bus.state = "Idle" /\ ~InFlight(port)
  BY <1>1 DEF Idle, InFlight
<1> QED BY <1>1, <1>2, <1>3 DEF Courteous

\* A program that is not polite has no byte to compare.
LEMMA RudeLemma ==
  ASSUME ~polite, got = <<>>, [Next]_vars
  PROVE  got' = <<>>
<1>1. CASE UNCHANGED vars \/ SyncPanics \/ Tick \/ CpuSync \/ Poll \/ SendDisabled
           \/ SoftReset \/ AckStatus \/ (\E s \in Slots : SetProfile(s))
  BY <1>1, Zenon DEF vars, SyncPanics, Tick, CpuSync, Poll, Sync,
     SendDisabled, SoftReset, AckStatus, SetProfile
<1>2. CASE ReadRx
  BY <1>2, Zenon DEF ReadRx
<1>3. ASSUME NEW c \in Commands, SendCommand(c) PROVE got' = <<>>
  BY <1>3, Zenon DEF SendCommand
<1>4. ASSUME NEW b \in Bauds, SetBaud(b) PROVE got' = <<>>
  BY <1>4, Zenon DEF SetBaud
<1>5. ASSUME NEW ack \in BOOLEAN, NEW tx \in BOOLEAN, NEW sel \in BOOLEAN,
             NEW it \in BOOLEAN, NEW t \in Targets, SetControl(ack, tx, sel, it, t)
      PROVE  got' = <<>>
  BY <1>5, Zenon DEF SetControl
<1>6. ASSUME NEW ack \in BOOLEAN, SetControlPanics(ack) PROVE got' = <<>>
  BY <1>6, Zenon DEF SetControlPanics
<1> QED BY <1>1, <1>2, <1>3, <1>4, <1>5, <1>6, Zenon DEF Next

\* polite is chosen once.
LEMMA PoliteForever == [Next]_vars => polite' = polite
  BY Zenon DEF Next, vars, slots, control, SyncPanics, Tick, CpuSync, Poll,
     Sync, ReadRx, SendDisabled, SoftReset, AckStatus, SetProfile, SendCommand,
     SetBaud, SetControl, SetControlPanics

\* A program that only selects the first slot stays courteous.
LEMMA PoliteInvariance ==
  ASSUME Targets \subseteq {1}
  PROVE  Spec => [](TypeOK /\ PoliteInv)
<1>1. TypeOK /\ PoliteInv /\ [Next]_vars => PoliteInv'
  <2> SUFFICES ASSUME TypeOK, PoliteInv, [Next]_vars, polite'
               PROVE  Courteous(port, since)'
    BY Zenon DEF PoliteInv
  <2>1. polite
    BY PoliteForever, Zenon
  <2> QED BY <2>1, CourteousLemma, Zenon DEF PoliteInv
<1> QED BY <1>1, PoliteInit, Typed, PTL DEF Spec

(***************************************************************************)
(* A program that waits for every byte never reaches a panic of PadMemCard *)
(* (a byte received over an unread one, a control write during DSR), and   *)
(* the synchronisation that raises the interrupt is never scheduled too    *)
(* late, for every baud rate.  The hypothesis is the code's own limit:     *)
(* PadMemCard::set_control tells only the first pad of the select signal.  *)
(***************************************************************************)
THEOREM PoliteProgramsNeverPanic ==
  ASSUME Targets \subseteq {1}
  PROVE  Spec => []ProtocolNeverPanics
<1>1. TypeOK /\ PoliteInv => ProtocolNeverPanics
  BY Zenon DEF PoliteInv, Courteous, ProtocolNeverPanics
<1> QED BY <1>1, PoliteInvariance, PTL

(***************************************************************************)
(* The bytes such a program reads are those of the reply, in order, none   *)
(* lost and none repeated, whatever the timing; with no pad connected it   *)
(* reads none of them.                                                     *)
(***************************************************************************)
THEOREM RepliesArriveInOrder ==
  ASSUME Targets \subseteq {1}
  PROVE  Spec => []RepliesInOrder
<1> DEFINE Rude == ~polite => got = <<>>
<1>1. Init => Rude
  BY Zenon DEF Init
<1>2. Rude /\ [Next]_vars => Rude'
  BY RudeLemma, PoliteForever, Zenon
<1>3. PoliteInv /\ Rude => RepliesInOrder
  BY DEF PoliteInv, Courteous, RepliesInOrder
<1> QED BY <1>1, <1>2, <1>3, PoliteInvariance, PTL DEF Spec
============================================================================

----------------------------- MODULE PadMemCard -----------------------------
(***************************************************************************)
(* The controller port of src/padmemcard/mod.rs with the two game pads of  *)
(* src/padmemcard/gamepad.rs.                                              *)
(*                                                                         *)
(* Like every peripheral it is synchronised lazily: `since' is the number  *)
(* of cycles since the last synchronisation (saturating at MaxSince), `due'*)
(* the number of cycles until the date of the time sheet, `istat' the bit  *)
(* of the interrupt controller.  `port' holds what PadMemCard::sync        *)
(* changes.  `got' are the bytes a polite program read since the select    *)
(* signal was asserted, up to one past the whole reply; `polite' tells     *)
(* whether the program follows the serial protocol, which it does or does  *)
(* not from the beginning.                                                 *)
(***************************************************************************)
EXTENDS Integers, Sequences

CONSTANTS
  Bauds,       \* values of the clock divider
  Bits,        \* clock periods per byte
  DsrDuration, \* length of the DSR pulse
  Targets,     \* the slots the program addresses
  Never,       \* Cycles::max_value()
  MaxSince     \* bound: elapsed cycles that are told apart

Slots == {1, 2}

ASSUME PadAssumption ==
  /\ Bauds \subseteq Nat /\ 0 \in Bauds /\ Bits \in Nat
  /\ DsrDuration \in Nat \ {0}
  /\ Targets \subseteq Slots
  /\ MaxSince \in Nat
  /\ Never \in Nat /\ MaxSince < Never /\ \A b \in Bauds : Bits * b < Never

VARIABLES port, pads, connected, baud_div, tx_en, select, target, dsr_it,
          since, got, polite, panic

control == <<tx_en, select, target, dsr_it>>
slots == <<pads, connected>>
vars == <<port, slots, control, baud_div, since, got, polite, panic>>

Bytes == {"none", "id", "id2", "lo", "hi"}
Commands == {"access", "read", "other"}

Idle == [state |-> "Idle", response |-> "none", dsr |-> FALSE, delay |-> 0]
Transfer(r, d, n) == [state |-> "Transfer", response |-> r, dsr |-> d, delay |-> n]
Dsr(n) == [state |-> "Dsr", response |-> "none", dsr |-> FALSE, delay |-> n]

BusStates == [state : {"Idle", "Transfer", "Dsr"}, response : Bytes,
              dsr : BOOLEAN, delay : Nat]

\* The type invariant; the position in the reply sequence of a pad, a byte in
\* the code, does not grow without bound.
TypeOK ==
  /\ port \in [bus : BusStates, response : Bytes, rx_not_empty : BOOLEAN,
               dsr : BOOLEAN, interrupt : BOOLEAN, istat : BOOLEAN, due : Int]
  /\ pads \in [Slots -> [seq : 0 .. 5, active : BOOLEAN]]
  /\ connected \subseteq Slots
  /\ baud_div \in Bauds
  /\ tx_en \in BOOLEAN /\ select \in BOOLEAN /\ dsr_it \in BOOLEAN
  /\ target \in Slots
  /\ since \in 0 .. MaxSince
  /\ got \in Seq(Bytes)
  /\ polite \in BOOLEAN
  /\ panic \in BOOLEAN

Init ==
  /\ port = [bus |-> Idle, response |-> "none", rx_not_empty |-> FALSE,
             dsr |-> FALSE, interrupt |-> FALSE, istat |-> FALSE, due |-> 0]
  /\ pads = [s \in Slots |-> [seq |-> 0, active |-> TRUE]]
  /\ connected \in SUBSET Slots
  /\ baud_div = 0 /\ tx_en = FALSE /\ select = FALSE /\ target = 1
  /\ dsr_it = FALSE /\ since = 0 /\ got = <<>>
  /\ polite \in BOOLEAN /\ panic = FALSE

----------------------------------------------------------------------------
\* PadMemCard::sync

\* The end of a transfer cannot be received while the last byte is unread
Overrun ==
  port.bus.state = "Transfer" /\ since >= port.bus.delay /\ port.rx_not_empty

\* The transfer goes on
SyncTransfer(p) ==
  [p EXCEPT !.bus.delay = @ - since,
            !.due = IF dsr_it THEN p.bus.delay - since ELSE Never]

\* Mutant: the interrupt is not latched by the interrupt controller
EndTransferLevelOnly(p) ==
  [p EXCEPT !.response = p.bus.response, !.rx_not_empty = TRUE,
            !.dsr = p.bus.dsr,
            !.interrupt = @ \/ (p.bus.dsr /\ dsr_it),
            !.bus = IF p.bus.dsr THEN Dsr(DsrDuration) ELSE Idle,
            !.due = Never]

\* Mutant: the received byte is not put in the response register
EndTransferKeepsResponse(p) ==
  [p EXCEPT !.rx_not_empty = TRUE, !.dsr = p.bus.dsr,
            !.istat = @ \/ (p.bus.dsr /\ dsr_it /\ ~p.interrupt),
            !.interrupt = @ \/ (p.bus.dsr /\ dsr_it),
            !.bus = IF p.bus.dsr THEN Dsr(DsrDuration) ELSE Idle,
            !.due = Never]

\* The byte is received; the interrupt controller sees the rising edge
EndTransfer(p) ==
  [p EXCEPT !.response = p.bus.response, !.rx_not_empty = TRUE,
            !.dsr = p.bus.dsr,
            !.istat = @ \/ (p.bus.dsr /\ dsr_it /\ ~p.interrupt),
            !.interrupt = @ \/ (p.bus.dsr /\ dsr_it),
            !.bus = IF p.bus.dsr THEN Dsr(DsrDuration) ELSE Idle,
            !.due = Never]

\* Mutant: the end of the pulse does not release the signal
SyncDsrStuck(p) ==
  IF since < p.bus.delay
    THEN [p EXCEPT !.bus.delay = @ - since, !.due = Never]
    ELSE [p EXCEPT !.bus = Idle, !.due = Never]

SyncDsr(p) ==
  IF since < p.bus.delay
    THEN [p EXCEPT !.bus.delay = @ - since, !.due = Never]
    ELSE [p EXCEPT !.bus = Idle, !.dsr = FALSE, !.due = Never]

Synced ==
  CASE port.bus.state = "Idle" -> [port EXCEPT !.due = Never]
    [] port.bus.state = "Transfer" -> IF since < port.bus.delay
                                        THEN SyncTransfer(port)
                                        ELSE EndTransfer(port)
    [] port.bus.state = "Dsr" -> SyncDsr(port)

\* Every access begins with a synchronisation, which may panic
Access == ~panic /\ ~Overrun /\ since' = 0 /\ UNCHANGED panic

SyncPanics ==
  /\ ~panic /\ Overrun /\ panic' = TRUE
  /\ UNCHANGED <<port, slots, control, baud_div, since, got, polite>>

----------------------------------------------------------------------------
\* The main loop and the frontend

Tick ==
  /\ ~panic /\ port.due > 0
  /\ since' = IF since = MaxSince THEN since ELSE since + 1
  /\ port' = [port EXCEPT !.due = IF @ = Never THEN Never ELSE @ - 1]
  /\ UNCHANGED <<slots, control, baud_div, got, polite, panic>>

\* By Interconnect::sync when the date has come, or by a load that changes
\* nothing else
Sync ==
  /\ Access /\ port' = Synced
  /\ UNCHANGED <<slots, control, baud_div, got, polite>>

CpuSync == port.due <= 0 /\ Sync
Poll == Sync

\* A pad is plugged in or out
SetProfile(s) ==
  /\ ~panic /\ ~polite
  /\ connected' = IF s \in connected THEN connected \ {s} ELSE connected \cup {s}
  /\ UNCHANGED <<port, pads, control, baud_div, since, got, polite, panic>>

----------------------------------------------------------------------------
\* The game pad

\* DigitalProfile::handle_command
Reply(seq, cmd) ==
  CASE seq = 0 -> [byte |-> "none", dsr |-> cmd = "access"]
    [] seq = 1 -> [byte |-> "id", dsr |-> cmd = "read"]
    [] seq = 2 -> [byte |-> "id2", dsr |-> TRUE]
    [] seq = 3 -> [byte |-> "lo", dsr |-> TRUE]
    [] seq = 4 -> [byte |-> "hi", dsr |-> FALSE]
    [] OTHER -> [byte |-> "none", dsr |-> FALSE]

NoReply == [byte |-> "none", dsr |-> FALSE]

HandleCommand(s, cmd) ==
  IF s \in connected THEN Reply(pads[s].seq, cmd) ELSE NoReply

\* Mutant: the pad goes on whatever it answered
AfterAlways(pad, reply) ==
  IF pad.active THEN [pad EXCEPT !.seq = @ + 1] ELSE pad

\* GamePad::send_command: a pad without DSR ignores the rest
After(pad, reply) ==
  IF pad.active THEN [seq |-> pad.seq + 1, active |-> reply.dsr] ELSE pad

----------------------------------------------------------------------------
\* The registers

ReadRx ==
  /\ Access
  /\ port' = [Synced EXCEPT !.rx_not_empty = FALSE, !.response = "none"]
  /\ got' = IF polite /\ Synced.rx_not_empty /\ Len(got) < 6
              THEN Append(got, Synced.response) ELSE got
  /\ UNCHANGED <<slots, control, baud_div, polite>>

\* The n-th byte a polite program sends; it waits for the last one to be
\* received, read and acknowledged
Waited == /\ Synced.bus = Idle /\ ~Synced.rx_not_empty
          /\ ~Synced.interrupt
InProtocol(cmd) == /\ Waited /\ tx_en /\ select
                   /\ cmd = CASE Len(got) = 0 -> "access"
                              [] Len(got) = 1 -> "read"
                              [] OTHER -> "other"

SendCommand(cmd) ==
  /\ Access /\ tx_en
  /\ polite => InProtocol(cmd)
  /\ LET p == IF select /\ pads[target].active THEN HandleCommand(target, cmd)
              ELSE NoReply
         n == Bits * baud_div
     IN /\ port' = [Synced EXCEPT !.bus = Transfer(p.byte, p.dsr, n), !.due = n]
        /\ pads' = IF select
                     THEN [pads EXCEPT ![target] = After(@, p)] ELSE pads
  /\ UNCHANGED <<connected, control, baud_div, got, polite>>

SendDisabled ==
  /\ ~panic /\ ~Overrun /\ ~tx_en /\ ~polite
  /\ port' = Synced /\ since' = 0 /\ panic' = TRUE
  /\ UNCHANGED <<slots, control, baud_div, got, polite>>

SetBaud(b) ==
  /\ Access
  /\ polite => Waited
  /\ port' = Synced /\ baud_div' = b
  /\ UNCHANGED <<slots, control, got, polite>>

SoftReset ==
  /\ Access
  /\ port' = [Synced EXCEPT !.interrupt = FALSE, !.rx_not_empty = FALSE,
                            !.bus = Idle, !.dsr = FALSE]
  /\ baud_div' = 0 /\ select' = FALSE /\ target' = 1
  /\ UNCHANGED <<slots, tx_en, dsr_it, got, polite>>

\* set_control(ack, tx_en, select, dsr_it, target).  An acknowledgement while
\* DSR is active triggers again; only the first pad is told of the select.
\* rx_en and the other interrupts are refused with a panic and left out.
SetControl(ack, tx, sel, it, t) ==
  /\ Access
  /\ polite => Waited \/ (/\ ack /\ Synced.bus = Idle
                            /\ <<tx, sel, t, it>> = control)
  /\ LET again == ack /\ Synced.dsr /\ dsr_it
         irq == again \/ (~ack /\ Synced.interrupt)
         rises == ~select /\ sel
     IN /\ ~(it /\ ~irq /\ Synced.dsr)
        /\ port' = [Synced EXCEPT !.interrupt = irq, !.istat = @ \/ again]
        /\ pads' = IF rises THEN [pads EXCEPT ![1] = [seq |-> 0, active |-> TRUE]]
                   ELSE pads
        /\ got' = IF rises THEN <<>> ELSE got
  /\ tx_en' = tx /\ select' = sel /\ dsr_it' = it /\ target' = t
  /\ UNCHANGED <<connected, baud_div, polite>>

\* "dsr_it enabled while DSR signal is active"
SetControlPanics(ack) ==
  /\ ~panic /\ ~Overrun
  /\ polite => Synced.bus = Idle
  /\ Synced.dsr /\ ~(ack /\ dsr_it) /\ (ack \/ ~Synced.interrupt)
  /\ port' = Synced /\ since' = 0 /\ panic' = TRUE
  /\ UNCHANGED <<slots, control, baud_div, got, polite>>

\* The program acknowledges the interrupt in the interrupt controller
AckStatus ==
  /\ ~panic /\ port.istat
  /\ port' = [port EXCEPT !.istat = FALSE]
  /\ UNCHANGED <<slots, control, baud_div, since, got, polite, panic>>

Next ==
  \/ SyncPanics \/ Tick \/ CpuSync \/ Poll \/ ReadRx \/ SendDisabled
  \/ SoftReset \/ AckStatus
  \/ \E s \in Slots : SetProfile(s)
  \/ \E c \in Commands : SendCommand(c)
  \/ \E b \in Bauds : SetBaud(b)
  \/ \E ack, tx, sel, it \in BOOLEAN, t \in Targets :
       SetControl(ack, tx, sel, it, t)
  \/ \E ack \in BOOLEAN : SetControlPanics(ack)

Spec == Init /\ [][Next]_vars

----------------------------------------------------------------------------
(***************************************************************************)
(* "Shouldn't be reached": a pad that still answers is inside its reply    *)
(* sequence, whatever bytes it is sent, also when it is unplugged and      *)
(* plugged again in the middle of one.                                     *)
(***************************************************************************)
PadInsideReply == \A s \in Slots : pads[s].active => pads[s].seq <= 4

(***************************************************************************)
(* The interrupt controller is told of every rising edge of the port's     *)
(* interrupt, and never of an interrupt its synchronisation did not raise. *)
(***************************************************************************)
LatchesInterrupt ==
  [][/\ ~port.interrupt /\ port'.interrupt => port'.istat
     /\ ~port.istat /\ port'.istat => Synced.interrupt]_vars

(***************************************************************************)
(* A program that waits for every byte reads the whole reply of a          *)
(* connected pad, in order, without a byte lost or repeated, and nothing   *)
(* after it.                                                               *)
(***************************************************************************)
WholeReply == <<"none", "id", "id2", "lo", "hi", "none">>

RepliesInOrder ==
  \A i \in 1 .. Len(got) :
    got[i] = IF target \in connected THEN WholeReply[i] ELSE "none"

(***************************************************************************)
(* A program that waits for every byte meets none of the panics: no byte   *)
(* is received over an unread one, DSR is low when it writes the control   *)
(* register.  "If true an interrupt is generated when a DSR pulse is       *)
(* received": if it enabled the interrupt between two bytes, a             *)
(* synchronisation is scheduled no later than the pulse.  For any program  *)
(* the state keeps its types.                                              *)
(***************************************************************************)
ProtocolNeverPanics ==
  /\ TypeOK
  /\ polite => ~panic
  /\ polite /\ port.bus.state = "Transfer" /\ port.bus.dsr /\ dsr_it
       => port.due <= port.bus.delay - since
=============================================================================

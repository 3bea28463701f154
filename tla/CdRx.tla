-------------------------------- MODULE CdRx --------------------------------
(***************************************************************************)
(* The data buffer of the CD-ROM controller (src/cdrom/mod.rs): sectors    *)
(* arrive in it while the DMA reads it word by word through rx_index.      *)
(*                                                                         *)
(* A sector has 2048 bytes, or 2340 when whole sectors are asked for, in a *)
(* buffer of 2352; sizes and rx_index are in words here.  rx_buffer gives  *)
(* the parity of the sector that each word was last copied from.           *)
(***************************************************************************)
EXTENDS Integers

CONSTANTS SectorSizes, BufferSize

VARIABLES rx_active, rx_index, rx_len, rx_buffer

vars == <<rx_active, rx_index, rx_len, rx_buffer>>

Places == 0 .. BufferSize - 1

\* The type invariant; rx_index stays within the buffer, or past its end by the
\* alignment of a transfer that is given up.
TypeOK ==
  /\ rx_active \in BOOLEAN /\ rx_index \in 0 .. BufferSize + 1
  /\ rx_len \in SectorSizes \cup {0} /\ rx_buffer \in [Places -> {0, 1}]

Init ==
  /\ rx_active = FALSE /\ rx_index = 0 /\ rx_len = 0
  /\ rx_buffer = [i \in Places |-> 0]

\* The end of read_sector: a sector of n words is copied over the buffer
read_sector(n, parity) ==
  /\ rx_len' = n
  /\ rx_buffer' = [i \in Places |-> IF i < n THEN parity ELSE rx_buffer[i]]
  /\ UNCHANGED <<rx_active, rx_index>>

\* HCHPCTL: bit 7 starts the transfer or lets it go on; without it the index
\* goes to a multiple of 8 bytes
set_host_chip_control(active) ==
  /\ rx_active' = active
  /\ rx_index' = CASE active /\ ~rx_active -> 0
                   [] active /\ rx_active -> rx_index
                   [] OTHER -> rx_index + (rx_index % 2)
  /\ UNCHANGED <<rx_len, rx_buffer>>

\* read_byte panics on an inactive buffer, its index on one that was left
Refuses == ~rx_active \/ rx_index >= BufferSize

\* Mutant: the end of the transfer is found one word late
dma_read_word_late ==
  /\ ~Refuses
  /\ rx_index' = rx_index + 1
  /\ rx_active' = (rx_index # rx_len)
  /\ UNCHANGED <<rx_len, rx_buffer>>

\* Four times read_byte, a sector size being a whole number of words
dma_read_word ==
  /\ ~Refuses
  /\ rx_index' = rx_index + 1
  /\ rx_active' = (rx_index + 1 # rx_len)
  /\ UNCHANGED <<rx_len, rx_buffer>>
=============================================================================

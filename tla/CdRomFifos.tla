----------------------------- MODULE CdRomFifos -----------------------------
(***************************************************************************)
(* The CD-ROM controller with the rings behind its FIFOs.  CdRom counts    *)
(* the bytes of a FIFO, CdFifo has the buffer and the two indexes of       *)
(* struct Fifo; a length of the former stands for every ring of that       *)
(* length of the latter.                                                   *)
(***************************************************************************)
EXTENDS CdRom, CdFifo

(* The lengths of the parameter FIFOs stand for rings that behave as queues:
   at every length that the two FIFOs reach, the full one included, and from
   every position of the indexes and their carries, a push appends, a pop takes
   the oldest byte, and the tests for full and empty are right (1223-1273). *)
FifoIsQueue == {host_params, params} \subseteq QueueLengths
=============================================================================

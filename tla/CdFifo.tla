------------------------------- MODULE CdFifo -------------------------------
(***************************************************************************)
(* The parameter and response FIFOs of the CD-ROM controller (struct Fifo  *)
(* of src/cdrom/mod.rs): a ring of Size cells (16 in the code) with a read *)
(* and a write index that carry one bit more than is needed to address a   *)
(* cell.  The operators take the ring f and follow the methods.            *)
(***************************************************************************)
EXTENDS Integers, Sequences

CONSTANTS Size,    \* cells of the ring
          Values   \* bytes, with 0

ASSUME CdFifoAssumption == Size \in Nat \ {0} /\ 0 \in Values

Cells == 0 .. Size - 1
Indexes == 0 .. 2 * Size - 1

Rings == [buffer : [Cells -> Values], write_idx : Indexes, read_idx : Indexes]

NewFifo == [buffer |-> [c \in Cells |-> 0], write_idx |-> 0, read_idx |-> 0]

is_empty(f) == f.write_idx = f.read_idx

\* The same cell with the other carry
is_full(f) == f.write_idx = (f.read_idx + Size) % (2 * Size)

clear(f) == NewFifo

len(f) == (f.write_idx - f.read_idx) % (2 * Size)

Successor(i) == (i + 1) % (2 * Size)

push(f, v) == [f EXCEPT !.buffer[f.write_idx % Size] = v,
                        !.write_idx = Successor(@)]

\* Mutant: the read index wraps without its carry
pop_no_carry(f) ==
  [value |-> f.buffer[f.read_idx % Size],
   fifo |-> [f EXCEPT !.read_idx = (@ + 1) % Size]]

\* The value and the ring it leaves
pop(f) == [value |-> f.buffer[f.read_idx % Size],
           fifo |-> [f EXCEPT !.read_idx = Successor(@)]]

----------------------------------------------------------------------------
\* The values from the read index to the write index
Contents(f) == [i \in 1 .. len(f) |-> f.buffer[(f.read_idx + i - 1) % Size]]

\* The rings an overflow does not reach
Sound == {f \in Rings : len(f) <= Size}

(* From the ring f, the two tests say whether the queue is full or empty, a
   push that is_full allows appends the value and overwrites none that is still
   to be popped, a pop takes the oldest one (1223-1273); and neither leaves the
   sound rings. *)
ActsAsQueue(f) ==
  /\ is_empty(f) <=> Contents(f) = << >>
  /\ is_full(f) <=> Len(Contents(f)) = Size
  /\ Contents(clear(f)) = << >>
  /\ ~is_full(f) => \A v \in Values :
       /\ push(f, v) \in Sound
       /\ Contents(push(f, v)) = Append(Contents(f), v)
  /\ ~is_empty(f) =>
       /\ pop(f).fifo \in Sound
       /\ pop(f).value = Head(Contents(f))
       /\ Contents(pop(f).fifo) = Tail(Contents(f))

\* The lengths at which the ring is a queue wherever its indexes are
QueueLengths == {n \in 0 .. Size : \A f \in Sound : len(f) = n => ActsAsQueue(f)}
=============================================================================

-------------------------------- MODULE Mdec --------------------------------
(***************************************************************************)
(* The command port of the motion decoder (src/mdec/mod.rs): the uploads   *)
(* of the quantization and IDCT matrices, and the reset of the control     *)
(* register.                                                               *)
(*                                                                         *)
(* A matrix is a sequence of MatrixWords words (16 in the code).  Opcode   *)
(* gives what handle_command reads in a word.  The output format and the   *)
(* DMA enables, which nothing reads but the status register, are left out. *)
(***************************************************************************)
EXTENDS Integers

CONSTANTS
  MatrixWords,
  Words,        \* the words that may be sent
  Opcode        \* [Words -> Handlers]: "command" is an unsupported opcode

VARIABLES
  handler,     \* command_handler
  remaining,   \* command_remaining
  quant,       \* quant_matrices: luma words, then chroma words
  idct         \* idct_matrix

tables == <<quant, idct>>
vars == <<handler, remaining, tables>>

Color == 2 * MatrixWords
Handlers == {"command", "color_quant", "monochrome_quant", "idct"}

\* The type invariant: command_remaining is back at 1 or more after each word,
\* so that the index of a matrix word is inside its matrix.
TypeOK ==
  /\ handler \in Handlers /\ remaining \in 1 .. Color
  /\ quant \in [0 .. Color - 1 -> Words] /\ idct \in [0 .. Color - 1 -> Words]

Init(blank) ==
  /\ handler = "command" /\ remaining = 1
  /\ quant = [i \in 0 .. Color - 1 |-> blank] /\ idct = quant

\* What command does after its handler has left r words to come
Finish(h, r) ==
  IF r = 0
  THEN handler' = "command" /\ remaining' = 1
  ELSE handler' = h /\ remaining' = r

\* Mutant: the two lengths of opcode 2 are swapped
LengthSwapped(h) ==
  CASE h = "color_quant" -> MatrixWords
    [] h = "monochrome_quant" -> Color
    [] h = "idct" -> Color
    [] OTHER -> 1

\* The words a handler installed by handle_command will take
Length(h) ==
  CASE h = "color_quant" -> Color
    [] h = "monochrome_quant" -> MatrixWords
    [] h = "idct" -> Color
    [] OTHER -> 1

----------------------------------------------------------------------------
handle_command(w) ==
  /\ handler = "command"
  /\ Finish(Opcode[w], Length(Opcode[w]))
  /\ UNCHANGED tables

\* The indices are computed after command has decremented command_remaining
handle_color_quant_matrices(w) ==
  /\ handler = "color_quant"
  /\ Finish(handler, remaining - 1)
  /\ quant' = [quant EXCEPT ![Color - 1 - (remaining - 1)] = w]
  /\ UNCHANGED idct

handle_monochrome_quant_matrix(w) ==
  /\ handler = "monochrome_quant"
  /\ Finish(handler, remaining - 1)
  /\ quant' = [quant EXCEPT ![MatrixWords - 1 - (remaining - 1)] = w]
  /\ UNCHANGED idct

handle_idct_matrix(w) ==
  /\ handler = "idct"
  /\ Finish(handler, remaining - 1)
  /\ idct' = [idct EXCEPT ![Color - 1 - (remaining - 1)] = w]
  /\ UNCHANGED quant

\* A word for the command register, from the CPU or from the DMA
command(w) ==
  \/ handle_command(w)
  \/ handle_color_quant_matrices(w)
  \/ handle_monochrome_quant_matrix(w)
  \/ handle_idct_matrix(w)

\* A write to the control register
set_control(reset) ==
  /\ IF reset THEN handler' = "command" /\ remaining' = 1
              ELSE UNCHANGED <<handler, remaining>>
  /\ UNCHANGED tables
=============================================================================

-------------------------------- MODULE Gp0 ---------------------------------
(***************************************************************************)
(* The command port of the GPU (src/gpu/mod.rs): the handler that consumes *)
(* the next word, the command buffer, polylines, image loads, the resets   *)
(* of GP1 and what a savestate keeps of them.                              *)
(*                                                                         *)
(* A word is a record with the views the code takes of its 32 bits: an     *)
(* opcode, whether it is an end-of-polyline marker, and a resolution.      *)
(* What is drawn is left out; which words it is drawn from is not.         *)
(*                                                                         *)
(* The program's side is what it is sending, the number of words it still  *)
(* owes, the position of the next word and the parity of the command,      *)
(* worked out from the bits of the opcode and not from the GPU's table.    *)
(***************************************************************************)
EXTENDS Gp0Commands

CONSTANTS
  Words,         \* the words a program sends
  VramSize,      \* VRAM_SIZE_PIXELS
  MaxVertices    \* bound: words of a polyline after its first segment

VARIABLES
  handler,     \* gp0_handler
  cmd,         \* gp0_attributes: the opcode whose callback will run
  len,         \* gp0_command.len
  remaining,   \* gp0_words_remaining
  image,       \* load_buffer: its index and resolution
  prev,        \* polyline_prev: the vertex, as <<command, position>>
  panic,       \* the emulator has panicked
  sending, owed, pos, gen   \* the program's side

buffers == <<cmd, len, remaining, image, prev>>
program == <<sending, owed, pos, gen>>

PolylineHandlers ==
  {"monochrome_polyline_vertex", "shaded_polyline_color",
   "shaded_polyline_vertex"}
Handlers == {"command", "parameter", "image_load"} \cup PolylineHandlers

\* The program sends vertices until it sends a marker, or pixels
Open == -1
PixelData == -1

NoImage == [index |-> 0, w |-> 0, h |-> 0]
Pixels(i) == i.w * i.h

\* The type invariant: no command overflows the command buffer, and
\* gp0_words_remaining does not go below zero.
TypeOK ==
  /\ handler \in Handlers /\ cmd \in Opcodes /\ len \in 0 .. BufferSize
  /\ remaining \in Nat /\ image \in [index : Nat, w : Nat, h : Nat]
  /\ prev \in {0, 1} \X Nat /\ panic \in BOOLEAN
  /\ sending \in Opcodes \cup {PixelData} /\ owed \in Nat \cup {Open}
  /\ pos \in Nat /\ gen \in {0, 1}

Init ==
  /\ handler = "command" /\ cmd = 0 /\ len = 0 /\ remaining = 0
  /\ image = NoImage /\ prev = <<0, 0>> /\ panic = FALSE
  /\ sending = 0 /\ owed = 0 /\ pos = 0 /\ gen = 0

----------------------------------------------------------------------------
\* The program's side of a word

ImageWords(word) == (word.w * word.h + 1) \div 2

\* A marker is looked for where a vertex would start
AtVertex == ~Shaded(sending) \/ pos % 2 = 0

\* Close to the bound the program ends its polyline; the opcode of a word that
\* neither side takes for a command is not looked at
MaySend(word) ==
  /\ owed = Open /\ pos >= 4 + MaxVertices /\ AtVertex => word.marker
  /\ owed # 0 /\ handler # "command" => word.marker \/ word.op = 0

NextOwed(o, n, word) ==
  CASE n > 0 -> n
    [] n = 0 /\ o \in Opcodes /\ IsPolyline(o) -> Open
    [] n = 0 /\ o = 160 -> ImageWords(word)
    [] OTHER -> 0

Sent(word) ==
  LET first == owed = 0
      o == IF first THEN word.op ELSE sending
      n == IF first THEN ProgramLength(o) - 1 ELSE owed - 1
  IN IF owed = Open
     THEN /\ owed' = IF AtVertex /\ word.marker THEN 0 ELSE owed
          /\ pos' = pos + 1 /\ UNCHANGED <<sending, gen>>
     ELSE /\ owed' = NextOwed(o, n, word)
          /\ sending' = IF n = 0 /\ o = 160 THEN PixelData ELSE o
          /\ pos' = IF first THEN 1 ELSE IF o = PixelData THEN 0 ELSE pos + 1
          /\ gen' = IF first THEN 1 - gen ELSE gen

\* The vertex the current word is
Vertex == IF owed = 0 THEN <<1 - gen, 0>> ELSE <<gen, pos>>

----------------------------------------------------------------------------
\* The callbacks

\* Mutant: the size of the image is rounded down to words
gp0_image_load_trunc(word) ==
  LET words == (word.w * word.h) \div 2 IN
  /\ remaining' = words
  /\ IF words > 0
     THEN /\ handler' = "image_load"
          /\ image' = [index |-> 0, w |-> word.w, h |-> word.h]
     ELSE handler' = "command" /\ UNCHANGED image
  /\ UNCHANGED <<prev, panic>>

\* The resolution is the last word of the command
gp0_image_load(word) ==
  LET words == (word.w * word.h + 1) \div 2 IN
  /\ remaining' = words
  /\ IF words > 0
     THEN /\ handler' = "image_load"
          /\ image' = [index |-> 0, w |-> word.w, h |-> word.h]
     ELSE handler' = "command" /\ UNCHANGED image
  /\ UNCHANGED <<prev, panic>>

\* The first segment ends with the last word of the command
gp0_monochrome_polyline ==
  /\ prev' = Vertex /\ handler' = "monochrome_polyline_vertex"
  /\ remaining' = 0 /\ UNCHANGED <<image, panic>>

gp0_shaded_polyline ==
  /\ prev' = Vertex /\ handler' = "shaded_polyline_color"
  /\ remaining' = 0 /\ UNCHANGED <<image, panic>>

\* The callback of opcode o with n words in the buffer, the last the given one
Callback(o, n, word) ==
  CASE LastRead(o) >= n ->
         /\ panic' = TRUE /\ handler' = "command" /\ remaining' = 0
         /\ UNCHANGED <<image, prev>>
    [] LastRead(o) < n /\ CallbackOf(o) = "image_load" -> gp0_image_load(word)
    [] LastRead(o) < n /\ CallbackOf(o) = "monochrome_polyline" ->
         gp0_monochrome_polyline
    [] LastRead(o) < n /\ CallbackOf(o) = "shaded_polyline" ->
         gp0_shaded_polyline
    [] OTHER -> /\ handler' = "command" /\ remaining' = 0
                /\ UNCHANGED <<image, prev, panic>>

\* A word joins the n words of a command that expects r more
Push(o, n, r, word) ==
  /\ len' = n + 1 /\ cmd' = o
  /\ IF r = 1
     THEN Callback(o, n + 1, word)
     ELSE /\ handler' = "parameter" /\ remaining' = r - 1
          /\ UNCHANGED <<image, prev, panic>>

----------------------------------------------------------------------------
\* The handlers

gp0_handle_command(word) ==
  /\ handler = "command"
  /\ Push(word.op, 0, CommandLength(word.op), word)

gp0_handle_parameter(word) ==
  /\ handler = "parameter"
  /\ Push(cmd, len, remaining, word)

gp0_handle_shaded_polyline_color(word) ==
  /\ handler = "shaded_polyline_color"
  /\ IF word.marker
     THEN handler' = "command" /\ UNCHANGED len
     ELSE handler' = "shaded_polyline_vertex" /\ len' = 1
  /\ UNCHANGED <<cmd, remaining, image, prev, panic>>

\* Reads the color in word 0 of the buffer
gp0_handle_shaded_polyline_vertex(word) ==
  /\ handler = "shaded_polyline_vertex"
  /\ panic' = (panic \/ len < 1)
  /\ prev' = Vertex /\ handler' = "shaded_polyline_color"
  /\ UNCHANGED <<cmd, len, remaining, image>>

\* Mutant: polyline_prev is not updated
gp0_handle_monochrome_polyline_vertex_stale(word) ==
  /\ handler = "monochrome_polyline_vertex"
  /\ handler' = IF word.marker THEN "command" ELSE handler
  /\ UNCHANGED <<buffers, panic>>

gp0_handle_monochrome_polyline_vertex(word) ==
  /\ handler = "monochrome_polyline_vertex"
  /\ IF word.marker
     THEN handler' = "command" /\ UNCHANGED prev
     ELSE prev' = Vertex /\ UNCHANGED handler
  /\ UNCHANGED <<cmd, len, remaining, image, panic>>

\* Two pixels per word; the renderer gets the image after the last one
gp0_handle_image_load(word) ==
  /\ handler = "image_load"
  /\ IF image.index + 1 >= VramSize
     THEN panic' = TRUE /\ UNCHANGED <<handler, remaining, image>>
     ELSE /\ remaining' = remaining - 1
          /\ IF remaining = 1
             THEN handler' = "command" /\ image' = NoImage
             ELSE /\ image' = [image EXCEPT !.index = @ + 2]
                  /\ UNCHANGED handler
          /\ UNCHANGED panic
  /\ UNCHANGED <<cmd, len, prev>>

\* A store to GP0, by the CPU or by the DMA
gp0(word) ==
  /\ MaySend(word)
  /\ \/ gp0_handle_command(word)
     \/ gp0_handle_parameter(word)
     \/ gp0_handle_shaded_polyline_color(word)
     \/ gp0_handle_shaded_polyline_vertex(word)
     \/ gp0_handle_monochrome_polyline_vertex(word)
     \/ gp0_handle_image_load(word)
  /\ Sent(word)

\* GP1(0x01), also a part of GP1(0x00): the image buffer stays as it is
gp1_reset_command_buffer ==
  /\ len' = 0 /\ remaining' = 0 /\ handler' = "command"
  /\ owed' = 0 /\ pos' = 0
  /\ UNCHANGED <<cmd, image, prev, panic, sending, gen>>

----------------------------------------------------------------------------
(* The GPU looks for a command exactly when the program sends one: whatever
   the command, the size of the image, the length of the polyline or the
   point at which GP1 resets the port, no word of a command is taken for the
   beginning of another one (gp0_handle_command and the handlers 491-592,
   1129-1146).  While an image is loaded the words that are still expected
   are exactly those of the missing pixels (1105-1116), so that buffer()
   never hands the renderer pixels of an earlier image. *)
CommandsInStep ==
  /\ ~panic => (owed = 0) = (handler = "command")
  /\ handler = "image_load" =>
       /\ image.index + 2 * remaining - Pixels(image) \in {0, 1}
       /\ remaining > 0

(* A segment of a polyline starts where the one before it ended: while a
   polyline is open polyline_prev is the last vertex of this very polyline,
   never one a reset or an earlier command left behind (524-592, 803-825,
   923-949). *)
PolylineConnected ==
  /\ handler \in PolylineHandlers => prev[1] = gen
  /\ handler = "monochrome_polyline_vertex" => prev[2] = pos - 1
  /\ handler = "shaded_polyline_color" => prev[2] = pos - 1
  /\ handler = "shaded_polyline_vertex" => prev[2] = pos - 2

\* The handlers a savestate can name, and the image buffers it can load
SavedHandlers ==
  {"command", "parameter", "shaded_polyline_vertex", "shaded_polyline_color",
   "monochrome_polyline_vertex", "image_load"}
Loads(i) == i.index < VramSize

(* No callback reads a word the command does not have (the panic at 1627), no
   command overflows the command buffer, no image the image buffer; and a
   savestate taken between any two words can be loaded again: the handler is
   one that Gp0Handler names (1451-1459) and the image buffer is shorter than
   the VRAM, which Decodable (1895) insists on although an image may be as
   large as the VRAM. *)
NoPanic == TypeOK /\ ~panic /\ handler \in SavedHandlers /\ Loads(image)

=============================================================================

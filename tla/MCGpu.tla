------------------------------- MODULE MCGpu ---------------------------------
(* Small screens: lines of 5 or 4 ticks, frames of 5 or 7 lines, and 1.5 GPU
   ticks per CPU cycle, so that dates fall between two cycles.  Every opcode;
   polylines of up to MaxVertices words after their first segment, in which
   every word may be a marker; images of 0 pixels, of an odd and an even number
   of pixels and of the whole VRAM. *)
EXTENDS Gpu, TLC

SmallTimings == "Ntsc" :> [ticks |-> 5, lines |-> 5]
             @@ "Pal" :> [ticks |-> 4, lines |-> 7]

Middle == <<2, 4>>

\* A first line that is not the first of the frame, and a last line inside it:
\* single lines at both ends, the whole of the shorter frame, and between
Usual == {<<1, 2>>, <<1, 5>>, <<2, 4>>, <<4, 5>>}

Codes == INSTANCE Gp0Commands

Word(o, m, w, h) == [op |-> o, marker |-> m, w |-> w, h |-> h]
Sized(sizes) == {Word(0, FALSE, s[1], s[2]) : s \in sizes}

EveryWord ==
  {Word(o, FALSE, 1, 1) : o \in Codes!Opcodes} \cup {Word(88, TRUE, 1, 3)}
    \cup Sized({<<0, 3>>, <<3, 1>>, <<2, 2>>, <<2, 3>>})

\* Rectangles of every width, at positions around the alignment and the edge
\* of the VRAM, with heights around its height; coordinates with high bits set
SomeLefts == {0, 15, 16, 1007, 1008, 1023, 1024, 65535}
SomeTops == {0, 511, 512}
EveryWidth == 0 .. 2100
SomeHeights == {0, 1, 511, 512, 65535}
=============================================================================

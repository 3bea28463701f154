------------------------------ MODULE FillRect -------------------------------
(***************************************************************************)
(* GP0(0x02), fill rectangle (gp0_fill_rect of src/gpu/mod.rs): the        *)
(* position and the size of the command, as two 16 bit coordinates each,   *)
(* become the rectangle handed to the renderer.                            *)
(***************************************************************************)
EXTENDS Integers

CONSTANTS Lefts, Tops, Widths, Heights    \* coordinates the program sends

Coordinates == 0 .. 2^16 - 1
ASSUME FillRectAssumption ==
  Lefts \cup Tops \cup Widths \cup Heights \subseteq Coordinates

VramWidth == 1024
VramHeight == 512

\* n & 0x3f0, n & 0x1ff
Mask16(n) == ((n % 1024) \div 16) * 16
Mask9(n) == n % 512

FillWidth(n) == IF n % 2048 = 1024 THEN 0 ELSE Mask16((n % 2048) + 15)

Clip(n, max) == IF n > max THEN max ELSE n

\* Mutant: clipped before the position is added
gp0_fill_rect_clipped_first(x, y, w, h) ==
  [left |-> Mask16(x), top |-> Mask9(y),
   width |-> Clip(FillWidth(w), VramWidth),
   height |-> Clip(Mask9(h), VramHeight)]

gp0_fill_rect(x, y, w, h) ==
  LET left == Mask16(x)
      top == Mask9(y)
  IN [left |-> left, top |-> top,
      width |-> Clip(left + FillWidth(w), VramWidth) - left,
      height |-> Clip(top + Mask9(h), VramHeight) - top]

----------------------------------------------------------------------------
(* The renderer is never asked to fill outside of the VRAM, and the edges of
   what it fills are aligned to 16 pixels: the masks, the rounding and the
   two clips (707-741) compose, with no 16 bit subtraction below zero. *)
FillsInside ==
  \A x \in Lefts, y \in Tops, w \in Widths, h \in Heights :
    LET filled == gp0_fill_rect(x, y, w, h) IN
    /\ filled.width >= 0 /\ filled.height >= 0
    /\ filled.left + filled.width <= VramWidth
    /\ filled.top + filled.height <= VramHeight
    /\ filled.left % 16 = 0 /\ filled.width % 16 = 0
=============================================================================

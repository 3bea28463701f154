---------------------------- MODULE Gp0Commands ------------------------------
(***************************************************************************)
(* The GP0 commands of src/gpu/mod.rs: the length gp0_parse_command gives  *)
(* each opcode, the last word of the command buffer each callback reads,   *)
(* and, from the meaning of the bits of an opcode, the number of words a   *)
(* program sends.                                                          *)
(***************************************************************************)
EXTENDS Integers

BufferSize == 12

\* The opcodes of each callback and the length of their commands
Table ==
  [nop                       |-> [ops |-> {0},        len |-> 1],
   clear_cache               |-> [ops |-> {1},        len |-> 1],
   fill_rect                 |-> [ops |-> {2},        len |-> 3],
   monochrome_triangle       |-> [ops |-> {32, 34},   len |-> 4],
   textured_triangle         |-> [ops |-> 36 .. 39,   len |-> 7],
   monochrome_quad           |-> [ops |-> {40, 42},   len |-> 5],
   textured_quad             |-> [ops |-> 44 .. 47,   len |-> 9],
   shaded_triangle           |-> [ops |-> {48, 50},   len |-> 6],
   textured_shaded_triangle  |-> [ops |-> {52, 54},   len |-> 9],
   shaded_quad               |-> [ops |-> {56, 58},   len |-> 8],
   textured_shaded_quad      |-> [ops |-> {60, 62},   len |-> 12],
   monochrome_line           |-> [ops |-> {64, 66},   len |-> 3],
   monochrome_polyline       |-> [ops |-> {72, 74},   len |-> 3],
   shaded_line               |-> [ops |-> {80, 82},   len |-> 4],
   shaded_polyline           |-> [ops |-> {88, 90},   len |-> 4],
   monochrome_rect           |-> [ops |-> {96, 98},   len |-> 3],
   textured_rect             |-> [ops |-> 100 .. 103, len |-> 4],
   monochrome_rect_1x1       |-> [ops |-> {104, 106}, len |-> 2],
   textured_rect_8x8         |-> [ops |-> 116 .. 119, len |-> 3],
   monochrome_rect_16x16     |-> [ops |-> {120, 122}, len |-> 2],
   textured_rect_16x16       |-> [ops |-> 124 .. 127, len |-> 3],
   copy_rect                 |-> [ops |-> {128},      len |-> 4],
   image_load                |-> [ops |-> {160},      len |-> 3],
   image_store               |-> [ops |-> {192},      len |-> 3],
   draw_mode                 |-> [ops |-> {225},      len |-> 1],
   texture_window            |-> [ops |-> {226},      len |-> 1],
   drawing_area_top_left     |-> [ops |-> {227},      len |-> 1],
   drawing_area_bottom_right |-> [ops |-> {228},      len |-> 1],
   drawing_offset            |-> [ops |-> {229},      len |-> 1],
   mask_bit_setting          |-> [ops |-> {230},      len |-> 1]]

Callbacks == DOMAIN Table
Opcodes == UNION {Table[c].ops : c \in Callbacks}
CallbackOf(o) == CHOOSE c \in Callbacks : o \in Table[c].ops

\* Mutants: the length of a textured quad for a textured shaded one; a
\* polyline with a vertex too many before the marker is looked for
CommandLengthShort(o) ==
  IF CallbackOf(o) = "textured_shaded_quad" THEN 9 ELSE Table[CallbackOf(o)].len

CommandLength(o) == Table[CallbackOf(o)].len

\* The last word of the buffer read by the callbacks of rectangles copied or
\* filled, of polygons and lines, of rectangles, of images and of settings
BlockReads == [fill_rect |-> 2, copy_rect |-> 3]
FlatReads ==
  [monochrome_triangle |-> 3, monochrome_quad |-> 4,
   monochrome_line |-> 2, monochrome_polyline |-> 2,
   textured_triangle |-> 6, textured_quad |-> 8]
ShadedReads ==
  [shaded_triangle |-> 5, shaded_quad |-> 7, shaded_line |-> 3,
   shaded_polyline |-> 3, textured_shaded_triangle |-> 8,
   textured_shaded_quad |-> 11]
RectReads ==
  [monochrome_rect |-> 2, monochrome_rect_1x1 |-> 1,
   monochrome_rect_16x16 |-> 1, textured_rect |-> 3,
   textured_rect_8x8 |-> 2, textured_rect_16x16 |-> 2]
ImageReads == [image_load |-> 2, image_store |-> 2]
SettingReads ==
  [draw_mode |-> 0, texture_window |-> 0, drawing_area_top_left |-> 0,
   drawing_area_bottom_right |-> 0, drawing_offset |-> 0,
   mask_bit_setting |-> 0]

LastRead(o) ==
  LET c == CallbackOf(o) IN
  CASE c \in DOMAIN BlockReads -> BlockReads[c]
    [] c \in DOMAIN FlatReads -> FlatReads[c]
    [] c \in DOMAIN ShadedReads -> ShadedReads[c]
    [] c \in DOMAIN RectReads -> RectReads[c]
    [] c \in DOMAIN ImageReads -> ImageReads[c]
    [] c \in DOMAIN SettingReads -> SettingReads[c]
    [] OTHER -> -1     \* nop and clear_cache read nothing

----------------------------------------------------------------------------
\* The program's view of a command

Bit(o, n) == (o \div n) % 2
Shaded(o) == Bit(o, 16) = 1

\* Bit 4 gives a polygon or a line a color per vertex, bit 3 a polygon a
\* fourth vertex, bit 2 a polygon or a rectangle its texture; the size of a
\* rectangle follows when bits 3 and 4 are 0
ProgramLength(o) ==
  CASE o \div 32 = 1 ->
         LET vertices == 3 + Bit(o, 8)
         IN (IF Shaded(o) THEN vertices ELSE 1) + vertices * (1 + Bit(o, 4))
    [] o \div 32 = 2 -> IF Shaded(o) THEN 4 ELSE 3
    [] o \div 32 = 3 ->
         2 + Bit(o, 4) + (IF Bit(o, 8) + Bit(o, 16) = 0 THEN 1 ELSE 0)
    [] o = 128 -> 4                         \* source, destination and size
    [] o \in {2, 160, 192} -> 3             \* position and size
    [] OTHER -> 1

IsPolyline(o) == o \div 32 = 2 /\ Bit(o, 8) = 1
=============================================================================

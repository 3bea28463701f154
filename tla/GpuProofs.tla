------------------------------ MODULE GpuProofs ------------------------------
(***************************************************************************)
(* Proofs about the GPU: its command port, for every size of the VRAM,     *)
(* every image and every polyline; its beam, for every video timing, clock *)
(* ratio and vertical range inside the frame; and the rectangles it fills, *)
(* for all coordinates.                                                    *)
(***************************************************************************)
EXTENDS Gpu, TLAPS

----------------------------------------------------------------------------
\* The table of commands

\* No opcode belongs to two callbacks.
LEMMA CallbacksDisjoint ==
  \A c, d \in Port!Callbacks :
    c # d => Port!Table[c].ops \cap Port!Table[d].ops = {}
BY SMTT(200) DEF Port!Table, Port!Callbacks

\* The length in the table is the one the bits of the opcode call for.
LEMMA LengthsAgree ==
  \A c \in Port!Callbacks : \A o \in Port!Table[c].ops :
    Port!Table[c].len = Port!ProgramLength(o)
BY SMTT(200)
DEF Port!Table, Port!Callbacks, Port!ProgramLength, Port!Bit, Port!Shaded

\* The three callbacks that leave words to come after their command.
LEMMA OpenCallbacks ==
  \A c \in Port!Callbacks : \A o \in Port!Table[c].ops :
    /\ o \in Nat /\ Port!Table[c].len \in 1 .. Port!BufferSize
    /\ c = "image_load" <=> o = 160
    /\ c = "monochrome_polyline" <=> Port!IsPolyline(o) /\ ~Port!Shaded(o)
    /\ c = "shaded_polyline" <=> Port!IsPolyline(o) /\ Port!Shaded(o)
BY SMTT(200)
DEF Port!Table, Port!Callbacks, Port!IsPolyline, Port!Bit, Port!Shaded,
    Port!BufferSize

\* No callback reads a word its command does not have.
LEMMA ReadsInside ==
  \A c \in Port!Callbacks : \A o \in Port!Table[c].ops :
    Port!CallbackOf(o) = c => Port!LastRead(o) < Port!Table[c].len
BY SMTT(200)
DEF Port!Table, Port!Callbacks, Port!LastRead, Port!BlockReads, Port!FlatReads,
    Port!ShadedReads, Port!RectReads, Port!ImageReads, Port!SettingReads

\* What the port needs to know of an opcode.
LEMMA OpcodeLemma ==
  ASSUME NEW o \in Port!Opcodes
  PROVE  /\ o \in Nat /\ Port!CommandLength(o) \in 1 .. Port!BufferSize
         /\ Port!CommandLength(o) = Port!ProgramLength(o)
         /\ Port!LastRead(o) < Port!CommandLength(o)
         /\ Port!CallbackOf(o) = "image_load" <=> o = 160
         /\ Port!CallbackOf(o) = "monochrome_polyline" <=>
              Port!IsPolyline(o) /\ ~Port!Shaded(o)
         /\ Port!CallbackOf(o) = "shaded_polyline" <=>
              Port!IsPolyline(o) /\ Port!Shaded(o)
         /\ o = 160 => Port!CommandLength(o) = 3 /\ ~Port!IsPolyline(o)
         /\ Port!IsPolyline(o) =>
              Port!CommandLength(o) = IF Port!Shaded(o) THEN 4 ELSE 3
<1>1. PICK c \in Port!Callbacks : o \in Port!Table[c].ops
  BY Zenon DEF Port!Opcodes
<1>2. Port!CallbackOf(o) = c
  BY <1>1, CallbacksDisjoint, Zenon DEF Port!CallbackOf
<1>3. /\ Port!Table["image_load"].len = 3
      /\ Port!Table["monochrome_polyline"].len = 3
      /\ Port!Table["shaded_polyline"].len = 4
  BY Zenon DEF Port!Table
<1> QED
  BY <1>1, <1>2, <1>3, LengthsAgree, OpenCallbacks, ReadsInside
  DEF Port!CommandLength

----------------------------------------------------------------------------
\* The command port

\* The images of the program have room in the VRAM.
ImagesFit == \A word \in Words : word.w * word.h <= VramSize

(***************************************************************************)
(* What each handler expects is what the program is about to send.  A      *)
(* command is in the buffer up to the word the program has reached; of an  *)
(* image the words the program owes are missing; the last vertex of a      *)
(* polyline is one or two words back.                                      *)
(***************************************************************************)
InStep ==
  /\ handler = "command" => owed = 0
  /\ handler = "parameter" =>
       /\ sending = cmd /\ owed = remaining /\ remaining > 0
       /\ len = pos /\ len > 0 /\ len + remaining = Port!CommandLength(cmd)
  /\ handler = "image_load" => sending = -1 /\ owed = remaining
  /\ handler \in Port!PolylineHandlers =>
       owed = -1 /\ sending \in Port!Opcodes
  /\ handler = "monochrome_polyline_vertex" =>
       ~Port!Shaded(sending) /\ pos > 0 /\ prev = <<gen, pos - 1>>
  /\ handler = "shaded_polyline_color" =>
       /\ Port!Shaded(sending) /\ pos > 0 /\ pos % 2 = 0
       /\ prev = <<gen, pos - 1>>
  /\ handler = "shaded_polyline_vertex" =>
       /\ Port!Shaded(sending) /\ pos > 1 /\ pos % 2 = 1 /\ len = 1
       /\ prev = <<gen, pos - 2>>

(***************************************************************************)
(* The inductive invariant of the port.  The image buffer keeps the index  *)
(* of an image that a reset cut off.                                       *)
(***************************************************************************)
PortInv ==
  /\ Port!TypeOK
  /\ image.index % 2 = 0
  /\ image.index = 0 \/ image.index < Port!Pixels(image)
  /\ Port!Pixels(image) \in {word.w * word.h : word \in Words} \cup {0}
  /\ handler = "image_load" =>
       /\ remaining > 0
       /\ image.index + 2 * remaining - Port!Pixels(image) \in {0, 1}
  /\ panic => handler = "image_load" /\ ~ImagesFit
  /\ ~panic => InStep

\* The product of two naturals is one.
LEMMA ProductLemma == \A w, h \in Nat : w * h \in Nat
  OBVIOUS

\* A word of the program.
LEMMA WordLemma ==
  ASSUME NEW word \in Words
  PROVE  /\ word.op \in Port!Opcodes /\ word.marker \in BOOLEAN
         /\ word.w \in Nat /\ word.h \in Nat /\ word.w * word.h \in Nat
BY GpuAssumption, ProductLemma, Zenon

\* The vertex of the current word and its side of the program.
LEMMA VertexLemma ==
  ASSUME Port!TypeOK
  PROVE  /\ Port!Vertex \in {0, 1} \X Nat
         /\ owed # 0 => Port!Vertex = <<gen, pos>>
BY DEF Port!TypeOK, Port!Vertex

\* The end of a command, or one word more of it.
LEMMA PushLemma ==
  ASSUME PortInv, ~panic, NEW word \in Words, Port!Sent(word), owed # -1,
         NEW o \in Port!Opcodes, NEW n \in Nat, NEW r \in Nat \ {0},
         o = IF owed = 0 THEN word.op ELSE sending,
         r = IF owed = 0 THEN Port!CommandLength(o) ELSE owed,
         n = IF owed = 0 THEN 0 ELSE pos,
         n + r = Port!CommandLength(o), handler # "image_load",
         Port!Push(o, n, r, word)
  PROVE  PortInv'
<1>1. /\ Port!CommandLength(o) \in 1 .. Port!BufferSize
      /\ Port!CommandLength(o) = Port!ProgramLength(o) /\ o \in Nat
  BY OpcodeLemma, Zenon
<1>2. len' = n + 1 /\ cmd' = o /\ len' \in 0 .. Port!BufferSize /\ len' > 0
  BY <1>1 DEF Port!Push, Port!BufferSize
<1>3. r - 1 = IF owed = 0 THEN Port!ProgramLength(o) - 1 ELSE owed - 1
  BY <1>1, Zenon
<1>4. /\ owed' = Port!NextOwed(o, r - 1, word)
      /\ sending' = IF r - 1 = 0 /\ o = 160 THEN -1 ELSE o
      /\ pos' = IF owed = 0 THEN 1 ELSE pos + 1
      /\ gen' = IF owed = 0 THEN 1 - gen ELSE gen
      /\ pos' \in Nat /\ gen' \in {0, 1}
  <2>1. o # -1 /\ pos \in Nat /\ gen \in {0, 1}
    BY <1>1 DEF PortInv, Port!TypeOK
  <2>2. CASE owed = 0
    <3>1. word.op = o /\ Port!ProgramLength(o) - 1 = r - 1
      BY <1>3, <2>2, Zenon
    <3>2. /\ owed' = Port!NextOwed(word.op, Port!ProgramLength(word.op) - 1, word)
          /\ sending' = IF Port!ProgramLength(word.op) - 1 = 0 /\ word.op = 160
                        THEN -1 ELSE word.op
          /\ pos' = 1 /\ gen' = 1 - gen
      BY <2>2, Zenon DEF Port!Sent, Port!Open, Port!PixelData
    <3>3. /\ owed' = Port!NextOwed(o, r - 1, word)
          /\ sending' = IF r - 1 = 0 /\ o = 160 THEN -1 ELSE o
      BY <3>1, <3>2, Zenon
    <3> QED
      BY <2>1, <2>2, <3>2, <3>3
  <2>3. CASE owed # 0
    BY <1>3, <2>1, <2>3 DEF Port!Sent, Port!Open, Port!PixelData
  <2> QED
    BY <2>2, <2>3, Zenon
<1>5. pos' = len'
  BY <1>2, <1>4
<1>6. ASSUME r # 1 PROVE PortInv'
  <2>1. /\ handler' = "parameter" /\ remaining' = r - 1
        /\ UNCHANGED <<image, prev, panic>>
    BY <1>6, Zenon DEF Port!Push
  <2>2. owed' = r - 1 /\ sending' = o /\ r - 1 > 0
    BY <1>4, <1>6 DEF Port!NextOwed
  <2>3. panic' \in BOOLEAN /\ ~panic'
    BY <2>1, Zenon DEF PortInv, Port!TypeOK
  <2>4. Port!TypeOK'
    BY <1>2, <1>4, <2>1, <2>2, <2>3 DEF PortInv, Port!TypeOK, Port!Handlers
  <2>5. InStep'
    BY <1>2, <1>5, <2>1, <2>2 DEF InStep, Port!PolylineHandlers
  <2> QED
    BY <2>1, <2>3, <2>4, <2>5, Zenon DEF PortInv, Port!Pixels
<1>7. ASSUME r = 1 PROVE PortInv'
  <2>1. Port!Callback(o, n + 1, word) /\ n + 1 = Port!CommandLength(o)
    BY <1>1, <1>7, Zenon DEF Port!Push
  <2>2. /\ owed' = Port!NextOwed(o, 0, word) /\ sending' = IF o = 160 THEN -1 ELSE o
        /\ Port!LastRead(o) < n + 1
    BY <1>4, <1>7, <2>1, OpcodeLemma
  <2>3. ~(Port!LastRead(o) >= n + 1)
    <3>1. Port!LastRead(o) \in Int
      BY DEF Port!LastRead, Port!BlockReads, Port!FlatReads, Port!ShadedReads,
             Port!RectReads, Port!ImageReads, Port!SettingReads
    <3> QED
      BY <2>2, <3>1
  <2>4. CASE o = 160
    <3>1. Port!gp0_image_load(word)
      BY <2>1, <2>2, <2>3, <2>4, OpcodeLemma, Zenon DEF Port!Callback
    <3> DEFINE pixels == word.w * word.h
               words == (pixels + 1) \div 2
    <3>2. pixels \in Nat /\ words \in Nat /\ 2 * words - pixels \in {0, 1}
      BY WordLemma
    <3>3. /\ owed' = words /\ sending' = -1
      BY <1>1, <2>2, <2>4, OpcodeLemma DEF Port!NextOwed, Port!ImageWords
    <3>4. /\ remaining' = words /\ UNCHANGED <<prev, panic>>
          /\ IF words > 0
             THEN /\ handler' = "image_load"
                  /\ image' = [index |-> 0, w |-> word.w, h |-> word.h]
             ELSE handler' = "command" /\ UNCHANGED image
      BY <3>1, Zenon DEF Port!gp0_image_load
    <3>5. panic' \in BOOLEAN /\ ~panic'
      BY <3>4, Zenon DEF PortInv, Port!TypeOK
    <3>6. words > 0 => Port!Pixels(image') = pixels /\ image'.index = 0
      BY <3>4 DEF Port!Pixels
    <3>7. image' \in [index : Nat, w : Nat, h : Nat]
      BY <3>4, WordLemma DEF PortInv, Port!TypeOK
    <3> HIDE DEF words, pixels
    <3>8. Port!TypeOK'
      BY <1>2, <1>4, <3>2, <3>3, <3>4, <3>5, <3>7
      DEF PortInv, Port!TypeOK, Port!Handlers, Port!PixelData
    <3>9. InStep'
      BY <3>2, <3>3, <3>4 DEF InStep, Port!PolylineHandlers
    <3>10. CASE words > 0
      <4>1. Port!Pixels(image)' = pixels /\ image'.index = 0
        BY <3>6, <3>10, Zenon DEF Port!Pixels
      <4>2. pixels \in {w.w * w.h : w \in Words} \cup {0}
        BY Zenon DEF pixels
      <4>3. image'.index + 2 * remaining' - Port!Pixels(image)' \in {0, 1}
        BY <3>2, <3>4, <4>1
      <4> QED
        BY <3>4, <3>5, <3>8, <3>9, <3>10, <4>1, <4>2, <4>3 DEF PortInv
    <3>11. CASE ~(words > 0)
      BY <3>4, <3>5, <3>8, <3>9, <3>11, Zenon DEF PortInv, Port!Pixels
    <3> QED
      BY <3>10, <3>11, Zenon
  <2>5. CASE Port!IsPolyline(o)
    <3>1. o # 160
      BY <2>5, OpcodeLemma, Zenon
    <3>2. owed' = -1 /\ sending' = o
      BY <2>2, <2>5, <3>1 DEF Port!NextOwed, Port!Open
    <3>3. n + 1 = IF Port!Shaded(o) THEN 4 ELSE 3
      BY <2>1, <2>5, OpcodeLemma, Zenon
    <3>4. owed # 0 /\ pos' = n + 1 /\ gen' = gen /\ n = pos
      BY <1>4, <1>7, <3>3
    <3>5. /\ prev' = <<gen, pos>> /\ prev' \in {0, 1} \X Nat
          /\ handler' = IF Port!Shaded(o) THEN "shaded_polyline_color"
                        ELSE "monochrome_polyline_vertex"
          /\ remaining' = 0 /\ UNCHANGED <<image, panic>>
      <4>1. CASE Port!Shaded(o)
        <5>1. Port!gp0_shaded_polyline
          BY <2>1, <2>2, <2>3, <2>5, <4>1, OpcodeLemma, Zenon DEF
             Port!Callback
        <5> QED
          BY <3>4, <4>1, <5>1, VertexLemma, Zenon DEF
             Port!gp0_shaded_polyline, PortInv
      <4>2. CASE ~Port!Shaded(o)
        <5>1. Port!gp0_monochrome_polyline
          BY <2>1, <2>2, <2>3, <2>5, <4>2, OpcodeLemma, Zenon DEF
             Port!Callback
        <5> QED
          BY <3>4, <4>2, <5>1, VertexLemma, Zenon DEF
             Port!gp0_monochrome_polyline, PortInv
      <4> QED
        BY <4>1, <4>2, Zenon
    <3>6. panic' \in BOOLEAN /\ ~panic'
      BY <3>5, Zenon DEF PortInv, Port!TypeOK
    <3>7. Port!TypeOK'
      BY <1>2, <1>4, <3>2, <3>5, <3>6, Zenon DEF PortInv, Port!TypeOK,
         Port!Handlers, Port!PolylineHandlers, Port!Open
    <3>8. pos' > 0 /\ pos' - 1 = pos /\ (Port!Shaded(o) => pos' % 2 = 0)
      BY <3>3, <3>4
    <3>9. InStep'
      BY <3>2, <3>4, <3>5, <3>8, Zenon DEF InStep
    <3> QED
      BY <3>5, <3>6, <3>7, <3>9, Zenon DEF PortInv, Port!Pixels
  <2>6. CASE o # 160 /\ ~Port!IsPolyline(o)
    <3>1. owed' = 0 /\ sending' = o
      BY <2>2, <2>6, Zenon DEF Port!NextOwed
    <3>2. /\ handler' = "command" /\ remaining' = 0
          /\ UNCHANGED <<image, prev, panic>>
      BY <2>1, <2>2, <2>3, <2>6, OpcodeLemma, Zenon DEF Port!Callback
    <3>3. panic' \in BOOLEAN /\ ~panic'
      BY <3>2, Zenon DEF PortInv, Port!TypeOK
    <3>4. Port!TypeOK'
      BY <1>2, <1>4, <3>1, <3>2, <3>3 DEF PortInv, Port!TypeOK, Port!Handlers
    <3>5. InStep'
      BY <3>1, <3>2, Zenon DEF InStep, Port!PolylineHandlers
    <3> QED
      BY <3>2, <3>3, <3>4, <3>5, Zenon DEF PortInv, Port!Pixels
  <2> QED
    BY <2>4, <2>5, <2>6, Zenon
<1> QED
  BY <1>6, <1>7, Zenon

\* The words of a polyline after its first segment.
LEMMA PolylineLemma ==
  ASSUME PortInv, ~panic, NEW word \in Words, Port!Sent(word),
         handler \in Port!PolylineHandlers,
         \/ Port!gp0_handle_shaded_polyline_color(word)
         \/ Port!gp0_handle_shaded_polyline_vertex(word)
         \/ Port!gp0_handle_monochrome_polyline_vertex(word)
  PROVE  PortInv'
<1>1. owed = -1 /\ sending \in Port!Opcodes /\ pos \in Nat /\ gen \in {0, 1}
  BY Zenon DEF PortInv, InStep, Port!TypeOK
<1>2. /\ owed' = IF Port!AtVertex /\ word.marker THEN 0 ELSE -1
      /\ pos' = pos + 1 /\ UNCHANGED <<sending, gen>>
  BY <1>1, Zenon DEF Port!Sent, Port!Open
<1>3. Port!Vertex = <<gen, pos>>
  BY <1>1 DEF Port!Vertex
<1>4. CASE Port!gp0_handle_monochrome_polyline_vertex(word)
  <2>1. /\ handler = "monochrome_polyline_vertex"
        /\ IF word.marker
           THEN handler' = "command" /\ UNCHANGED prev
           ELSE prev' = <<gen, pos>> /\ UNCHANGED handler
        /\ UNCHANGED <<cmd, len, remaining, image, panic>>
    BY <1>3, <1>4, Zenon DEF Port!gp0_handle_monochrome_polyline_vertex
  <2>2. ~Port!Shaded(sending)
    BY <2>1, Zenon DEF PortInv, InStep
  <2>3. owed' = IF word.marker THEN 0 ELSE -1
    BY <1>2, <2>2, Zenon DEF Port!AtVertex
  <2>4. panic' \in BOOLEAN /\ ~panic'
    BY <2>1, Zenon DEF PortInv, Port!TypeOK
  <2>5. Port!TypeOK'
    BY <1>1, <1>2, <2>1, <2>3, <2>4
    DEF PortInv, Port!TypeOK, Port!Handlers, Port!PolylineHandlers, Port!Open
  <2>6. InStep'
    BY <1>1, <1>2, <2>1, <2>2, <2>3 DEF InStep, Port!PolylineHandlers
  <2>7. handler' # "image_load"
    BY <2>1, Zenon
  <2> QED
    BY <2>1, <2>4, <2>5, <2>6, <2>7, Zenon DEF PortInv, Port!Pixels
<1>5. CASE Port!gp0_handle_shaded_polyline_color(word)
  <2>1. /\ handler = "shaded_polyline_color"
        /\ IF word.marker
           THEN handler' = "command" /\ UNCHANGED len
           ELSE handler' = "shaded_polyline_vertex" /\ len' = 1
        /\ UNCHANGED <<cmd, remaining, image, prev, panic>>
    BY <1>5, Zenon DEF Port!gp0_handle_shaded_polyline_color
  <2>2. Port!Shaded(sending) /\ pos > 0 /\ pos % 2 = 0 /\ prev = <<gen, pos - 1>>
    BY <2>1, Zenon DEF PortInv, InStep
  <2>3. owed' = IF word.marker THEN 0 ELSE -1
    BY <1>2, <2>2, Zenon DEF Port!AtVertex
  <2>4. panic' \in BOOLEAN /\ ~panic'
    BY <2>1, Zenon DEF PortInv, Port!TypeOK
  <2>5. Port!TypeOK'
    BY <1>1, <1>2, <2>1, <2>3, <2>4
    DEF PortInv, Port!TypeOK, Port!Handlers, Port!PolylineHandlers, Port!Open,
        Port!BufferSize
  <2>6. pos' > 1 /\ pos' % 2 = 1 /\ pos' - 2 = pos - 1
    BY <1>1, <1>2, <2>2
  <2>7. InStep'
    BY <1>1, <1>2, <2>1, <2>2, <2>3, <2>6, Zenon DEF InStep,
       Port!PolylineHandlers
  <2>8. handler' # "image_load"
    BY <2>1, Zenon
  <2> QED
    BY <2>1, <2>4, <2>5, <2>7, <2>8, Zenon DEF PortInv, Port!Pixels
<1>6. CASE Port!gp0_handle_shaded_polyline_vertex(word)
  <2>1. /\ handler = "shaded_polyline_vertex"
        /\ prev' = <<gen, pos>> /\ handler' = "shaded_polyline_color"
        /\ UNCHANGED <<cmd, len, remaining, image>>
    BY <1>3, <1>6, Zenon DEF Port!gp0_handle_shaded_polyline_vertex
  <2>2. Port!Shaded(sending) /\ pos > 1 /\ pos % 2 = 1 /\ len = 1
    BY <2>1, Zenon DEF PortInv, InStep
  <2>3. owed' = -1
    BY <1>1, <1>2, <2>2 DEF Port!AtVertex
  <2>4. ~(len < 1)
    BY <2>2
  <2>5. panic' \in BOOLEAN /\ ~panic'
    BY <1>6, <2>4, Zenon DEF Port!gp0_handle_shaded_polyline_vertex
  <2>6. Port!TypeOK'
    BY <1>1, <1>2, <2>1, <2>3, <2>5
    DEF PortInv, Port!TypeOK, Port!Handlers, Port!PolylineHandlers, Port!Open
  <2>7. pos' > 0 /\ pos' % 2 = 0 /\ pos' - 1 = pos
    BY <1>1, <1>2, <2>2
  <2>8. InStep'
    BY <1>1, <1>2, <2>1, <2>2, <2>3, <2>7, Zenon DEF InStep,
       Port!PolylineHandlers
  <2> QED
    BY <2>1, <2>5, <2>6, <2>8, Zenon DEF PortInv, Port!Pixels
<1> QED
  BY <1>4, <1>5, <1>6, Zenon

\* Two pixels of an image.  The word that would not fit makes the emulator
\* panic; an image that has room has no such word.
LEMMA ImageLemma ==
  ASSUME PortInv, ~panic, NEW word \in Words, Port!Sent(word),
         Port!gp0_handle_image_load(word)
  PROVE  PortInv'
<1>1. /\ handler = "image_load" /\ UNCHANGED <<cmd, len, prev>>
      /\ sending = -1 /\ owed = remaining /\ remaining > 0 /\ remaining \in Nat
  BY Zenon DEF Port!gp0_handle_image_load, PortInv, InStep, Port!TypeOK
<1> DEFINE m == remaining - 1
<1>2. /\ owed' = m /\ sending' = -1
      /\ pos' \in Nat /\ gen' \in {0, 1}
  <2>1. owed # 0 /\ owed # -1 /\ owed - 1 = m /\ m \in Nat
    BY <1>1
  <2>2. /\ owed' = Port!NextOwed(-1, m, word)
        /\ sending' = IF m = 0 /\ -1 = 160 THEN -1 ELSE -1
        /\ pos' = 0 /\ gen' = gen
    BY <1>1, <2>1, Zenon DEF Port!Sent, Port!Open, Port!PixelData
  <2>3. -1 \notin Port!Opcodes
    <3>1. \A o \in Port!Opcodes : o \in Nat
      BY OpcodeLemma, Zenon
    <3> QED
      BY <3>1
  <2>4. Port!NextOwed(-1, m, word) = m
    BY <2>1, <2>3 DEF Port!NextOwed
  <2> QED
    BY <2>2, <2>4, Zenon DEF PortInv, Port!TypeOK
<1> DEFINE pixels == Port!Pixels(image)
<1>3. /\ image.index \in Nat /\ image.index % 2 = 0
      /\ image.index + 2 * remaining - pixels \in {0, 1}
      /\ pixels \in {w.w * w.h : w \in Words} \cup {0}
      /\ image \in [index : Nat, w : Nat, h : Nat]
  BY <1>1, Zenon DEF PortInv, Port!TypeOK
<1>4. pixels \in Nat
  BY <1>3, WordLemma
<1>5. VramSize \in Nat \ {0} /\ VramSize % 2 = 0
  BY GpuAssumption, Zenon
<1>6. CASE image.index + 1 >= VramSize
  <2>1. UNCHANGED <<handler, remaining, image>>
    BY <1>6, Zenon DEF Port!gp0_handle_image_load
  <2>2. panic' \in BOOLEAN /\ panic'
    BY <1>6, Zenon DEF Port!gp0_handle_image_load
  <2>3. pixels > VramSize
    <3> HIDE DEF pixels
    <3>1. image.index + 1 <= pixels
      BY <1>1, <1>3, <1>4
    <3>2. image.index + 1 # VramSize
      BY <1>3, <1>5
    <3> QED
      BY <1>3, <1>4, <1>5, <1>6, <3>1, <3>2
  <2>4. ~ImagesFit
    <3>1. pixels # 0
      BY <1>5, <2>3
    <3>2. PICK w \in Words : pixels = w.w * w.h
      BY <1>3, <3>1, Zenon
    <3>3. ~(pixels <= VramSize)
      BY <1>4, <1>5, <2>3
    <3> QED
      BY <3>2, <3>3, Zenon DEF ImagesFit
  <2>5. ~ImagesFit'
    BY <2>4, Zenon DEF ImagesFit
  <2>6. Port!TypeOK'
    BY <1>1, <1>2, <2>1, <2>2 DEF PortInv, Port!TypeOK, Port!PixelData
  <2> QED
    BY <1>1, <2>1, <2>2, <2>5, <2>6, Zenon DEF PortInv, Port!Pixels
<1>7. CASE ~(image.index + 1 >= VramSize)
  <2>1. /\ remaining' = m
        /\ IF remaining = 1
           THEN handler' = "command" /\ image' = Port!NoImage
           ELSE /\ image' = [image EXCEPT !.index = @ + 2]
                /\ UNCHANGED handler
        /\ UNCHANGED panic
    BY <1>7, Zenon DEF Port!gp0_handle_image_load
  <2>2. panic' \in BOOLEAN /\ ~panic'
    BY <2>1, Zenon DEF PortInv, Port!TypeOK
  <2>3. m \in Nat /\ (remaining = 1 <=> m = 0)
    BY <1>1
  <2>4. image' \in [index : Nat, w : Nat, h : Nat]
    BY <1>3, <2>1 DEF Port!NoImage
  <2>5. Port!TypeOK'
    BY <1>1, <1>2, <2>1, <2>2, <2>3, <2>4, Zenon DEF PortInv, Port!TypeOK,
       Port!PixelData, Port!Handlers
  <2>6. InStep'
    BY <1>1, <1>2, <2>1, <2>3, Zenon DEF InStep, Port!PolylineHandlers
  <2>7. CASE remaining = 1
    <3>1. handler' = "command" /\ image'.index = 0 /\ Port!Pixels(image)' = 0
      BY <2>1, <2>7 DEF Port!NoImage, Port!Pixels
    <3> QED
      BY <2>2, <2>5, <2>6, <3>1 DEF PortInv
  <2>8. CASE remaining # 1
    <3>1. /\ image'.index = image.index + 2 /\ image'.w = image.w
          /\ image'.h = image.h /\ handler' = "image_load"
      BY <1>1, <1>3, <2>1, <2>8, Zenon
    <3>2. Port!Pixels(image)' = pixels
      BY <3>1, Zenon DEF Port!Pixels
    <3> HIDE DEF pixels
    <3>3. /\ image'.index % 2 = 0 /\ image'.index < pixels /\ remaining' > 0
          /\ image'.index + 2 * remaining' - pixels \in {0, 1}
      BY <1>1, <1>3, <1>4, <2>1, <2>8, <3>1
    <3> QED
      BY <1>3, <2>2, <2>5, <2>6, <3>1, <3>2, <3>3, Zenon DEF PortInv
  <2> QED
    BY <2>7, <2>8, Zenon
<1> QED
  BY <1>6, <1>7, Zenon

\* A store to GP0.
LEMMA Gp0Lemma ==
  ASSUME PortInv, ~panic, NEW word \in Words, Port!gp0(word)
  PROVE  PortInv'
<1>1. Port!Sent(word) /\ word.op \in Port!Opcodes
  BY WordLemma, Zenon DEF Port!gp0
<1>2. CASE Port!gp0_handle_command(word)
  <2>1. /\ handler = "command" /\ owed = 0
        /\ Port!Push(word.op, 0, Port!CommandLength(word.op), word)
    BY <1>2, Zenon DEF Port!gp0_handle_command, PortInv, InStep
  <2>2. Port!CommandLength(word.op) \in Nat \ {0}
    BY <1>1, OpcodeLemma DEF Port!BufferSize
  <2>3. 0 + Port!CommandLength(word.op) = Port!CommandLength(word.op)
    BY <2>2
  <2> QED
    BY <1>1, <2>1, <2>2, <2>3, PushLemma
<1>3. CASE Port!gp0_handle_parameter(word)
  <2>1. handler = "parameter" /\ Port!Push(cmd, len, remaining, word)
    BY <1>3, Zenon DEF Port!gp0_handle_parameter
  <2>2. /\ sending = cmd /\ owed = remaining /\ remaining > 0 /\ len = pos
        /\ len + remaining = Port!CommandLength(cmd)
        /\ cmd \in Port!Opcodes /\ len \in Nat /\ remaining \in Nat
    BY <2>1, Zenon DEF PortInv, InStep, Port!TypeOK, Port!BufferSize
  <2>3. owed # 0 /\ owed # -1 /\ remaining \in Nat \ {0}
    BY <2>2
  <2> QED
    BY <1>1, <2>1, <2>2, <2>3, PushLemma, Zenon
<1>4. CASE \/ Port!gp0_handle_shaded_polyline_color(word)
           \/ Port!gp0_handle_shaded_polyline_vertex(word)
           \/ Port!gp0_handle_monochrome_polyline_vertex(word)
  <2>1. handler \in Port!PolylineHandlers
    BY <1>4, Zenon DEF Port!PolylineHandlers,
       Port!gp0_handle_shaded_polyline_color,
       Port!gp0_handle_shaded_polyline_vertex,
       Port!gp0_handle_monochrome_polyline_vertex
  <2> QED
    BY <1>1, <1>4, <2>1, PolylineLemma, Zenon
<1>5. CASE Port!gp0_handle_image_load(word)
  BY <1>1, <1>5, ImageLemma, Zenon
<1> QED
  BY <1>2, <1>3, <1>4, <1>5, Zenon DEF Port!gp0

\* A reset of the command buffer.
LEMMA ResetLemma ==
  ASSUME PortInv, ~panic, Port!gp1_reset_command_buffer
  PROVE  PortInv'
<1>1. /\ len' = 0 /\ remaining' = 0 /\ handler' = "command"
      /\ owed' = 0 /\ pos' = 0
      /\ UNCHANGED <<cmd, image, prev, sending, gen>>
  BY Zenon DEF Port!gp1_reset_command_buffer
<1>2. panic' \in BOOLEAN /\ ~panic'
  BY Zenon DEF Port!gp1_reset_command_buffer, PortInv, Port!TypeOK
<1>3. Port!TypeOK'
  BY <1>1, <1>2 DEF PortInv, Port!TypeOK, Port!Handlers, Port!BufferSize
<1>4. InStep'
  BY <1>1, Zenon DEF InStep, Port!PolylineHandlers
<1> QED
  BY <1>1, <1>2, <1>3, <1>4, Zenon DEF PortInv, Port!Pixels

\* The port is as the program takes it to be when it starts.
LEMMA PortInitLemma == ASSUME Port!Init PROVE PortInv
<1>1. /\ handler = "command" /\ cmd = 0 /\ len = 0 /\ remaining = 0
      /\ image = Port!NoImage /\ prev = <<0, 0>>
      /\ sending = 0 /\ owed = 0 /\ pos = 0 /\ gen = 0
  BY Zenon DEF Port!Init
<1>2. panic \in BOOLEAN /\ ~panic
  BY Zenon DEF Port!Init
<1>3. 0 \in Port!Opcodes
  <2>1. "nop" \in Port!Callbacks /\ 0 \in Port!Table["nop"].ops
    BY Zenon DEF Port!Callbacks, Port!Table
  <2> QED
    BY <2>1, Zenon DEF Port!Opcodes
<1>4. Port!TypeOK
  BY <1>1, <1>2, <1>3
  DEF Port!TypeOK, Port!Handlers, Port!BufferSize, Port!NoImage
<1>5. InStep
  BY <1>1, Zenon DEF InStep, Port!PolylineHandlers
<1>6. image.index = 0 /\ Port!Pixels(image) = 0
  BY <1>1 DEF Port!NoImage, Port!Pixels
<1> QED
  BY <1>1, <1>2, <1>4, <1>5, <1>6 DEF PortInv

----------------------------------------------------------------------------
\* The beam

BeamType ==
  [line : Nat, tick : Nat, phase : 0 .. Frac - 1,
   vmode : DOMAIN Timings, start : Nat, end : Nat,
   interlaced : BOOLEAN, field : Fields,
   vblank : BOOLEAN, istat : BOOLEAN, frame : {0, 1}]

Inside(g) == g.line <= Lines(g) /\ g.tick < Ticks(g)

\* A vertical range within the frames of all the video modes, after line 0
RangeInside(start, end) ==
  /\ 0 < start /\ start < end
  /\ \A m \in DOMAIN Timings : end <= Timings[m].lines

\* The program sets such ranges only.
RangesInside ==
  \A r \in Ranges \cup {ResetRange} : RangeInside(r[1], r[2])

(***************************************************************************)
(* The inductive invariant of the beam: a prediction was made from the     *)
(* state as it is.                                                         *)
(***************************************************************************)
BeamInv ==
  /\ gpu \in BeamType /\ Inside(gpu)
  /\ since \in Nat /\ due \in Nat /\ shown \in Fields \cup {"none"}
  /\ due # 0 => gpu.vblank = InVBlank(gpu) /\ due = Predict(gpu)
  /\ RangesInside => RangeInside(gpu.start, gpu.end)

\* Division by a positive number, compared with a bound.
LEMMA DivLess ==
  ASSUME NEW a \in Int, NEW d \in Nat \ {0}, NEW k \in Int
  PROVE  a \div d < k <=> a < k * d
<1> DEFINE q == a \div d
           r == a % d
<1>1. q \in Int /\ r \in 0 .. d - 1 /\ a = q * d + r
  OBVIOUS
<1> HIDE DEF q, r
<1>2. ASSUME q < k PROVE a < k * d
  <2>1. k - (q + 1) \in Nat
    BY <1>1, <1>2
  <2>2. (k - (q + 1)) * d \in Nat
    BY <2>1
  <2>3. (k - (q + 1)) * d = k * d - q * d - d
    BY <1>1
  <2>4. k * d \in Int /\ q * d \in Int
    BY <1>1
  <2> QED
    BY <1>1, <2>2, <2>3, <2>4
<1>3. ASSUME ~(q < k) PROVE ~(a < k * d)
  <2>1. q - k \in Nat
    BY <1>1, <1>3
  <2>2. (q - k) * d \in Nat
    BY <2>1
  <2>3. (q - k) * d = q * d - k * d
    BY <1>1
  <2>4. k * d \in Int /\ q * d \in Int
    BY <1>1
  <2> QED
    BY <1>1, <2>2, <2>3, <2>4
<1> QED
  BY <1>2, <1>3, Zenon DEF q

\* The lines the beam goes on in x units of 1/Frac GPU ticks.
LEMMA LinesLemma ==
  ASSUME NEW ticks \in Nat \ {0}, NEW frac \in Nat \ {0}, NEW tick \in Nat,
         NEW phase \in Nat, NEW x \in Nat, NEW k \in Int
  PROVE  (tick + (phase + x) \div frac) \div ticks < k
           <=> x < (k * ticks - tick) * frac - phase
<1> DEFINE b == (phase + x) \div frac
           m == k * ticks - tick
<1>1. b \in Nat /\ m \in Int
  OBVIOUS
<1>2. b < m <=> phase + x < m * frac
  BY <1>1, DivLess
<1>3. k * ticks \in Int
  OBVIOUS
<1>4. (tick + b) \div ticks < k <=> tick + b < k * ticks
  <2>1. tick + b \in Int
    BY <1>1
  <2> HIDE DEF b
  <2> QED
    BY <2>1, DivLess, Zenon
<1>5. m * frac \in Int
  BY <1>1
<1>6. tick + b < k * ticks <=> b < m
  <2> HIDE DEF b
  <2> DEFINE kt == k * ticks
  <2>1. m = kt - tick /\ kt \in Int
    BY <1>3, Zenon
  <2> HIDE DEF kt, m
  <2>2. tick + b < kt <=> b < m
    BY <1>1, <2>1
  <2> QED
    BY <2>2, Zenon DEF kt
<1>7. phase + x < m * frac <=> x < m * frac - phase
  <2> DEFINE mf == m * frac
  <2>1. mf \in Int
    BY <1>5, Zenon
  <2> HIDE DEF mf
  <2>2. phase + x < mf <=> x < mf - phase
    BY <2>1
  <2> QED
    BY <2>2, Zenon DEF mf
<1> QED
  BY <1>2, <1>4, <1>6, <1>7, Zenon

\* The beam after any time.
LEMMA SyncLemma ==
  ASSUME NEW g \in BeamType, NEW n \in Nat
  PROVE  /\ Sync(g, n) \in BeamType /\ Inside(Sync(g, n))
         /\ Sync(g, n).vblank = InVBlank(Sync(g, n))
         /\ Sync(g, n).start = g.start /\ Sync(g, n).end = g.end
         /\ Sync(g, n).vmode = g.vmode
<1> DEFINE time == g.phase + n * Ratio
           ticks == g.tick + time \div Frac
           line == g.line + ticks \div Ticks(g)
           new == line > Lines(g)
           a == Advance(g, n)
<1>1. /\ Ratio \in Nat \ {0} /\ Frac \in Nat \ {0}
      /\ Ticks(g) \in Nat \ {0} /\ Lines(g) \in Nat \ {0}
  BY GpuTimingAssumption, Zenon DEF BeamType, Ticks, Lines
<1>2. time \in Nat
  BY <1>1 DEF BeamType
<1>3. time % Frac \in 0 .. Frac - 1 /\ time \div Frac \in Nat
  BY <1>1, <1>2
<1>4. ticks \in Nat
  BY <1>3 DEF BeamType
<1>5. ticks % Ticks(g) \in 0 .. Ticks(g) - 1 /\ ticks \div Ticks(g) \in Nat
  BY <1>1, <1>4
<1>6. line \in Nat
  BY <1>5 DEF BeamType
<1>7. line % Lines(g) \in 0 .. Lines(g) - 1
  BY <1>1, <1>6
<1> DEFINE field == IF /\ new /\ g.interlaced
                       /\ (line \div Lines(g)) % 2 = 1
                    THEN OtherField(g.field) ELSE g.field
           down == IF new THEN line % Lines(g) ELSE line
           tick == ticks % Ticks(g)
           phase == time % Frac
<1>8. field \in Fields
  BY Zenon DEF BeamType, OtherField, Fields
<1>9. down \in Nat /\ down <= Lines(g)
  BY <1>1, <1>6, <1>7
<1>10. a = [g EXCEPT !.phase = phase, !.tick = tick, !.line = down,
                     !.field = field]
  BY Zenon DEF Advance
<1>11. phase \in 0 .. Frac - 1 /\ tick \in Nat /\ tick < Ticks(g)
  BY <1>1, <1>3, <1>5
<1> HIDE DEF time, ticks, line, new, field, down, tick, phase, a
<1>12. /\ a \in BeamType /\ a.line = down /\ a.tick = tick
       /\ a.vmode = g.vmode /\ a.start = g.start /\ a.end = g.end
  BY <1>8, <1>9, <1>11, <1>10, Zenon DEF BeamType
<1>13. Inside(a)
  BY <1>9, <1>11, <1>12, Zenon DEF Inside, Lines, Ticks
<1> DEFINE blank == InVBlank(a)
           istat == a.istat \/ (~a.vblank /\ blank)
           frame == IF a.vblank /\ ~blank THEN 1 - a.frame ELSE a.frame
           s == Sync(g, n)
<1>14. s = [a EXCEPT !.istat = istat, !.frame = frame, !.vblank = blank]
  BY Zenon DEF Sync, Edges, a
<1>15. blank \in BOOLEAN /\ istat \in BOOLEAN
  BY Zenon DEF InVBlank
<1>16. frame \in {0, 1}
  BY <1>12 DEF BeamType
<1> HIDE DEF istat, frame, s
<1>17. /\ s \in BeamType /\ s.line = a.line /\ s.tick = a.tick
       /\ s.vmode = a.vmode /\ s.start = a.start /\ s.end = a.end
       /\ s.vblank = InVBlank(a)
  BY <1>12, <1>14, <1>15, <1>16, Zenon DEF BeamType
<1>18. InVBlank(s) = InVBlank(a) /\ Inside(s)
  BY <1>13, <1>17, Zenon DEF InVBlank, Inside, Lines, Ticks
<1> QED
  BY <1>12, <1>17, <1>18, Zenon DEF s

\* Where the beam is after some time, and what it shows there.
LEMMA LineLemma ==
  ASSUME NEW g \in BeamType, NEW n \in Nat, NEW down,
         down = (g.tick + (g.phase + n * Ratio) \div Frac) \div Ticks(g)
  PROVE  Sync(g, n).vblank =
           LET line == IF g.line + down > Lines(g)
                       THEN (g.line + down) % Lines(g) ELSE g.line + down
           IN line < g.start \/ line >= g.end
<1> DEFINE a == Advance(g, n)
           line == IF g.line + down > Lines(g)
                   THEN (g.line + down) % Lines(g) ELSE g.line + down
<1>1. a.line = line /\ a.start = g.start /\ a.end = g.end
  BY Zenon DEF Advance, BeamType
<1>2. Sync(g, n).vblank = InVBlank(a)
  BY Zenon DEF Sync, Edges, Advance, BeamType
<1> QED
  BY <1>1, <1>2, Zenon DEF InVBlank

\* The predicted date, counted in lines: until then the beam goes on k - 1
\* lines at most, and for the length of an instruction it is k lines further.
LEMMA DateLemma ==
  ASSUME NEW g \in BeamType, Inside(g), NEW k \in Nat \ {0},
         LinesAhead(g) = k - 1
  PROVE  /\ Predict(g) \in Nat \ {0}
         /\ \A n \in 0 .. Predict(g) - 1 :
              (g.tick + (g.phase + n * Ratio) \div Frac) \div Ticks(g) \in 0 .. k - 1
         /\ \A n \in Predict(g) .. Predict(g) + MaxTick - 1 :
              (g.tick + (g.phase + n * Ratio) \div Frac) \div Ticks(g) = k
<1> DEFINE delta == (k * Ticks(g) - g.tick) * Frac - g.phase
           Down(n) == (g.tick + (g.phase + n * Ratio) \div Frac) \div Ticks(g)
<1>1. /\ Ratio \in Nat \ {0} /\ Frac \in Nat \ {0} /\ Ticks(g) \in Nat \ {0}
      /\ g.tick \in Nat /\ g.phase \in Nat /\ g.phase < Frac /\ g.tick < Ticks(g)
  BY GpuTimingAssumption DEF BeamType, Ticks, Inside
<1>2. \A n \in Nat : n * Ratio \in Nat
  BY <1>1
<1>3. \A n \in Nat : Down(n) \in Nat
  <2> TAKE n \in Nat
  <2>1. g.phase + n * Ratio \in Nat
    BY <1>1, <1>2
  <2> DEFINE x == g.phase + n * Ratio
  <2> HIDE DEF x
  <2>2. x \div Frac \in Nat
    BY <1>1, <2>1 DEF x
  <2>3. (g.tick + x \div Frac) \div Ticks(g) \in Nat
    BY <1>1, <2>2
  <2> QED
    BY <2>3, Zenon DEF x
<1>4. \A n \in Nat : Down(n) < k <=> n * Ratio < delta
  <2> TAKE n \in Nat
  <2> DEFINE x == n * Ratio
  <2>1. x \in Nat /\ k \in Int
    BY <1>2
  <2> HIDE DEF x
  <2>2. (g.tick + (g.phase + x) \div Frac) \div Ticks(g) < k
          <=> x < (k * Ticks(g) - g.tick) * Frac - g.phase
    BY <1>1, <2>1, LinesLemma, Zenon
  <2> QED
    BY <2>2, Zenon DEF x
<1>5. delta \in Int
  BY <1>1
<1>6. 0 < delta
  <2>1. k * Ticks(g) - g.tick \in Nat \ {0}
    <3>1. (k - 1) * Ticks(g) \in Nat /\ (k - 1) * Ticks(g) = k * Ticks(g) - Ticks(g)
      BY <1>1
    <3>2. k * Ticks(g) \in Nat
      BY <1>1
    <3> QED
      BY <1>1, <3>1, <3>2
  <2> DEFINE m == k * Ticks(g) - g.tick
  <2>2. m \in Nat \ {0}
    BY <2>1, Zenon
  <2> HIDE DEF m
  <2>3. (m - 1) * Frac \in Nat /\ (m - 1) * Frac = m * Frac - Frac
    BY <1>1, <2>2
  <2>4. m * Frac \in Nat
    BY <1>1, <2>2
  <2>5. 0 < m * Frac - g.phase
    BY <1>1, <2>3, <2>4
  <2> QED
    BY <2>5, Zenon DEF m
<1>7. Predict(g) = (delta + Ratio - 1) \div Ratio
  <2>1. Ticks(g) - g.tick + (k - 1) * Ticks(g) = k * Ticks(g) - g.tick
    BY <1>1
  <2>2. (Ticks(g) - g.tick + LinesAhead(g) * Ticks(g)) * Frac - g.phase = delta
    BY <2>1, Zenon
  <2>3. ~(delta < 0)
    BY <1>5, <1>6
  <2> HIDE DEF delta
  <2> QED
    BY <2>2, <2>3, Zenon DEF Predict
<1> DEFINE date == Predict(g)
<1>8. \A n \in Nat : n < date <=> n * Ratio < delta
  <2> TAKE n \in Nat
  <2> HIDE DEF delta
  <2>1. date \in Int
    BY <1>1, <1>5, <1>7
  <2>2. date < n + 1 <=> delta + Ratio - 1 < (n + 1) * Ratio
    <3>1. delta + Ratio - 1 \in Int /\ n + 1 \in Int
      BY <1>1, <1>5
    <3> DEFINE e == delta + Ratio - 1
    <3> HIDE DEF e
    <3>2. e \div Ratio < n + 1 <=> e < (n + 1) * Ratio
      BY <1>1, <3>1, DivLess, Zenon DEF e
    <3> QED
      BY <1>7, <3>2, Zenon DEF e
  <2>3. (n + 1) * Ratio = n * Ratio + Ratio /\ n * Ratio \in Nat
    BY <1>1
  <2> DEFINE nr == n * Ratio
  <2>4. nr \in Nat /\ (date < n + 1 <=> delta + Ratio - 1 < nr + Ratio)
    BY <2>2, <2>3, Zenon
  <2> HIDE DEF nr, date
  <2>5. n < date <=> nr < delta
    BY <1>1, <1>5, <2>1, <2>4
  <2> QED
    BY <2>5, Zenon DEF nr
<1>9. date \in Nat \ {0}
  <2>1. date \in Int
    BY <1>1, <1>5, <1>7
  <2>2. 0 * Ratio = 0
    BY <1>1
  <2>3. 0 < date
    BY <1>6, <1>8, <2>2, Zenon
  <2> QED
    BY <2>1, <2>3
<1> HIDE DEF date
<1>10. \A n \in 0 .. date - 1 : Down(n) \in 0 .. k - 1
  <2> TAKE n \in 0 .. date - 1
  <2>1. n \in Nat /\ n < date
    BY <1>9
  <2>2. Down(n) \in Nat /\ Down(n) < k
    BY <1>3, <1>4, <1>8, <2>1, Zenon
  <2> HIDE DEF Down
  <2> QED
    BY <2>2
<1>11. ASSUME NEW n \in date .. date + MaxTick - 1 PROVE Down(n) = k
  <2>0. MaxTick \in Nat \ {0} /\ n \in Nat /\ ~(n < date) /\ n - (date - 1) <= MaxTick
        /\ n - (date - 1) \in Nat
    BY <1>9, GpuTimingAssumption
  <2>1. ~(Down(n) < k)
    BY <1>4, <1>8, <2>0, Zenon
  <2>2. (date - 1) * Ratio < delta
    <3>1. date - 1 \in Nat /\ date - 1 < date
      BY <1>9
    <3> QED
      BY <1>8, <3>1, Zenon
  <2>3. n * Ratio = (date - 1) * Ratio + (n - (date - 1)) * Ratio
        /\ n * Ratio \in Nat
    BY <1>1, <1>9, <2>0
  <2>4. (n - (date - 1)) * Ratio <= Ticks(g) * Frac /\ Ticks(g) * Frac \in Nat
    <3>1. /\ MaxTick \in Nat \ {0} /\ MaxTick * Ratio <= Ticks(g) * Frac
          /\ Ticks(g) * Frac \in Nat
      BY <1>1, GpuTimingAssumption DEF BeamType, Ticks
    <3> DEFINE x == n - (date - 1)
    <3>2. x \in Nat /\ MaxTick - x \in Nat
      BY <2>0
    <3> HIDE DEF x
    <3>3. (MaxTick - x) * Ratio \in Nat
          /\ (MaxTick - x) * Ratio = MaxTick * Ratio - x * Ratio
          /\ MaxTick * Ratio \in Nat /\ x * Ratio \in Nat
      BY <1>1, <3>1, <3>2
    <3> DEFINE tf == Ticks(g) * Frac
               mr == MaxTick * Ratio
               xr == x * Ratio
    <3>4. tf \in Nat /\ mr \in Nat /\ xr \in Nat /\ mr <= tf /\ mr - xr \in Nat
      BY <3>1, <3>3, Zenon
    <3> HIDE DEF tf, mr, xr
    <3>5. xr <= tf
      BY <3>4
    <3> QED
      BY <3>4, <3>5, Zenon DEF tf, xr, x
  <2>5. ((k + 1) * Ticks(g) - g.tick) * Frac - g.phase = delta + Ticks(g) * Frac
    BY <1>1
  <2>6. Down(n) < k + 1 <=> n * Ratio < delta + Ticks(g) * Frac
    <3>1. Down(n) < k + 1 <=>
            n * Ratio < ((k + 1) * Ticks(g) - g.tick) * Frac - g.phase
      <4>1. k + 1 \in Int /\ n * Ratio \in Nat
        BY <2>3
      <4> QED
        BY <1>1, <4>1, LinesLemma, Zenon
    <3> HIDE DEF Down, delta
    <3> QED
      BY <2>5, <3>1, Zenon
  <2>7. n * Ratio < delta + Ticks(g) * Frac
    <3> DEFINE tf == Ticks(g) * Frac
               nr == n * Ratio
               dr == (date - 1) * Ratio
               xr == (n - (date - 1)) * Ratio
    <3>1. tf \in Nat /\ dr \in Int /\ xr \in Int /\ xr <= tf /\ nr = dr + xr /\ dr < delta
      BY <1>1, <1>9, <2>0, <2>2, <2>3, <2>4
    <3> HIDE DEF tf, dr, delta, xr, nr
    <3>2. nr < delta + tf
      BY <1>5, <3>1
    <3> QED
      BY <3>2, Zenon DEF tf, nr
  <2>8. Down(n) \in Nat
    BY <1>3, <2>0, Zenon
  <2> HIDE DEF Down
  <2> QED
    BY <2>1, <2>6, <2>7, <2>8
<1> QED
  BY <1>9, <1>10, <1>11, Zenon DEF date

\* Until the predicted date there is no edge of the blanking, and then there is.
LEMMA EdgeLemma ==
  ASSUME NEW g \in BeamType, Inside(g), RangeInside(g.start, g.end),
         g.vblank = InVBlank(g)
  PROVE  /\ \A n \in 0 .. Predict(g) - 1 : Sync(g, n).vblank = g.vblank
         /\ Sync(g, Predict(g)).vblank # g.vblank
<1> DEFINE Down(n) == (g.tick + (g.phase + n * Ratio) \div Frac) \div Ticks(g)
           k == LinesAhead(g) + 1
           Line(d) == IF g.line + d > Lines(g)
                      THEN (g.line + d) % Lines(g) ELSE g.line + d
           Blank(d) == Line(d) < g.start \/ Line(d) >= g.end
<1>1. /\ g.line \in Nat /\ g.start \in Nat /\ g.end \in Nat
      /\ Lines(g) \in Nat \ {0} /\ g.line <= Lines(g)
      /\ 0 < g.start /\ g.start < g.end /\ g.end <= Lines(g)
  BY GpuTimingAssumption, Zenon DEF BeamType, Inside, RangeInside, Lines
<1>2. /\ g.line >= g.end => k = Lines(g) - g.line + g.start
      /\ g.line < g.start => k = g.start - g.line
      /\ ~(g.line >= g.end) /\ ~(g.line < g.start) => k = g.end - g.line
  BY <1>1 DEF LinesAhead
<1>3. k \in Nat \ {0}
  BY <1>1, <1>2
<1>4. LinesAhead(g) = k - 1
  BY <1>1 DEF LinesAhead
<1> HIDE DEF k
<1>5. /\ Predict(g) \in Nat \ {0}
      /\ \A n \in 0 .. Predict(g) - 1 : Down(n) \in 0 .. k - 1
      /\ Down(Predict(g)) = k
  <2>1. /\ Predict(g) \in Nat \ {0}
        /\ \A n \in 0 .. Predict(g) - 1 : Down(n) \in 0 .. k - 1
        /\ \A n \in Predict(g) .. Predict(g) + MaxTick - 1 : Down(n) = k
    BY <1>3, <1>4, DateLemma, Zenon
  <2>2. Predict(g) \in Predict(g) .. Predict(g) + MaxTick - 1
    BY <2>1, GpuTimingAssumption
  <2> HIDE DEF Down
  <2> QED
    BY <2>1, <2>2, Zenon
<1>6. \A n \in Nat : Sync(g, n).vblank = Blank(Down(n))
  BY LineLemma, Zenon
<1>7. \A x \in Nat : x > Lines(g) /\ x < 2 * Lines(g) => x % Lines(g) = x - Lines(g)
  BY <1>1
<1>8. g.vblank = (g.line < g.start \/ g.line >= g.end)
  BY Zenon DEF InVBlank
<1> HIDE DEF Down
<1>9. \A d \in 0 .. k - 1 : Blank(d) <=> (g.line < g.start \/ g.line >= g.end)
  <2> TAKE d \in 0 .. k - 1
  <2>1. g.line + d \in Nat /\ d \in Nat /\ d < k
    BY <1>1, <1>3
  <2>2. CASE g.line >= g.end
    <3>1. g.line + d < Lines(g) + g.start
      BY <1>1, <1>2, <2>1, <2>2
    <3>2. CASE g.line + d > Lines(g)
      <4>1. Line(d) = g.line + d - Lines(g)
        BY <1>1, <1>7, <2>1, <3>1, <3>2
      <4> QED
        BY <1>1, <2>1, <2>2, <3>1, <4>1
    <3>3. CASE ~(g.line + d > Lines(g))
      BY <1>1, <2>1, <2>2, <3>3
    <3> QED
      BY <3>2, <3>3, Zenon
  <2>3. CASE ~(g.line >= g.end)
    <3>1. g.line + d <= Lines(g)
      BY <1>1, <1>2, <2>1, <2>3
    <3>2. Line(d) = g.line + d
      BY <1>1, <2>1, <3>1
    <3> QED
      BY <1>1, <1>2, <2>1, <2>3, <3>2
  <2> QED
    BY <2>2, <2>3, Zenon
<1>10. Blank(k) <=> ~(g.line < g.start \/ g.line >= g.end)
  <2>1. CASE g.line >= g.end
    <3>1. g.line + k = Lines(g) + g.start
      BY <1>1, <1>2, <2>1
    <3>2. Line(k) = g.start
      BY <1>1, <1>7, <3>1
    <3> QED
      BY <1>1, <2>1, <3>2
  <2>2. CASE ~(g.line >= g.end)
    <3>1. g.line + k = IF g.line < g.start THEN g.start ELSE g.end
      BY <1>1, <1>2, <2>2
    <3>2. Line(k) = g.line + k
      BY <1>1, <3>1
    <3> QED
      BY <1>1, <2>2, <3>1, <3>2
  <2> QED
    BY <2>1, <2>2, Zenon
<1> HIDE DEF Blank
<1>11. ASSUME NEW n \in 0 .. Predict(g) - 1 PROVE Sync(g, n).vblank = g.vblank
  <2>1. n \in Nat /\ Down(n) \in 0 .. k - 1
    BY <1>5
  <2>2. Sync(g, n).vblank = Blank(Down(n)) /\ Blank(Down(n)) \in BOOLEAN
    BY <1>6, <2>1, Zenon DEF Blank
  <2> QED
    BY <1>8, <1>9, <2>1, <2>2, Zenon
<1>12. Sync(g, Predict(g)).vblank # g.vblank
  <2>1. Sync(g, Predict(g)).vblank = Blank(k) /\ Blank(k) \in BOOLEAN
    BY <1>5, <1>6, Zenon DEF Blank
  <2> QED
    BY <1>8, <1>10, <2>1, Zenon
<1> QED
  BY <1>11, <1>12, Zenon

\* Any synchronisation leaves a prediction of its own.
LEMMA StoreLemma ==
  ASSUME NEW g \in BeamType, NEW n \in Nat,
         RangesInside => RangeInside(g.start, g.end),
         gpu' = Sync(g, n), since' = 0, due' = Predict(gpu'),
         shown' \in Fields \cup {"none"}
  PROVE  BeamInv'
<1>1. /\ gpu' \in BeamType /\ Inside(gpu') /\ gpu'.vblank = InVBlank(gpu')
      /\ gpu'.start = g.start /\ gpu'.end = g.end
  BY SyncLemma, Zenon
<1>2. Predict(gpu') \in Nat
  <2> DEFINE d == (Ticks(gpu') - gpu'.tick + LinesAhead(gpu') * Ticks(gpu')) * Frac
                    - gpu'.phase
  <2>1. /\ Ticks(gpu') \in Nat /\ Lines(gpu') \in Nat /\ gpu'.tick \in Nat
        /\ gpu'.phase \in Nat /\ gpu'.line \in Nat /\ gpu'.start \in Nat
        /\ gpu'.end \in Nat /\ Frac \in Nat /\ Ratio \in Nat \ {0} /\ Never \in Nat
    BY <1>1, GpuTimingAssumption DEF BeamType, Ticks, Lines
  <2>2. LinesAhead(gpu') \in Int
    BY <2>1 DEF LinesAhead
  <2>3. d \in Int
    BY <2>1, <2>2
  <2> HIDE DEF d
  <2>4. ~(d < 0) => (d + Ratio - 1) \div Ratio \in Nat
    BY <2>1, <2>3
  <2> QED
    BY <2>1, <2>4, Zenon DEF Predict, d
<1>3. (InVBlank(gpu) /\ TRUE)' = InVBlank(gpu') /\ Predict(gpu)' = Predict(gpu')
  BY Zenon DEF InVBlank, Predict, Ticks, LinesAhead, Lines
<1>4. (RangesInside => RangeInside(gpu.start, gpu.end))'
  BY <1>1, Zenon DEF RangesInside, RangeInside
<1> QED
  BY <1>1, <1>2, <1>3, <1>4, Zenon DEF BeamInv, Inside, InVBlank, Lines, Ticks

\* What the steps of either side do to the beam.
LEMMA BeamStep ==
  ASSUME BeamInv,
         \/ Watch \/ gp1_reset \/ UNCHANGED vars
         \/ \E r \in Ranges : gp1_display_vertical_range(r)
         \/ \E m \in DOMAIN Timings, i \in BOOLEAN : gp1_display_mode(m, i)
  PROVE  BeamInv'
<1>1. /\ gpu \in BeamType /\ Inside(gpu) /\ since \in Nat /\ due \in Nat
      /\ RangesInside => RangeInside(gpu.start, gpu.end)
      /\ shown \in Fields \cup {"none"}
  BY Zenon DEF BeamInv
<1>2. ASSUME SyncNow PROVE BeamInv'
  <2>1. gpu' \in BeamType
    BY <1>1, <1>2, SyncLemma, Zenon DEF SyncNow
  <2>2. shown' \in Fields \cup {"none"}
    BY <1>1, <1>2, <2>1, Zenon DEF SyncNow, BeamType
  <2> QED
    BY <1>1, <1>2, <2>2, StoreLemma, Zenon DEF SyncNow
<1>3. ASSUME NEW n \in 1 .. MaxTick, Tick(n) PROVE BeamInv'
  <2>1. n \in Nat
    BY GpuTimingAssumption
  <2>2. since' = since + n /\ UNCHANGED <<gpu, due, shown>>
    BY <1>3, Zenon DEF Tick
  <2>3. since' \in Nat
    BY <1>1, <2>1, <2>2
  <2> QED
    BY <2>2, <2>3, Zenon DEF BeamInv, Inside, InVBlank, Predict, LinesAhead,
       Lines, Ticks, RangesInside, RangeInside
<1>4. CASE AckVBlank
  <2>1. gpu' = [gpu EXCEPT !.istat = FALSE] /\ UNCHANGED <<since, due, shown>>
    BY <1>4, Zenon DEF AckVBlank
  <2>2. /\ gpu' \in BeamType /\ gpu'.line = gpu.line /\ gpu'.tick = gpu.tick
        /\ gpu'.phase = gpu.phase /\ gpu'.vmode = gpu.vmode
        /\ gpu'.start = gpu.start /\ gpu'.end = gpu.end
        /\ gpu'.vblank = gpu.vblank
    BY <1>1, <2>1, Zenon DEF BeamType
  <2> QED
    BY <2>1, <2>2, Zenon DEF BeamInv, Inside, InVBlank, Predict, LinesAhead,
       Lines, Ticks, RangesInside, RangeInside
<1> DEFINE s == Sync(gpu, since)
<1>5. /\ s \in BeamType
      /\ RangesInside => RangeInside(s.start, s.end)
  BY <1>1, SyncLemma, Zenon
<1> HIDE DEF s
<1>6. ASSUME NEW g \in BeamType, RangesInside => RangeInside(g.start, g.end),
             Store(g)
      PROVE  BeamInv'
  BY <1>6, StoreLemma, Zenon DEF Store
<1>7. ASSUME NEW r \in Ranges, gp1_display_vertical_range(r) PROVE BeamInv'
  <2> DEFINE g == [s EXCEPT !.start = r[1], !.end = r[2]]
  <2>1. r \in Nat \X Nat
    BY GpuTimingAssumption, Zenon
  <2>2. g \in BeamType /\ g.start = r[1] /\ g.end = r[2]
    BY <1>5, <2>1, Zenon DEF BeamType
  <2>3. RangesInside => RangeInside(g.start, g.end)
    BY <2>2, Zenon DEF RangesInside
  <2>4. Store(g)
    BY <1>7, Zenon DEF gp1_display_vertical_range, s
  <2> QED
    BY <1>6, <2>2, <2>3, <2>4, Zenon
<1>8. ASSUME NEW m \in DOMAIN Timings, NEW i \in BOOLEAN, gp1_display_mode(m, i)
      PROVE  BeamInv'
  <2> DEFINE g == [s EXCEPT !.vmode = m, !.interlaced = i, !.field = "Top"]
  <2>1. g \in BeamType /\ g.start = s.start /\ g.end = s.end
    BY <1>5, Zenon DEF BeamType, Fields
  <2>2. Store(g)
    BY <1>8, Zenon DEF gp1_display_mode, s
  <2> QED
    BY <1>5, <1>6, <2>1, <2>2, Zenon
<1>9. CASE gp1_reset
  <2> DEFINE g == [s EXCEPT !.vmode = "Ntsc", !.interlaced = TRUE, !.field = "Top",
                            !.line = 0, !.tick = 0,
                            !.start = ResetRange[1], !.end = ResetRange[2]]
  <2>1. ResetRange \in Nat \X Nat /\ "Ntsc" \in DOMAIN Timings
    BY GpuTimingAssumption, Zenon
  <2>2. g \in BeamType /\ g.start = ResetRange[1] /\ g.end = ResetRange[2]
    BY <1>5, <2>1, Zenon DEF BeamType, Fields
  <2>3. RangesInside => RangeInside(g.start, g.end)
    BY <2>2, Zenon DEF RangesInside
  <2>4. Store(g)
    BY <1>9, Zenon DEF gp1_reset, s
  <2> QED
    BY <1>6, <2>2, <2>3, <2>4, Zenon
<1>10. CASE UNCHANGED vars
  BY <1>10, Zenon DEF vars, BeamInv, Inside, InVBlank, Predict, LinesAhead,
     Lines, Ticks, RangesInside, RangeInside
<1> QED
  BY <1>2, <1>3, <1>4, <1>7, <1>8, <1>9, <1>10, Zenon DEF Watch, Run,
     ForcedSync, Access

----------------------------------------------------------------------------
\* The GPU

GpuInv == BeamInv /\ PortInv

\* Both invariants hold initially.
LEMMA GpuInitLemma == GpuInit => GpuInv
<1> SUFFICES ASSUME GpuInit PROVE GpuInv
  BY Zenon
<1>1. PortInv
  BY PortInitLemma, Zenon DEF GpuInit
<1>2. BeamInv
  <2>1. PICK r \in Ranges :
          gpu = [line |-> 0, tick |-> 0, phase |-> 0, vmode |-> "Ntsc",
                 start |-> r[1], end |-> r[2], interlaced |-> FALSE,
                 field |-> "Top", vblank |-> FALSE, istat |-> FALSE, frame |-> 0]
    BY Zenon DEF GpuInit, Init
  <2>2. r \in Nat \X Nat /\ "Ntsc" \in DOMAIN Timings /\ Frac \in Nat \ {0}
    BY GpuTimingAssumption, Zenon
  <2>3. /\ gpu \in BeamType /\ gpu.line = 0 /\ gpu.tick = 0
        /\ gpu.start = r[1] /\ gpu.end = r[2]
    BY <2>1, <2>2, SMTT(30) DEF BeamType, Fields
  <2>4. Lines(gpu) \in Nat \ {0} /\ Ticks(gpu) \in Nat \ {0}
    BY <2>3, GpuTimingAssumption, Zenon DEF BeamType, Lines, Ticks
  <2>5. Inside(gpu)
    BY <2>3, <2>4 DEF Inside
  <2>6. since = 0 /\ due = 0 /\ shown = "none"
    BY Zenon DEF GpuInit, Init
  <2>7. RangesInside => RangeInside(gpu.start, gpu.end)
    BY <2>3, Zenon DEF RangesInside
  <2> QED
    BY <2>3, <2>5, <2>6, <2>7, Zenon DEF BeamInv
<1> QED
  BY <1>1, <1>2, Zenon DEF GpuInv

\* Every step keeps them.
LEMMA GpuStepLemma == GpuInv /\ [GpuNext]_gpuVars => GpuInv'
<1> SUFFICES ASSUME GpuInv, [GpuNext]_gpuVars PROVE GpuInv'
  BY Zenon
<1>1. BeamInv /\ PortInv
  BY Zenon DEF GpuInv
<1>2. ASSUME UNCHANGED port PROVE PortInv'
  <2>1. Port!TypeOK'
    BY <1>1, <1>2, Zenon DEF PortInv, port, Port!TypeOK, Port!Handlers,
       Port!PolylineHandlers, Port!Opcodes, Port!Open, Port!PixelData,
       Port!BufferSize
  <2>2. InStep' = InStep /\ ImagesFit' = ImagesFit
    BY <1>2, Zenon DEF port, InStep, ImagesFit
  <2> QED
    BY <1>1, <1>2, <2>1, <2>2, Zenon DEF PortInv, port, Port!Pixels
<1>3. CASE Beam
  BY <1>1, <1>2, <1>3, BeamStep, Zenon DEF Beam, GpuInv
<1>4. CASE FirstSync
  <2>1. Watch
    BY <1>4, Zenon DEF FirstSync, Watch, Run
  <2> QED
    BY <1>1, <1>2, <1>4, <2>1, BeamStep, Zenon DEF FirstSync, GpuInv
<1>5. CASE ResetCommandBuffer
  <2>1. Watch /\ ~panic /\ Port!gp1_reset_command_buffer
    BY <1>5, Zenon DEF ResetCommandBuffer, Watch
  <2> QED
    BY <1>1, <2>1, BeamStep, ResetLemma, Zenon DEF GpuInv
<1>6. CASE SoftReset
  BY <1>1, <1>6, BeamStep, ResetLemma, Zenon DEF SoftReset, GpuInv
<1>7. ASSUME NEW r \in Ranges, ChangeRange(r) PROVE GpuInv'
  BY <1>1, <1>2, <1>7, BeamStep, Zenon DEF ChangeRange, GpuInv
<1>8. ASSUME NEW m \in DOMAIN Timings, NEW i \in BOOLEAN, ChangeMode(m, i)
      PROVE  GpuInv'
  BY <1>1, <1>2, <1>8, BeamStep, Zenon DEF ChangeMode, GpuInv
<1>9. ASSUME NEW word \in Words, StoreGp0(word) PROVE GpuInv'
  <2>1. Watch /\ ~panic /\ Port!gp0(word)
    BY <1>9, Zenon DEF StoreGp0, Watch
  <2> QED
    BY <1>1, <2>1, BeamStep, Gp0Lemma, Zenon DEF GpuInv
<1>10. CASE UNCHANGED gpuVars
  BY <1>1, <1>2, <1>10, BeamStep, Zenon DEF gpuVars, GpuInv
<1> QED
  BY <1>3, <1>4, <1>5, <1>6, <1>7, <1>8, <1>9, <1>10, Zenon DEF GpuNext

(***************************************************************************)
(* The forced synchronisation of the GPU falls on the next edge of the     *)
(* vertical blanking, for every video timing, every ratio of the clocks    *)
(* and every sequence of stores, as long as the program sets vertical      *)
(* ranges inside the frames.                                               *)
(***************************************************************************)
THEOREM EdgesPredicted == GpuSpec => [](RangesInside => PredictionExact)
<1>1. GpuInv => (RangesInside => PredictionExact)
  <2> SUFFICES ASSUME GpuInv, RangesInside PROVE PredictionExact
    BY Zenon
  <2>1. /\ gpu \in BeamType /\ Inside(gpu) /\ RangeInside(gpu.start, gpu.end)
        /\ since \in Nat /\ due \in Nat /\ shown \in Fields \cup {"none"}
        /\ due # 0 => gpu.vblank = InVBlank(gpu) /\ due = Predict(gpu)
    BY Zenon DEF GpuInv, BeamInv
  <2>2. TypeOK
    BY <2>1, Zenon DEF TypeOK, BeamType, Inside
  <2>3. CASE due = 0
    BY <2>2, <2>3, SMTT(30) DEF PredictionExact
  <2>4. CASE due # 0
    BY <2>1, <2>2, <2>4, EdgeLemma, Zenon DEF PredictionExact
  <2> QED
    BY <2>3, <2>4, Zenon
<1> QED BY <1>1, GpuInitLemma, GpuStepLemma, PTL DEF GpuSpec

(***************************************************************************)
(* Program and GPU agree on where commands begin, for every command, image *)
(* and polyline and wherever GP1 resets the port.                          *)
(***************************************************************************)
THEOREM PortInStep == GpuSpec => []CommandsInStep
<1>1. GpuInv => CommandsInStep
  <2> SUFFICES ASSUME PortInv PROVE CommandsInStep
    BY Zenon DEF GpuInv
  <2>1. ASSUME ~panic PROVE owed = 0 <=> handler = "command"
    BY <2>1 DEF PortInv, InStep, Port!TypeOK, Port!Handlers
  <2>2. handler = "image_load" =>
          /\ image.index + 2 * remaining - Port!Pixels(image) \in {0, 1}
          /\ remaining > 0
    BY Zenon DEF PortInv
  <2> QED
    BY <2>1, <2>2, Zenon DEF CommandsInStep, Port!CommandsInStep
<1> QED BY <1>1, GpuInitLemma, GpuStepLemma, PTL DEF GpuSpec

(***************************************************************************)
(* The segments of a polyline are connected, however long it is.           *)
(***************************************************************************)
THEOREM PolylinesConnected == GpuSpec => []PolylineConnected
<1>1. GpuInv => PolylineConnected
  <2> SUFFICES ASSUME PortInv PROVE PolylineConnected
    BY Zenon DEF GpuInv
  <2>1. CASE panic
    BY <2>1, Zenon DEF PortInv, PolylineConnected, Port!PolylineConnected,
       Port!PolylineHandlers
  <2>2. CASE ~panic
    BY <2>2 DEF PortInv, InStep, PolylineConnected, Port!PolylineConnected,
                Port!PolylineHandlers
  <2> QED
    BY <2>1, <2>2, Zenon
<1> QED BY <1>1, GpuInitLemma, GpuStepLemma, PTL DEF GpuSpec

(***************************************************************************)
(* The port does not panic, the command buffer has room for every command  *)
(* and a savestate can be loaded, for every size of the VRAM in which the  *)
(* images of the program have room.                                        *)
(***************************************************************************)
THEOREM PortNeverPanics == GpuSpec => [](ImagesFit => NoPanic)
<1>1. GpuInv => (ImagesFit => NoPanic)
  <2> SUFFICES ASSUME PortInv, ImagesFit PROVE NoPanic
    BY Zenon DEF GpuInv
  <2>1. Port!TypeOK /\ ~panic
    BY Zenon DEF PortInv
  <2>2. handler \in Port!SavedHandlers
    BY <2>1, Zenon DEF Port!TypeOK, Port!Handlers, Port!PolylineHandlers,
       Port!SavedHandlers
  <2>3. Port!Loads(image)
    <3>1. image.index \in Nat /\ VramSize \in Nat \ {0}
      BY <2>1, GpuAssumption, Zenon DEF Port!TypeOK
    <3>2. CASE image.index = 0
      BY <3>1, <3>2 DEF Port!Loads
    <3>3. CASE image.index # 0
      <4> DEFINE pixels == Port!Pixels(image)
      <4>1. /\ image.index < pixels
            /\ pixels \in {word.w * word.h : word \in Words} \cup {0}
        BY <3>3, Zenon DEF PortInv
      <4>2. pixels \in Nat
        BY <4>1, WordLemma
      <4>3. pixels <= VramSize
        BY <3>1, <4>1 DEF ImagesFit
      <4> HIDE DEF pixels
      <4> QED
        BY <3>1, <4>1, <4>2, <4>3 DEF Port!Loads
    <3> QED
      BY <3>2, <3>3, Zenon
  <2> QED
    BY <2>1, <2>2, <2>3, Zenon DEF NoPanic, Port!NoPanic
<1> QED BY <1>1, GpuInitLemma, GpuStepLemma, PTL DEF GpuSpec

\* What FillsInside says of a rectangle.
FitsVram(filled) ==
  /\ filled.width >= 0 /\ filled.height >= 0
  /\ filled.left + filled.width <= VramWidth
  /\ filled.top + filled.height <= VramHeight
  /\ filled.left % 16 = 0 /\ filled.width % 16 = 0

\* The rectangle of a fill command, for all positions and sizes.
LEMMA FillLemma ==
  ASSUME NEW x \in Nat, NEW y \in Nat, NEW w \in Nat, NEW h \in Nat
  PROVE  FitsVram(gp0_fill_rect(x, y, w, h))
<1> DEFINE filled == gp0_fill_rect(x, y, w, h)
<1>1. ASSUME NEW v \in Nat
      PROVE  /\ Mask16(v) \in 0 .. 1008 /\ Mask16(v) % 16 = 0
             /\ Mask9(v) \in 0 .. 511
  BY <1>1 DEF Mask16, Mask9
<1>2. FillWidth(w) \in 0 .. 1008 /\ FillWidth(w) % 16 = 0
  <2>1. (w % 2048) + 15 \in Nat
    OBVIOUS
  <2>2. Mask16((w % 2048) + 15) \in 0 .. 1008 /\ Mask16((w % 2048) + 15) % 16 = 0
    BY <1>1, <2>1, SMTT(30)
  <2> QED
    BY <2>2 DEF FillWidth
<1> DEFINE left == Mask16(x)
           top == Mask9(y)
           fill == FillWidth(w)
           down == Mask9(h)
           width == Clip(left + fill, VramWidth) - left
           height == Clip(top + down, VramHeight) - top
<1>3. /\ left \in 0 .. 1008 /\ left % 16 = 0 /\ top \in 0 .. 511
      /\ fill \in 0 .. 1008 /\ fill % 16 = 0 /\ down \in 0 .. 511
  BY <1>1, <1>2
<1>4. /\ filled.left = left /\ filled.top = top
      /\ filled.width = width /\ filled.height = height
  BY Zenon DEF gp0_fill_rect
<1> HIDE DEF left, top, fill, down, filled
<1>5. /\ width >= 0 /\ height >= 0 /\ left + width <= VramWidth
      /\ top + height <= VramHeight /\ width % 16 = 0
  BY <1>3 DEF Clip, VramWidth, VramHeight
<1> HIDE DEF width, height
<1>6. FitsVram(filled)
  BY <1>3, <1>4, <1>5, SMTT(30) DEF FitsVram
<1> QED
  BY <1>6, Zenon DEF filled

(***************************************************************************)
(* A filled rectangle is inside the VRAM and aligned, for all coordinates. *)
(***************************************************************************)
THEOREM FillsAlwaysInside == GpuSpec => []FillInsideVram
<1>1. FillsInside
  <2> SUFFICES ASSUME NEW x \in Lefts, NEW y \in Tops, NEW w \in Widths,
                      NEW h \in Heights
               PROVE  FitsVram(gp0_fill_rect(x, y, w, h))
    BY Zenon DEF FillsInside, FitsVram
  <2>1. \A v \in Coordinates : v \in Nat
    BY DEF Coordinates
  <2>2. x \in Nat /\ y \in Nat /\ w \in Nat /\ h \in Nat
    BY <2>1, FillRectAssumption, Zenon
  <2> QED
    BY <2>2, FillLemma, Zenon
<1>2. GpuInv => FillInsideVram
  BY <1>1, Zenon DEF FillInsideVram
<1> QED BY <1>2, GpuInitLemma, GpuStepLemma, PTL DEF GpuSpec

----------------------------------------------------------------------------
\* The fields

(***************************************************************************)
(* What relates the field to the one of the last frame: until the beam     *)
(* returns to the top they are the same, and then they are the same unless *)
(* the mode is interlaced.  The synchronisation comes no later than an     *)
(* instruction after the predicted date.                                   *)
(***************************************************************************)
FieldInv ==
  /\ IF due = 0 THEN since = 0 /\ shown = "none" ELSE since < due + MaxTick
  /\ shown # "none" =>
       IF gpu.line < gpu.start THEN (gpu.field # shown) = gpu.interlaced
                               ELSE gpu.field = shown

\* What a synchronisation does to the line, the field and the frame.
LEMMA FieldLemma ==
  ASSUME NEW g \in BeamType, NEW n \in Nat, NEW line,
         line = g.line + (g.tick + (g.phase + n * Ratio) \div Frac) \div Ticks(g)
  PROVE  /\ Sync(g, n).line = IF line > Lines(g) THEN line % Lines(g) ELSE line
         /\ Sync(g, n).field =
              IF line > Lines(g) /\ g.interlaced /\ (line \div Lines(g)) % 2 = 1
              THEN OtherField(g.field) ELSE g.field
         /\ Sync(g, n).interlaced = g.interlaced
         /\ Sync(g, n).frame # g.frame <=> g.vblank /\ ~InVBlank(Sync(g, n))
<1> DEFINE a == Advance(g, n)
           blank == InVBlank(a)
           s == Sync(g, n)
<1>1. /\ a.line = IF line > Lines(g) THEN line % Lines(g) ELSE line
      /\ a.field = IF line > Lines(g) /\ g.interlaced /\ (line \div Lines(g)) % 2 = 1
                   THEN OtherField(g.field) ELSE g.field
      /\ a.interlaced = g.interlaced /\ a.frame = g.frame /\ a.vblank = g.vblank
      /\ a.start = g.start /\ a.end = g.end
  BY Zenon DEF Advance, BeamType
<1>2. /\ s.line = a.line /\ s.field = a.field /\ s.interlaced = a.interlaced
      /\ s.start = a.start /\ s.end = a.end
      /\ s.frame = IF a.vblank /\ ~InVBlank(a) THEN 1 - a.frame ELSE a.frame
  BY Zenon DEF Sync, Edges, Advance, BeamType
<1> HIDE DEF a, s
<1>3. InVBlank(s) = InVBlank(a)
  BY <1>2, Zenon DEF InVBlank
<1>4. g.frame \in {0, 1}
  BY Zenon DEF BeamType
<1> HIDE DEF blank
<1>5. s.frame # g.frame <=> g.vblank /\ ~InVBlank(s)
  BY <1>1, <1>2, <1>3, <1>4
<1> QED BY <1>1, <1>2, <1>5, Zenon DEF s

\* How far the beam gets until it is synchronised: into the line of the next
\* edge of the blanking at most.
LEMMA StrideLemma ==
  ASSUME NEW g \in BeamType, Inside(g), RangeInside(g.start, g.end),
         NEW n \in 0 .. Predict(g) + MaxTick - 1
  PROVE  LET line == g.line + (g.tick + (g.phase + n * Ratio) \div Frac) \div Ticks(g)
         IN /\ line \in Nat /\ line >= g.line
            /\ line <= CASE g.line >= g.end -> Lines(g) + g.start
                         [] g.line < g.start -> g.start
                         [] OTHER -> g.end
<1> DEFINE Down(m) == (g.tick + (g.phase + m * Ratio) \div Frac) \div Ticks(g)
           k == LinesAhead(g) + 1
<1>1. /\ g.line \in Nat /\ g.start \in Nat /\ g.end \in Nat
      /\ Lines(g) \in Nat \ {0} /\ g.line <= Lines(g)
      /\ 0 < g.start /\ g.start < g.end /\ g.end <= Lines(g)
  BY GpuTimingAssumption, Zenon DEF BeamType, Inside, RangeInside, Lines
<1>2. /\ g.line >= g.end => k = Lines(g) - g.line + g.start
      /\ g.line < g.start => k = g.start - g.line
      /\ ~(g.line >= g.end) /\ ~(g.line < g.start) => k = g.end - g.line
  BY <1>1 DEF LinesAhead
<1>3. k \in Nat \ {0}
  BY <1>1, <1>2
<1>4. LinesAhead(g) = k - 1
  BY <1>1 DEF LinesAhead
<1> HIDE DEF k
<1>5. /\ Predict(g) \in Nat \ {0}
      /\ \A m \in 0 .. Predict(g) - 1 : Down(m) \in 0 .. k - 1
      /\ \A m \in Predict(g) .. Predict(g) + MaxTick - 1 : Down(m) = k
  BY <1>3, <1>4, DateLemma, Zenon
<1> DEFINE down == Down(n)
<1> HIDE DEF Down
<1>6. MaxTick \in Nat
  BY GpuTimingAssumption, Zenon
<1>7. n \in 0 .. Predict(g) - 1 \/ n \in Predict(g) .. Predict(g) + MaxTick - 1
  BY <1>5, <1>6
<1>8. down \in Nat /\ down <= k
  BY <1>3, <1>5, <1>7
<1> HIDE DEF down
<1>9. /\ g.line + down \in Nat /\ g.line + down >= g.line
      /\ g.line + down <= CASE g.line >= g.end -> Lines(g) + g.start
                            [] g.line < g.start -> g.start
                            [] OTHER -> g.end
  BY <1>1, <1>2, <1>3, <1>8
<1> QED BY <1>9, Zenon DEF down, Down

\* A synchronisation in time: the field is the other one if the beam returned
\* to the top and the mode is interlaced, and a frame starts at most once.
LEMMA TurnLemma ==
  ASSUME NEW g \in BeamType, Inside(g), RangeInside(g.start, g.end),
         g.vblank = InVBlank(g), NEW n \in 0 .. Predict(g) + MaxTick - 1,
         NEW s, s = Sync(g, n)
  PROVE  /\ s.interlaced = g.interlaced /\ s.start = g.start
         /\ s.field = IF g.line >= g.end /\ s.line <= s.start /\ g.interlaced
                      THEN OtherField(g.field) ELSE g.field
         /\ ~(g.line >= g.end) => s.line >= g.line
         /\ g.line < g.start => s.line <= s.start
         /\ g.line >= g.end /\ ~(s.line <= s.start) => s.line >= g.line
         /\ s.frame # g.frame <=> /\ s.line = s.start
                                  /\ g.line < g.start \/ g.line >= g.end
<1> DEFINE line == g.line + (g.tick + (g.phase + n * Ratio) \div Frac) \div Ticks(g)
<1>1. /\ g.line \in Nat /\ g.start \in Nat /\ g.end \in Nat
      /\ Lines(g) \in Nat \ {0} /\ g.line <= Lines(g)
      /\ 0 < g.start /\ g.start < g.end /\ g.end <= Lines(g)
  BY GpuTimingAssumption, Zenon DEF BeamType, Inside, RangeInside, Lines
<1>2. /\ line \in Nat /\ line >= g.line
      /\ line <= CASE g.line >= g.end -> Lines(g) + g.start
                   [] g.line < g.start -> g.start
                   [] OTHER -> g.end
  BY StrideLemma, Zenon
<1>0. n \in Nat
  OBVIOUS
<1>3. /\ s.line = IF line > Lines(g) THEN line % Lines(g) ELSE line
      /\ s.field = IF line > Lines(g) /\ g.interlaced /\ (line \div Lines(g)) % 2 = 1
                   THEN OtherField(g.field) ELSE g.field
      /\ s.interlaced = g.interlaced
      /\ s.frame # g.frame <=> g.vblank /\ ~InVBlank(s)
  BY <1>0, FieldLemma
<1>4. s.start = g.start /\ s.end = g.end
  BY <1>0, SyncLemma, Zenon
<1> HIDE DEF line
<1>5. line > Lines(g) => /\ line % Lines(g) = line - Lines(g)
                         /\ (line \div Lines(g)) % 2 = 1
  <2> SUFFICES ASSUME line > Lines(g)
               PROVE  line % Lines(g) = line - Lines(g) /\ (line \div Lines(g)) % 2 = 1
    BY Zenon
  <2>1. line - Lines(g) \in 0 .. Lines(g) - 1
    BY <1>1, <1>2
  <2>2. line \div Lines(g) = 1 /\ line % Lines(g) = line - Lines(g)
    BY <1>1, <1>2, <2>1
  <2> QED BY <2>2
<1>6. InVBlank(s) <=> s.line < g.start \/ s.line >= g.end
  BY <1>4, Zenon DEF InVBlank
<1>7. g.vblank <=> g.line < g.start \/ g.line >= g.end
  BY Zenon DEF InVBlank
<1>8. CASE line > Lines(g)
  <2>1. /\ s.line = line - Lines(g) /\ g.line >= g.end /\ s.line <= g.start
        /\ ~(g.line < g.start)
    BY <1>1, <1>2, <1>3, <1>5, <1>8
  <2>2. s.field = IF g.interlaced THEN OtherField(g.field) ELSE g.field
    BY <1>3, <1>5, <1>8, Zenon
  <2>3. s.frame # g.frame <=> s.line = g.start
    BY <1>1, <1>2, <1>3, <1>6, <1>7, <2>1
  <2> QED BY <1>3, <1>4, <2>1, <2>2, <2>3, Zenon
<1>9. CASE ~(line > Lines(g))
  <2>1. s.line = line /\ s.line >= g.line /\ s.field = g.field
    BY <1>1, <1>2, <1>3, <1>9, Zenon
  <2>2. /\ ~(g.line >= g.end /\ s.line <= s.start)
        /\ g.line < g.start => s.line <= s.start
    BY <1>1, <1>2, <1>4, <2>1
  <2>3. s.frame # g.frame <=> s.line = g.start /\ (g.line < g.start \/ g.line >= g.end)
    BY <1>1, <1>2, <1>3, <1>6, <1>7, <2>1
  <2> QED BY <1>3, <1>4, <2>1, <2>2, <2>3, Zenon
<1> QED BY <1>8, <1>9, Zenon

\* A prediction is in the future.
LEMMA PredictLater ==
  ASSUME NEW g \in BeamType, Inside(g), RangeInside(g.start, g.end)
  PROVE  Predict(g) \in Nat \ {0}
<1> DEFINE k == LinesAhead(g) + 1
<1>1. /\ g.line \in Nat /\ g.start \in Nat /\ g.end \in Nat
      /\ Lines(g) \in Nat \ {0} /\ g.line <= Lines(g)
      /\ 0 < g.start /\ g.start < g.end /\ g.end <= Lines(g)
  BY GpuTimingAssumption, Zenon DEF BeamType, Inside, RangeInside, Lines
<1>2. k \in Nat \ {0} /\ LinesAhead(g) = k - 1
  BY <1>1 DEF LinesAhead
<1> HIDE DEF k
<1> QED BY <1>2, DateLemma, Zenon

\* A step of the beam or of its registers.
BeamChange ==
  \/ Watch \/ gp1_reset \/ UNCHANGED vars
  \/ \E r \in Ranges : gp1_display_vertical_range(r)
  \/ \E m \in DOMAIN Timings, i \in BOOLEAN : gp1_display_mode(m, i)

\* Every step of the GPU is one of them.
LEMMA GpuChange == [GpuNext]_gpuVars => BeamChange
  BY Zenon DEF GpuNext, gpuVars, BeamChange, Beam, FirstSync,
     ResetCommandBuffer, SoftReset, ChangeRange, ChangeMode, StoreGp0, Watch, Run

\* The two fields.
LEMMA OtherLemma ==
  ASSUME NEW f \in Fields, NEW old \in Fields
  PROVE  OtherField(f) \in Fields /\ OtherField(f) # f /\ (OtherField(f) # old <=> f = old)
  BY Zenon DEF Fields, OtherField

\* A synchronisation in time keeps the relation, and the fields of the frames
\* alternate.
LEMMA FieldSync ==
  ASSUME BeamInv, FieldInv, RangesInside, SyncNow
  PROVE  /\ FieldInv'
         /\ gpu'.frame # gpu.frame /\ shown # "none" /\ shown' # "none"
              => (shown' # shown) = gpu.interlaced
<1> DEFINE s == Sync(gpu, since)
<1>1. /\ gpu \in BeamType /\ Inside(gpu) /\ since \in Nat /\ due \in Nat
      /\ RangeInside(gpu.start, gpu.end) /\ shown \in Fields \cup {"none"}
      /\ due # 0 => gpu.vblank = InVBlank(gpu) /\ due = Predict(gpu)
  BY Zenon DEF BeamInv
<1>2. /\ gpu' = s /\ since' = 0 /\ due' = Predict(gpu')
      /\ shown' = IF s.frame # gpu.frame THEN s.field ELSE shown
  BY Zenon DEF SyncNow
<1>3. /\ s \in BeamType /\ Inside(s) /\ s.vblank = InVBlank(s)
      /\ s.start = gpu.start /\ s.end = gpu.end
  BY <1>1, SyncLemma, Zenon
<1>4. RangeInside(s.start, s.end)
  BY <1>1, <1>3, Zenon
<1>5. Predict(s) \in Nat \ {0} /\ MaxTick \in Nat \ {0}
  BY <1>3, <1>4, PredictLater, GpuTimingAssumption, Zenon
<1>6. ASSUME s.frame # gpu.frame PROVE ~(s.line < s.start)
  <2> DEFINE line == gpu.line
                       + (gpu.tick + (gpu.phase + since * Ratio) \div Frac) \div Ticks(gpu)
  <2>1. ~InVBlank(s)
    BY <1>1, <1>6, FieldLemma, Zenon
  <2> QED BY <2>1, Zenon DEF InVBlank
<1>7. s.interlaced \in BOOLEAN /\ gpu.field \in Fields /\ s.field \in Fields
  BY <1>1, <1>3, Zenon DEF BeamType
<1>8. "none" \notin Fields
  BY Zenon DEF Fields
<1>9. CASE due = 0
  <2>1. shown = "none"
    BY <1>9, Zenon DEF FieldInv
  <2> HIDE DEF s
  <2>2. shown' # "none" => ~(s.line < s.start) /\ shown' = s.field
    BY <1>2, <1>6, <2>1, Zenon
  <2> QED BY <1>2, <1>5, <2>1, <2>2 DEF FieldInv
<1>10. CASE due # 0
  <2>1. since \in 0 .. Predict(gpu) + MaxTick - 1 /\ gpu.vblank = InVBlank(gpu)
    BY <1>1, <1>5, <1>10 DEF FieldInv
  <2>2. /\ s.interlaced = gpu.interlaced /\ s.start = gpu.start
        /\ s.field = IF gpu.line >= gpu.end /\ s.line <= s.start /\ gpu.interlaced
                     THEN OtherField(gpu.field) ELSE gpu.field
        /\ ~(gpu.line >= gpu.end) => s.line >= gpu.line
        /\ gpu.line < gpu.start => s.line <= s.start
        /\ gpu.line >= gpu.end /\ ~(s.line <= s.start) => s.line >= gpu.line
        /\ s.frame # gpu.frame <=> /\ s.line = s.start
                                   /\ gpu.line < gpu.start \/ gpu.line >= gpu.end
    BY <1>1, <2>1, TurnLemma
  <2>3. /\ gpu.line \in Nat /\ gpu.start \in Nat /\ gpu.end \in Nat
        /\ s.line \in Nat /\ gpu.start < gpu.end
    BY <1>1, <1>3, Zenon DEF BeamType, RangeInside
  <2>4. gpu.interlaced \in BOOLEAN
    BY <1>1, Zenon DEF BeamType
  <2>5. shown # "none" =>
          IF gpu.line < gpu.start THEN (gpu.field # shown) = gpu.interlaced
                                  ELSE gpu.field = shown
    BY Zenon DEF FieldInv
  <2> HIDE DEF s
  <2>6. ASSUME s.frame # gpu.frame
        PROVE  /\ shown' = s.field /\ ~(s.line < s.start)
               /\ shown # "none" => (shown' # shown) = gpu.interlaced
    <3>1. shown' = s.field /\ s.line = s.start
      BY <1>2, <2>2, <2>6, Zenon
    <3>2. CASE gpu.line < gpu.start
      BY <2>2, <2>3, <2>5, <3>1, <3>2
    <3>3. CASE gpu.line >= gpu.end
      <4>1. s.field = IF gpu.interlaced THEN OtherField(gpu.field) ELSE gpu.field
        BY <2>2, <2>3, <3>1, <3>3
      <4>2. shown # "none" => shown = gpu.field
        BY <2>3, <2>5, <3>3
      <4>3. shown # "none" => (s.field # shown) = gpu.interlaced
        BY <1>7, <2>4, <4>1, <4>2, OtherLemma, Zenon
      <4> QED BY <2>3, <3>1, <4>3
    <3> QED BY <2>2, <2>6, <3>2, <3>3, Zenon
  <2>7. ASSUME s.frame = gpu.frame, shown # "none"
        PROVE  IF s.line < s.start THEN (s.field # shown) = s.interlaced
                                   ELSE s.field = shown
    <3>1. CASE ~(gpu.line >= gpu.end)
      <4>1. s.field = gpu.field /\ s.line >= gpu.line
        BY <2>2, <3>1, Zenon
      <4>2. s.line < s.start <=> gpu.line < gpu.start
        BY <2>2, <2>3, <2>7, <3>1, <4>1
      <4> QED BY <2>2, <2>5, <2>7, <4>1, <4>2, Zenon
    <3>2. CASE gpu.line >= gpu.end
      <4>1. gpu.field = shown /\ ~(s.line = s.start)
        BY <2>2, <2>3, <2>5, <2>7, <3>2
      <4>2. CASE s.line <= s.start
        <5>1. s.line < s.start
          BY <2>2, <2>3, <4>1, <4>2
        <5>2. s.field = IF gpu.interlaced THEN OtherField(gpu.field) ELSE gpu.field
          BY <2>2, <3>2, <4>2, Zenon
        <5>3. (s.field # shown) = gpu.interlaced
          BY <1>7, <2>4, <4>1, <5>2, OtherLemma, Zenon
        <5> QED BY <2>2, <5>1, <5>3, Zenon
      <4>3. CASE ~(s.line <= s.start)
        BY <2>2, <2>3, <3>2, <4>1, <4>3
      <4> QED BY <4>2, <4>3, Zenon
    <3> QED BY <3>1, <3>2, Zenon
  <2>8. shown' # "none" => IF s.line < s.start THEN (s.field # shown') = s.interlaced
                                              ELSE s.field = shown'
    BY <1>2, <2>6, <2>7, Zenon
  <2> QED BY <1>2, <1>5, <2>6, <2>8 DEF FieldInv
<1> QED BY <1>9, <1>10, Zenon

\* Every step keeps the relation between the fields, and they alternate.
LEMMA FieldStep ==
  ASSUME BeamInv, FieldInv, RangesInside, BeamChange
  PROVE  /\ FieldInv'
         /\ gpu'.frame # gpu.frame /\ shown # "none" /\ shown' # "none"
              => (shown' # shown) = gpu.interlaced
<1>1. /\ gpu \in BeamType /\ since \in Nat /\ due \in Nat
      /\ MaxTick \in Nat \ {0}
  BY GpuTimingAssumption, Zenon DEF BeamInv
<1>2. CASE SyncNow
  BY <1>2, FieldSync, Zenon
<1>3. ASSUME NEW n \in 1 .. MaxTick, Tick(n)
      PROVE  FieldInv' /\ gpu' = gpu
  <2>1. since' = since + n /\ since < due /\ UNCHANGED <<gpu, due, shown>>
    BY <1>3, Zenon DEF Tick
  <2> QED BY <1>1, <2>1 DEF FieldInv
<1>4. CASE AckVBlank
  <2>1. gpu' = [gpu EXCEPT !.istat = FALSE] /\ UNCHANGED <<since, due, shown>>
    BY <1>4, Zenon DEF AckVBlank
  <2>2. /\ gpu'.line = gpu.line /\ gpu'.start = gpu.start /\ gpu'.frame = gpu.frame
        /\ gpu'.field = gpu.field /\ gpu'.interlaced = gpu.interlaced
    BY <1>1, <2>1, Zenon DEF BeamType
  <2> QED BY <2>1, <2>2, Zenon DEF FieldInv
<1>5. BeamInv'
  BY BeamStep, Zenon DEF BeamChange
<1>6. ASSUME NEW g, Store(g) PROVE FieldInv' /\ shown' = "none"
  <2>1. since' = 0 /\ shown' = "none"
    BY <1>6, Zenon DEF Store
  <2>2. due' \in Nat
    BY <1>5, Zenon DEF BeamInv
  <2>3. ASSUME NEW d \in Nat PROVE 0 < d + MaxTick
    BY <1>1
  <2>4. since' < due' + MaxTick
    BY <2>1, <2>2, <2>3, Zenon
  <2> QED BY <2>1, <2>4, Zenon DEF FieldInv
<1>7. CASE UNCHANGED vars
  BY <1>7, Zenon DEF vars, FieldInv
<1>8. CASE \/ gp1_reset
           \/ \E r \in Ranges : gp1_display_vertical_range(r)
           \/ \E m \in DOMAIN Timings, i \in BOOLEAN : gp1_display_mode(m, i)
  BY <1>6, <1>8, Zenon DEF gp1_reset, gp1_display_vertical_range,
     gp1_display_mode
<1>9. CASE Watch
  BY <1>2, <1>3, <1>4, <1>9, Zenon DEF Watch, Run, ForcedSync, Access
<1>10. UNCHANGED vars => gpu' = gpu
  BY Zenon DEF vars
<1> QED BY <1>7, <1>8, <1>9, <1>10, Zenon DEF BeamChange

(***************************************************************************)
(* In an interlaced mode that the program leaves alone the fields of       *)
(* consecutive frames alternate, and in a progressive one they do not      *)
(* change: Gpu::sync toggles the field exactly once between two ends of    *)
(* the blanking, for all timings, clock ratios and instruction times and   *)
(* whenever the program reads the GPU, for vertical ranges inside the      *)
(* frames.                                                                 *)
(***************************************************************************)
THEOREM FieldsAlwaysAlternate ==
  ASSUME RangesInside
  PROVE  GpuSpec => FieldsAlternate
<1>1. GpuInit => FieldInv
  BY Zenon DEF GpuInit, Init, FieldInv
<1>2. GpuInv /\ FieldInv /\ [GpuNext]_gpuVars => FieldInv'
  BY GpuChange, FieldStep, Zenon DEF GpuInv
<1>3. GpuInv /\ FieldInv /\ [GpuNext]_gpuVars =>
        [gpu'.frame # gpu.frame /\ shown # "none" /\ shown' # "none"
           => (shown' # shown) = gpu.interlaced]_gpuVars
  BY GpuChange, FieldStep, Zenon DEF GpuInv
<1> QED
  BY <1>1, <1>2, <1>3, GpuInitLemma, GpuStepLemma, PTL DEF GpuSpec, FieldsAlternate
=============================================================================

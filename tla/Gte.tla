-------------------------------- MODULE Gte ---------------------------------
(***************************************************************************)
(* The geometry engine (src/cpu/gte/mod.rs): its registers, their reads    *)
(* and writes by the CPU, and its commands with their overflow flags.      *)
(*                                                                         *)
(* The accumulators of the code have 44 bits, more than the integers of    *)
(* TLC, so the widths are constants.  The code has Half = 16, Byte = 8,    *)
(* Frac = 12, Coord = 11 and Irgb = 5; an instance must keep the relations *)
(* between them that the code relies on.  Every conversion truncates,      *)
(* wraps or saturates at the width the code gives it.                      *)
(***************************************************************************)
EXTENDS Integers, Sequences

CONSTANTS Half,           \* bits of a vector component
          Byte,           \* bits of a colour component
          Frac,           \* fractional bits of the matrices
          Coord,          \* bits of a screen coordinate
          Irgb,           \* bits of a component of the packed colour
          Registers,      \* contents of the registers to start from
          Commands,       \* <<command, configuration>> to run
          Writes,         \* <<"data" or "control", register, word>> to write
          MaxSteps        \* bound on the number of commands and writes

Word == 2 * Half
Acc == Word + Frac
ColShift == Frac - Byte

ASSUME Widths ==
  /\ {Half, Byte, Frac, Coord, Irgb, MaxSteps} \subseteq Nat
  /\ 4 * Byte = Word          \* four colour bytes in a word
  /\ Byte < Frac /\ Frac < Half /\ Coord < Half
  /\ Irgb < Frac /\ 3 * Irgb <= Half

VARIABLES g,      \* the registers
          last,   \* history: the command or write that was run last
          steps,  \* number of commands and writes
          panic   \* the emulator has stopped

vars == <<g, last, steps, panic>>

----------------------------------------------------------------------------
(* Conversions *)
One == 2^Frac
MaxOf(n) == 2^(n - 1) - 1
MinOf(n) == -(2^(n - 1))
Unsigned(n, x) == x % 2^n
Signed(n, x) == Unsigned(n, x + 2^(n - 1)) - 2^(n - 1)
Shr(x, n) == x \div 2^n

Clamp(lo, hi, x) == IF x < lo THEN lo ELSE IF x > hi THEN hi ELSE x
\* The flag that the clamping of x raises
Outside(lo, hi, x, bit) == IF x < lo \/ x > hi THEN {bit} ELSE {}

\* i64_to_i44 and its flags, for MAC i
ToAcc(x) == Signed(Acc, x)

AccFlags(i, x) ==
  IF x > MaxOf(Acc) THEN {31 - i}
  ELSE IF x < MinOf(Acc) THEN {28 - i} ELSE {}

\* check_mac_overflow
MacFlags(x) ==
  IF x < MinOf(Word) THEN {15} ELSE IF x > MaxOf(Word) THEN {16} ELSE {}

IrMin(lm) == IF lm THEN 0 ELSE MinOf(Half)
\* i32_to_i16_saturate and its flag, for IR i
ToIr(lm, x) == Clamp(IrMin(lm), MaxOf(Half), x)

\* Mutant: the clamping of negative values is not noticed
IrFlagsSigned(lm, i, x) == Outside(MinOf(Half), MaxOf(Half), x, 25 - i)

IrFlags(lm, i, x) == Outside(IrMin(lm), MaxOf(Half), x, 25 - i)

ShiftOf(c) == IF c.sf THEN Frac ELSE 0
\* (x >> config.shift) as i32
ToMac(c, x) == Signed(Word, Shr(x, ShiftOf(c)))

----------------------------------------------------------------------------
(* Registers *)
Rotation == 1
Light == 2
Color == 3
Invalid == 4

Translation == 1
BackgroundColor == 2
FarColor == 3
Zero == 4

\* bits [30:23] and [18:13]
ErrorBits == 23 .. 30 \cup 13 .. 18
Summary(bits) == IF bits \cap ErrorBits # {} THEN {31} ELSE {}

Halves(lo, hi) == Unsigned(Half, lo) + 2^Half * Unsigned(Half, hi)
Low(w) == Signed(Half, w)
High(w) == Signed(Half, Shr(w, Half))
Extended(x) == Unsigned(Word, x)
FromRgbx(q) == q[1] + q[2] * 2^Byte + q[3] * 2^(2 * Byte) + q[4] * 2^(3 * Byte)
ToRgbx(w) == [k \in 1 .. 4 |-> Unsigned(Byte, Shr(w, (k - 1) * Byte))]

\* Element e of a matrix, by rows
Elem(m, e) == m[e \div 3 + 1][(e % 3) + 1]
WithElem(m, e, x) == [m EXCEPT ![e \div 3 + 1][(e % 3) + 1] = x]

\* The flags, register 31, are read as a set
Control(s, reg) ==
  LET m == s.matrices[reg \div 8 + 1]
      k == reg % 8
  IN IF reg < 24
       THEN IF k < 4 THEN Halves(Elem(m, 2 * k), Elem(m, 2 * k + 1))
            ELSE IF k = 4 THEN Extended(Elem(m, 8))
            ELSE Extended(s.control_vectors[reg \div 8 + 1][k - 4])
       ELSE Extended(CASE reg = 24 -> s.ofx
                       [] reg = 25 -> s.ofy
                       [] reg = 26 -> Signed(Half, s.h)
                       [] reg = 27 -> s.dqa
                       [] reg = 28 -> s.dqb
                       [] reg = 29 -> s.zsf3
                       [] reg = 30 -> s.zsf4)

SetControl(s, reg, w) ==
  LET m == reg \div 8 + 1
      k == reg % 8
  IN CASE reg < 24 /\ k < 4 ->
            [s EXCEPT !.matrices[m] =
               WithElem(WithElem(@, 2 * k, Low(w)), 2 * k + 1, High(w))]
       [] reg < 24 /\ k = 4 -> [s EXCEPT !.matrices[m] = WithElem(@, 8, Low(w))]
       [] reg < 24 /\ k > 4 ->
            [s EXCEPT !.control_vectors[m][k - 4] = Signed(Word, w)]
       [] reg = 24 -> [s EXCEPT !.ofx = Signed(Word, w)]
       [] reg = 25 -> [s EXCEPT !.ofy = Signed(Word, w)]
       [] reg = 26 -> [s EXCEPT !.h = Unsigned(Half, w)]
       [] reg = 27 -> [s EXCEPT !.dqa = Low(w)]
       [] reg = 28 -> [s EXCEPT !.dqb = Signed(Word, w)]
       [] reg = 29 -> [s EXCEPT !.zsf3 = Low(w)]
       [] reg = 30 -> [s EXCEPT !.zsf4 = Low(w)]

\* Register 31: the mask keeps bits [26:8], the summary is that of all bits
SetFlags(s, bits) ==
  [s EXCEPT !.flags = (bits \cap 8 .. 26) \cup Summary(bits)]

\* IR 1 to 3 as a packed colour
PackedIr(s) ==
  LET c(k) == Clamp(0, 2^Irgb - 1, Shr(s.ir[k], Frac - Irgb))
  IN c(1) + c(2) * 2^Irgb + c(3) * 2^(2 * Irgb)

Data(s, reg) ==
  CASE reg < 6 /\ reg % 2 = 0 ->
         Halves(s.v[reg \div 2 + 1][1], s.v[reg \div 2 + 1][2])
    [] reg < 6 /\ reg % 2 = 1 -> Extended(s.v[reg \div 2 + 1][3])
    [] reg = 6 -> FromRgbx(s.rgb)
    [] reg = 7 -> s.otz
    [] reg \in 8 .. 11 -> Extended(s.ir[reg - 8])
    [] reg \in 12 .. 15 -> Halves(s.xy_fifo[reg - 11][1], s.xy_fifo[reg - 11][2])
    [] reg \in 16 .. 19 -> s.z_fifo[reg - 15]
    [] reg \in 20 .. 22 -> FromRgbx(s.rgb_fifo[reg - 19])
    [] reg = 23 -> s.reg_23
    [] reg \in 24 .. 27 -> Extended(s.mac[reg - 24])
    [] reg \in 28 .. 29 -> PackedIr(s)
    [] reg = 30 -> s.lzcs
    [] reg = 31 -> s.lzcr

LeadingZeros(w) ==
  CHOOSE n \in 0 .. Word :
    w < 2^(Word - n) /\ (n < Word => w >= 2^(Word - n - 1))

\* Leading ones of a negative word, leading zeroes of another
Lzcr(w) == LeadingZeros(IF w >= 2^(Word - 1) THEN 2^Word - 1 - w ELSE w)

PushXy(s, xy) ==
  [s EXCEPT !.xy_fifo = <<s.xy_fifo[2], s.xy_fifo[3], xy, xy>>]

\* Mutant: a write of SXY2 leaves its copy alone
SetXyNoMirror(s, reg, xy) ==
  IF reg = 15 THEN PushXy(s, xy) ELSE [s EXCEPT !.xy_fifo[reg - 11] = xy]

\* The third entry is also the fourth, whose write pushes
SetXy(s, reg, xy) ==
  CASE reg \in 12 .. 13 -> [s EXCEPT !.xy_fifo[reg - 11] = xy]
    [] reg = 14 -> [s EXCEPT !.xy_fifo[3] = xy, !.xy_fifo[4] = xy]
    [] reg = 15 -> PushXy(s, xy)

SetData(s, reg, w) ==
  CASE reg < 6 /\ reg % 2 = 0 ->
         [s EXCEPT !.v[reg \div 2 + 1] = <<Low(w), High(w), @[3]>>]
    [] reg < 6 /\ reg % 2 = 1 -> [s EXCEPT !.v[reg \div 2 + 1][3] = Low(w)]
    [] reg = 6 -> [s EXCEPT !.rgb = ToRgbx(w)]
    [] reg = 7 -> [s EXCEPT !.otz = Unsigned(Half, w)]
    [] reg \in 8 .. 11 -> [s EXCEPT !.ir[reg - 8] = Low(w)]
    [] reg \in 12 .. 15 -> SetXy(s, reg, <<Low(w), High(w)>>)
    [] reg \in 16 .. 19 -> [s EXCEPT !.z_fifo[reg - 15] = Unsigned(Half, w)]
    [] reg \in 20 .. 22 -> [s EXCEPT !.rgb_fifo[reg - 19] = ToRgbx(w)]
    [] reg = 23 -> [s EXCEPT !.reg_23 = w]
    [] reg \in 24 .. 27 -> [s EXCEPT !.mac[reg - 24] = Signed(Word, w)]
    [] reg = 28 ->
         LET c(k) == Unsigned(Irgb, Shr(w, k * Irgb)) * 2^(Frac - Irgb)
         IN [s EXCEPT !.ir = [k \in 0 .. 3 |-> IF k < 3 THEN c(k) ELSE @[k]]]
    [] reg = 30 -> [s EXCEPT !.lzcs = w, !.lzcr = Lzcr(w)]
    [] OTHER -> s          \* 29 and 31 are read only

----------------------------------------------------------------------------
(* Steps of the commands.  c is the configuration of a command: sf (shift by
   Frac), lm (clamp negative IR to 0), and for MVMVA its matrix mx, vector vm
   and control vector tv. *)
Axes == 1 .. 3
Vector(s, k) == IF k = 4 THEN <<s.ir[1], s.ir[2], s.ir[3]>> ELSE s.v[k]

\* Three accumulators, with the flags their computation raised
WithMac(s, mac, flags) ==
  [s EXCEPT !.mac = [k \in 0 .. 3 |-> IF k = 0 THEN @[0] ELSE mac[k]],
            !.flags = @ \cup flags]

mac_to_ir(c, s) ==
  [s EXCEPT !.ir = [k \in 0 .. 3 |-> IF k = 0 THEN @[0] ELSE ToIr(c.lm, s.mac[k])],
            !.flags = @ \cup UNION {IrFlags(c.lm, k, s.mac[k]) : k \in Axes}]

mac_to_rgb_fifo(s) ==
  LET top == 2^Byte - 1
      c(k) == Shr(s.mac[k], ColShift)
  IN [s EXCEPT
        !.rgb_fifo = <<@[2], @[3], <<Clamp(0, top, c(1)), Clamp(0, top, c(2)),
                                     Clamp(0, top, c(3)), s.rgb[4]>> >>,
        !.flags = @ \cup UNION {Outside(0, top, c(k), 22 - k) : k \in Axes}]

\* t + m * v for a row m, with a flag per sum: that of MAC f[1], f[2], f[3]
Row(t, m, v, f) ==
  LET s1 == t * One + m[1] * v[1]
      s2 == ToAcc(s1) + m[2] * v[2]
      s3 == ToAcc(s2) + m[3] * v[3]
  IN [sum |-> ToAcc(s3),
      flags |-> AccFlags(f[1], s1) \cup AccFlags(f[2], s2) \cup AccFlags(f[3], s3)]

Rows(t, m, v, f) == [r \in Axes |-> Row(t[r], m[r], v, f[r])]

WithRows(c, s, rows) ==
  WithMac(s, [k \in Axes |-> ToMac(c, rows[k].sum)],
          UNION {rows[k].flags : k \in Axes})

\* The flag of a sum is that of its accumulator
ByRow == <<<<1, 1, 1>>, <<2, 2, 2>>, <<3, 3, 3>>>>
\* ... but in do_rtp that of its column
ByColumn == <<<<1, 2, 3>>, <<1, 2, 3>>, <<1, 2, 3>>>>

\* The vector comes from the IR for index 4, which the code copies to v[3]
multiply_matrix_by_vector(c, m, k, t, s) ==
  LET rows == Rows(s.control_vectors[t], s.matrices[m], Vector(s, k), ByRow)
  IN mac_to_ir(c, WithRows(c, s, rows))

\* IR times the colour
Shade(c, s) ==
  mac_to_rgb_fifo(mac_to_ir(c,
    WithMac(s, [k \in Axes |-> ToMac(c, s.ir[k] * s.rgb[k] * 2^ColShift)], {})))

\* Between base and the far colour, in the ratio of IR 0
Cue(c, base, s) ==
  LET diff(k) == s.control_vectors[FarColor][k] * One - base[k]
      near(k) == ToMac(c, ToAcc(diff(k)))
      sum(k) == base[k] + s.ir[0] * ToIr(FALSE, near(k))
  IN mac_to_rgb_fifo(mac_to_ir(c,
       WithMac(s, [k \in Axes |-> ToMac(c, ToAcc(sum(k)))],
               UNION {AccFlags(k, diff(k)) \cup IrFlags(FALSE, k, near(k))
                        \cup AccFlags(k, sum(k)) : k \in Axes})))

CueColour(c, col, s) == Cue(c, [k \in Axes |-> col[k] * One * 2^ColShift], s)
cmd_dcpl(c, s) == Cue(c, [k \in Axes |-> s.rgb[k] * 2^ColShift * s.ir[k]], s)

do_nc(c, k, s) ==
  multiply_matrix_by_vector(c, Color, 4, BackgroundColor,
    multiply_matrix_by_vector(c, Light, k, Zero, s))

\* The quotient the divider computes, with Half fractional bits and saturated
Quotient(n, d) ==
  LET q == (n * 2^Half) \div d IN Clamp(0, 2^(Half + 1) - 1, q)

\* Near vertices are clipped
Factor(s, z) ==
  IF z > s.h \div 2 THEN Quotient(s.h, z) ELSE 2^(Half + 1) - 1

\* Transform and project vector k
do_rtp(c, k, s) ==
  LET rows == Rows(s.control_vectors[Translation], s.matrices[Rotation], s.v[k],
                   ByColumn)
      mac == [r \in Axes |-> ToMac(c, rows[r].sum)]
      z == Signed(Word, Shr(rows[3].sum, Frac))
      z_saturated == Clamp(0, 2^Half - 1, z)
      factor == Factor(s, z_saturated)
      screen == <<ToIr(c.lm, mac[1]) * factor + s.ofx,
                  ToIr(c.lm, mac[2]) * factor + s.ofy>>
      xy == [i \in 1 .. 2 |-> Signed(Word, Shr(screen[i], Half))]
      raised == UNION {rows[r].flags : r \in Axes}
                \cup IrFlags(c.lm, 1, mac[1]) \cup IrFlags(c.lm, 2, mac[2])
                \cup Outside(MinOf(Half), MaxOf(Half), z, 22)
                \cup Outside(0, 2^Half - 1, z, 18)
                \cup (IF z_saturated > s.h \div 2 THEN {} ELSE {17})
                \cup MacFlags(screen[1]) \cup MacFlags(screen[2])
                \cup UNION {Outside(MinOf(Coord), MaxOf(Coord), xy[i], 15 - i) :
                              i \in 1 .. 2}
  IN PushXy([s EXCEPT
               !.mac = [r \in 0 .. 3 |-> IF r = 0 THEN @[0] ELSE mac[r]],
               !.ir = [r \in 0 .. 3 |-> IF r = 0 THEN @[0] ELSE ToIr(c.lm, mac[r])],
               !.z_fifo = <<@[2], @[3], @[4], z_saturated>>,
               !.flags = @ \cup raised],
            [i \in 1 .. 2 |-> Clamp(MinOf(Coord), MaxOf(Coord), xy[i])])

\* The factor is the one of the last vertex
depth_queuing(s) ==
  LET depth == s.dqb + s.dqa * Factor(s, s.z_fifo[4])
  IN [s EXCEPT !.mac[0] = Signed(Word, depth),
               !.ir[0] = Clamp(0, One, Shr(depth, Frac)),
               !.flags = @ \cup MacFlags(depth)
                           \cup Outside(0, One, Shr(depth, Frac), 12)]

----------------------------------------------------------------------------
(* The commands *)
cmd_nclip(s) ==
  LET x(k) == s.xy_fifo[k][1]
      y(k) == s.xy_fifo[k][2]
      sum == x(1) * (y(2) - y(3)) + x(2) * (y(3) - y(1)) + x(3) * (y(1) - y(2))
  IN [s EXCEPT !.mac[0] = Signed(Word, sum), !.flags = @ \cup MacFlags(sum)]

\* The diagonal of the rotation matrix
Diagonal(s) == [k \in Axes |-> s.matrices[Rotation][k][k]]
Cross(d, v) == <<d[2] * v[3] - d[3] * v[2], d[3] * v[1] - d[1] * v[3],
                 d[1] * v[2] - d[2] * v[1]>>
cmd_op(c, s) ==
  LET p == Cross(Diagonal(s), Vector(s, 4))
  IN mac_to_ir(c, WithMac(s, [k \in Axes |-> ToMac(c, p[k])], {}))

cmd_dpct(c, s) ==
  LET do_dpc(r) == CueColour(c, r.rgb_fifo[1], r) IN do_dpc(do_dpc(do_dpc(s)))

cmd_intpl(c, s) == Cue(c, [k \in Axes |-> s.ir[k] * One], s)

cmd_sqr(c, s) ==
  mac_to_ir(c, WithMac(s, [k \in Axes |-> ToMac(c, s.ir[k] * s.ir[k])], {}))

Average(s, factor, sum) ==
  LET average == factor * sum
  IN [s EXCEPT !.mac[0] = Signed(Word, average),
               !.otz = Clamp(0, 2^Half - 1, Shr(average, Frac)),
               !.flags = @ \cup MacFlags(average)
                           \cup Outside(0, 2^Half - 1, Shr(average, Frac), 18)]
cmd_avsz3(s) == Average(s, s.zsf3, s.z_fifo[2] + s.z_fifo[3] + s.z_fifo[4])
cmd_avsz4(s) ==
  Average(s, s.zsf4, s.z_fifo[1] + s.z_fifo[2] + s.z_fifo[3] + s.z_fifo[4])

cmd_gpf(c, s) ==
  mac_to_rgb_fifo(mac_to_ir(c,
    WithMac(s, [k \in Axes |-> ToMac(c, s.ir[k] * s.ir[0])], {})))

cmd_gpl(c, s) ==
  LET sum(k) == s.mac[k] * 2^ShiftOf(c) + s.ir[k] * s.ir[0]
  IN mac_to_rgb_fifo(mac_to_ir(c,
       WithMac(s, [k \in Axes |-> ToMac(c, ToAcc(sum(k)))],
               UNION {AccFlags(k, sum(k)) : k \in Axes})))

\* The colour commands work on one vector
OnVector(op, c, k, s) ==
  CASE op = "NC" -> mac_to_rgb_fifo(do_nc(c, k, s))
    [] op = "NCC" -> Shade(c, do_nc(c, k, s))
    [] op = "NCD" -> cmd_dcpl(c, do_nc(c, k, s))
    [] op = "RTP" -> do_rtp(c, k, s)

\* The command on each of the three vectors in turn
OnVectors(op, c, s) ==
  OnVector(op, c, 3, OnVector(op, c, 2, OnVector(op, c, 1, s)))

Panics(op, c) == op = "MVMVA" /\ (c.mx = Invalid \/ c.tv = FarColor)

Result(op, c, s) ==
  CASE op = "RTPS" -> depth_queuing(OnVector("RTP", c, 1, s))
    [] op = "RTPT" -> depth_queuing(OnVectors("RTP", c, s))
    [] op = "NCLIP" -> cmd_nclip(s)
    [] op = "OP" -> cmd_op(c, s)
    [] op = "DPCS" -> CueColour(c, s.rgb, s)
    [] op = "DPCT" -> cmd_dpct(c, s)
    [] op = "INTPL" -> cmd_intpl(c, s)
    [] op = "MVMVA" -> multiply_matrix_by_vector(c, c.mx, c.vm, c.tv, s)
    [] op = "NCDS" -> OnVector("NCD", c, 1, s)
    [] op = "NCDT" -> OnVectors("NCD", c, s)
    [] op = "NCCS" -> OnVector("NCC", c, 1, s)
    [] op = "NCCT" -> OnVectors("NCC", c, s)
    [] op = "NCS" -> OnVector("NC", c, 1, s)
    [] op = "NCT" -> OnVectors("NC", c, s)
    [] op = "CC" -> Shade(c, multiply_matrix_by_vector(c, Color, 4, BackgroundColor, s))
    [] op = "SQR" -> cmd_sqr(c, s)
    [] op = "DCPL" -> cmd_dcpl(c, s)
    [] op = "AVSZ3" -> cmd_avsz3(s)
    [] op = "AVSZ4" -> cmd_avsz4(s)
    [] op = "GPF" -> cmd_gpf(c, s)
    [] op = "GPL" -> cmd_gpl(c, s)

\* Flags are cleared before and summarised after a command
command(op, c, s) ==
  LET r == Result(op, c, [s EXCEPT !.flags = {}])
  IN [r EXCEPT !.flags = @ \cup Summary(@)]

----------------------------------------------------------------------------
\* Gte::new
Reset ==
  LET zeroes(n) == [k \in 1 .. n |-> 0]
      each(n, x) == [k \in 1 .. n |-> x]
  IN [ofx |-> 0, ofy |-> 0, h |-> 0, dqa |-> 0, dqb |-> 0, zsf3 |-> 0, zsf4 |-> 0,
      matrices |-> each(3, each(3, zeroes(3))),
      control_vectors |-> each(4, zeroes(3)), flags |-> {},
      v |-> each(3, zeroes(3)), mac |-> [k \in 0 .. 3 |-> 0], otz |-> 0,
      rgb |-> zeroes(4), ir |-> [k \in 0 .. 3 |-> 0],
      xy_fifo |-> each(4, zeroes(2)), z_fifo |-> zeroes(4),
      rgb_fifo |-> each(3, zeroes(4)), lzcs |-> 0, lzcr |-> Word, reg_23 |-> 0]

NoConfig == [sf |-> FALSE, lm |-> FALSE, mx |-> Rotation, vm |-> 1, tv |-> Translation]
Ran(op, c, reg, w) == [op |-> op, c |-> c, reg |-> reg, val |-> w]

Init ==
  /\ g \in Registers
  /\ last = Ran("none", NoConfig, 0, 0)
  /\ steps = 0
  /\ panic = FALSE

Command ==
  /\ ~panic /\ steps < MaxSteps
  /\ \E x \in Commands :
       /\ last' = Ran(x[1], x[2], 0, 0)
       /\ panic' = Panics(x[1], x[2])
       /\ g' = IF panic' THEN [g EXCEPT !.flags = {}] ELSE command(x[1], x[2], g)
  /\ steps' = steps + 1

Write ==
  /\ ~panic /\ steps < MaxSteps
  /\ \E x \in Writes :
       /\ last' = Ran(x[1], NoConfig, x[2], x[3])
       /\ g' = IF x[1] = "data" THEN SetData(g, x[2], x[3])
               ELSE SetControl(g, x[2], x[3])
  /\ steps' = steps + 1
  /\ UNCHANGED panic

\* A write of the flags, of bits that a command left
WriteFlags ==
  /\ ~panic /\ steps < MaxSteps /\ g.flags # {}
  /\ g' = SetFlags(g, g.flags)
  /\ last' = Ran("flags", NoConfig, 31, 0)
  /\ steps' = steps + 1
  /\ UNCHANGED panic

Next == Command \/ Write \/ WriteFlags

Spec == Init /\ [][Next]_vars

----------------------------------------------------------------------------
(* What the commands compute, without widths: sums and products of integers,
   and the fractional bits dropped once per stage. *)
Transform(m, v, t) ==
  [r \in Axes |->
     (t[r] * One + m[r][1] * v[1] + m[r][2] * v[2] + m[r][3] * v[3]) \div One]
Lit(s, v) ==
  Transform(s.matrices[Color], v, s.control_vectors[BackgroundColor])
Normal(s, k) == Lit(s, Transform(s.matrices[Light], s.v[k], <<0, 0, 0>>))
Coloured(s, v) == [k \in Axes |-> v[k] * s.rgb[k] * 2^ColShift]
Scaled(v) == [k \in Axes |-> v[k] \div One]
\* From v, with Frac fractional bits, towards the far colour
Fogged(s, v) ==
  [k \in Axes |->
     (v[k] + s.ir[0] * ((s.control_vectors[FarColor][k] * One - v[k]) \div One))
       \div One]
FoggedColour(s, col) == Fogged(s, [k \in Axes |-> col[k] * One * 2^ColShift])

\* The vectors whose colours a command pushes, in order
Pushed(op, s) ==
  LET ir == Vector(s, 4)
      ir0(v) == [k \in Axes |-> v[k] * s.ir[0]]
      mac == [k \in Axes |-> s.mac[k] * One + ir0(ir)[k]]
      n == IF op \in {"NCT", "NCCT", "NCDT", "DPCT"} THEN 3 ELSE 1
      each(k) ==
        CASE op \in {"NCS", "NCT"} -> Normal(s, k)
          [] op \in {"NCCS", "NCCT"} -> Scaled(Coloured(s, Normal(s, k)))
          [] op \in {"NCDS", "NCDT"} -> Fogged(s, Coloured(s, Normal(s, k)))
          [] op = "CC" -> Scaled(Coloured(s, Lit(s, ir)))
          [] op = "DCPL" -> Fogged(s, Coloured(s, ir))
          [] op = "DPCS" -> FoggedColour(s, s.rgb)
          [] op = "DPCT" -> FoggedColour(s, s.rgb_fifo[k])
          [] op = "INTPL" -> Fogged(s, [j \in Axes |-> ir[j] * One])
          [] op = "GPF" -> Scaled(ir0(ir))
          [] op = "GPL" -> Scaled(mac)
  IN [k \in 1 .. n |-> each(k)]

ColourOps == {"NCS", "NCT", "NCCS", "NCCT", "NCDS", "NCDT", "CC", "DCPL", "DPCS",
              "DPCT", "INTPL", "GPF", "GPL"}

\* MAC 1 to 3 and IR 1 to 3 are v
Holds(r, v) == \A k \in Axes : r.mac[k] = v[k] /\ r.ir[k] = v[k]

LastN(n, s) == SubSeq(s, Len(s) - n + 1, Len(s))

ExactColours(op, s, r) ==
  LET vs == Pushed(op, s)
      colour(v) == <<v[1] \div 2^ColShift, v[2] \div 2^ColShift,
                     v[3] \div 2^ColShift, s.rgb[4]>>
  IN /\ Holds(r, vs[Len(vs)])
     /\ r.rgb_fifo = LastN(3, s.rgb_fifo \o [k \in 1 .. Len(vs) |-> colour(vs[k])])

ExactVector(op, c, s, r) ==
  LET ir == Vector(s, 4)
  IN Holds(r, CASE op = "MVMVA" ->
                     Transform(s.matrices[c.mx], Vector(s, c.vm), s.control_vectors[c.tv])
                [] op = "OP" -> Scaled(Cross(Diagonal(s), ir))
                [] op = "SQR" -> Scaled([k \in Axes |-> ir[k] * ir[k]]))

ExactProjection(n, s, r) ==
  LET at == [k \in 1 .. n |->
               Transform(s.matrices[Rotation], s.v[k], s.control_vectors[Translation])]
      ratio(k) == (s.h * 2^Half) \div at[k][3]
      screen(k) == <<(at[k][1] * ratio(k) + s.ofx) \div 2^Half,
                     (at[k][2] * ratio(k) + s.ofy) \div 2^Half>>
      depth == s.dqb + s.dqa * ratio(n)
  IN /\ Holds(r, at[n])
     /\ r.z_fifo = LastN(4, s.z_fifo \o [k \in 1 .. n |-> at[k][3]])
     /\ SubSeq(r.xy_fifo, 1, 3)
          = LastN(3, SubSeq(s.xy_fifo, 1, 3) \o [k \in 1 .. n |-> screen(k)])
     /\ r.mac[0] = depth /\ r.ir[0] = depth \div One

\* Twice the area of the triangle, from the sides that meet in its first corner
Area(p) ==
  (p[2][1] - p[1][1]) * (p[3][2] - p[1][2]) - (p[3][1] - p[1][1]) * (p[2][2] - p[1][2])

ExactAverage(f, z, r) ==
  LET sum == IF Len(z) = 3 THEN z[1] + z[2] + z[3] ELSE z[1] + z[2] + z[3] + z[4]
  IN r.mac[0] = f * sum /\ r.otz = (f * sum) \div One

ExactResult(op, c, s, r) ==
  CASE op \in ColourOps -> ExactColours(op, s, r)
    [] op \in {"MVMVA", "OP", "SQR"} -> ExactVector(op, c, s, r)
    [] op = "RTPS" -> ExactProjection(1, s, r)
    [] op = "RTPT" -> ExactProjection(3, s, r)
    [] op = "NCLIP" -> r.mac[0] = Area(s.xy_fifo)
    [] op = "AVSZ3" -> ExactAverage(s.zsf3, LastN(3, s.z_fifo), r)
    [] op = "AVSZ4" -> ExactAverage(s.zsf4, s.z_fifo, r)

IsCommand(l) == l.op \notin {"none", "data", "control", "flags"}

(* A program tests the flags after a command, or does not test them at all: a
   command that shifts its results (sf) and raises no flag has computed them
   exactly, whatever was wrapped, truncated or saturated between its stages;
   the FIFOs hold the results of the three vectors in order (command,
   cpu/gte/mod.rs:96, and set_flag). *)
NoFlagMeansExact ==
  [][ IsCommand(last') /\ last'.c.sf /\ ~panic' /\ g'.flags = {}
        => ExactResult(last'.op, last'.c, g, g') ]_vars

\* The registers that a task switch reads and writes, all but the push of the
\* XY FIFO, the packed colour, what is read only, and the flags
SavedData == 0 .. 14 \cup 16 .. 27 \cup {30}
SavedControl == 0 .. 30

\* The registers s, written to the GTE r
RestoredControl(r, s) ==
  LET write[n \in -1 .. 30] ==
        IF n = -1 THEN r
        ELSE IF n \in SavedControl THEN SetControl(write[n - 1], n, Control(s, n))
        ELSE write[n - 1]
  IN write[30]
RestoredData(r, s) ==
  LET write[n \in -1 .. 30] ==
        IF n = -1 THEN r
        ELSE IF n \in SavedData THEN SetData(write[n - 1], n, Data(s, n))
        ELSE write[n - 1]
  IN write[30]

(* A task switch may save the registers between any two commands or writes and
   write them back to a GTE that has run something else: everything that can be
   observed is as before, the copy of SXY2 and the count of LZCS included
   (control, data, set_control and set_data, cpu/gte/mod.rs:133-642). *)
SaveRestoreIsIdentity ==
  \E r \in {RestoredControl(Reset, g)} :
    RestoredData(r, g) = [g EXCEPT !.flags = {}]

(* The packed colour that is written to register 28 is read back from register
   29: "This sets the IR1...3 registers MSB" (cpu/gte/tests.rs:78). *)
IrgbReadsBack ==
  last.op = "data" /\ last.reg = 28 => Data(g, 29) = Unsigned(3 * Irgb, last.val)
=============================================================================

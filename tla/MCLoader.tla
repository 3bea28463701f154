------------------------------ MODULE MCLoader ------------------------------
EXTENDS Loader

Half == 0 .. 65535
Words == Half \X Half
ZeroWord == <<0, 0>>
NoWritten == {}

\* KSEG0 and KSEG1 addresses of the RAM
K0(n) == <<32768, n>>
K1(n) == <<40960, n>>

File(base, text, entry, fill, len) ==
  [magic |-> TRUE, base |-> base, entry |-> entry, gp |-> <<32769, 5>>,
   sp |-> <<32799, 65520>>, sp_offset |-> 16, memfill_base |-> fill,
   memfill_len |-> <<0, len>>, text |-> text]

\* Bytes whose sign bit is set and words that end in the middle of a line
SomeText(n) == [k \in 1 .. n |-> (k * 67) % 256]

SomeFiles ==
  {File(K0(b), SomeText(n), K0(8), K0(4), len) :
     b \in {0, 6}, n \in {1, 14}, len \in {0, 7}}
  \cup {File(K0(6), SomeText(0), K0(8), K0(19), 3),
       File(<<0, 5>>, SomeText(6), <<0, 4>>, <<0, 30>>, 1),
       File(K1(1), SomeText(14), K1(4), K1(0), 16),
       [File(K0(0), SomeText(4), K0(0), K0(0), 0) EXCEPT !.magic = FALSE],
       File(K0(0), SomeText(17), K0(0), K0(0), 0)}

\* What the BIOS left in the two lines: whole, in part, or invalidated
LeftLine(tag, valid) ==
  [tag |-> tag, valid |-> valid, words |-> [k \in Index |-> <<48879, k>>]]
SomeCaches ==
  {[l \in Lines |-> IF l = 0 THEN LeftLine(0, v) ELSE LeftLine(1, w)] :
     v \in {0, 2}, w \in {1}}

\* As the BIOS leaves the register, and with the cache disabled
SomeControls == {<<1, 59784>>, <<1, 57736>>}

\* In the BIOS, through KSEG1
Hook == <<49088, 27024>>
SomeSr == <<16384, 1025>>
StackTop == K0(64)
=============================================================================

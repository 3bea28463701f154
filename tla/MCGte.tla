------------------------------- MODULE MCGte --------------------------------
EXTENDS Gte, GteDivide, FiniteSets

\* Half a unit, a unit and the ends of a component
Ident(x) == <<<<x, 0, 0>>, <<0, x, 0>>, <<0, 0, x>>>>
Mixed == <<<<9, -7, 3>>, <<-16, 5, 11>>, <<2, 8, 13>>>>
Full(x) == [r \in Axes |-> [k \in Axes |-> x]]
Mats == <<<<Mixed, Ident(16), Mixed>>, <<Ident(16), Ident(8), Ident(16)>>,
          <<Full(31), Full(31), Full(-32)>>, <<Full(-32), Full(-32), Full(31)>>>>
Vecs == <<<<<<3, -5, 7>>, <<12, 4, 9>>, <<-2, 6, 20>>>>,
          <<<<1, 1, 1>>, <<2, 0, 14>>, <<0, 3, 9>>>>,
          <<<<31, 31, 31>>, <<-32, -32, -32>>, <<31, -32, 31>>>>>>
Cvs == <<<<<<4, -3, 12>>, <<6, 2, 1>>, <<9, 15, 3>>, <<0, 0, 0>>>>,
         <<<<0, 0, 5>>, <<0, 0, 0>>, <<0, 0, 0>>, <<0, 0, 0>>>>,
         <<<<2047, 2047, 2047>>, <<2047, 2047, 2047>>, <<2047, 2047, 2047>>, <<0, 0, 0>>>>,
         <<<<-2048, -2048, -2048>>, <<-2048, -2048, -2048>>, <<-2048, -2048, -2048>>, <<0, 0, 0>>>>>>
Four(a, b, c, d) == [k \in 0 .. 3 |-> <<a, b, c, d>>[k + 1]]
Irs == <<Four(8, 5, 9, 12), Four(16, 1, -3, 14), Four(31, 31, 31, 31), Four(-32, -32, 31, -32)>>
Macs == <<Four(7, 4, 2, 8), Four(0, 2047, 2047, 2047), Four(0, -2048, -2048, -2048)>>
Rgbs == <<<<5, 2, 7, 3>>, <<0, 0, 1, 0>>>>
Screens == <<<<70, -30, 9, 3, 40, 6, 5>>, <<0, 0, 8, 1, 0, 3, -2>>,
             <<2047, -2048, 63, 31, 2047, 31, 31>>, <<-2048, 2047, 63, -32, -2048, -32, -32>>>>
Fifos == <<<<<<<<1, 2>>, <<-4, 6>>, <<5, -3>>, <<5, -3>>>>, <<9, 20, 14, 30>>,
            <<<<1, 2, 3, 4>>, <<5, 6, 7, 0>>, <<0, 3, 2, 1>>>>>>,
          <<<<<<31, 31>>, <<-32, 31>>, <<31, -32>>, <<31, -32>>>>, <<63, 63, 63, 63>>,
            <<<<7, 7, 7, 7>>, <<0, 0, 0, 0>>, <<7, 0, 7, 0>>>>>>>>

Group == <<Mats, Vecs, Cvs, Irs, Macs, Rgbs, Screens, Fifos>>
\* At most one group of registers away from the first choice, or all of them
\* at an end of their range
Choices ==
  {f \in [1 .. 8 -> 1 .. 4] :
     /\ \A i \in 1 .. 8 : f[i] <= Len(Group[i])
     /\ \/ Cardinality({i \in 1 .. 8 : f[i] # 1}) <= 1
        \/ \A i \in 1 .. 8 : f[i] = Len(Group[i])}

Contents(f) ==
  LET at(i) == Group[i][f[i]]
      p == at(7)
      q == at(8)
  IN [Reset EXCEPT
        !.matrices = at(1), !.v = at(2), !.control_vectors = at(3), !.ir = at(4),
        !.mac = at(5), !.rgb = at(6), !.ofx = p[1], !.ofy = p[2], !.h = p[3],
        !.dqa = p[4], !.dqb = p[5], !.zsf3 = p[6], !.zsf4 = p[7],
        !.xy_fifo = q[1], !.z_fifo = q[2], !.rgb_fifo = q[3]]
SomeRegisters == {Contents(f) : f \in Choices}

Ops == {"RTPS", "RTPT", "NCLIP", "OP", "DPCS", "DPCT", "INTPL", "NCDS", "NCDT",
        "NCCS", "NCCT", "NCS", "NCT", "CC", "SQR", "DCPL", "AVSZ3", "AVSZ4",
        "GPF", "GPL"}
SomeCommands ==
  {<<op, [NoConfig EXCEPT !.sf = x[1], !.lm = x[2]]>> :
     op \in Ops, x \in {<<TRUE, FALSE>>, <<TRUE, TRUE>>, <<FALSE, FALSE>>}}
    \cup {<<"MVMVA", [sf |-> TRUE, lm |-> FALSE, mx |-> mx, vm |-> vm, tv |-> tv]>> :
            mx, tv \in 1 .. 4, vm \in {1, 4}}
SomeWrites ==
  {<<"data", r, w>> : r \in 0 .. 31, w \in {2730}}
    \cup {<<"control", r, w>> : r \in 0 .. 30, w \in {2730}}

\* Divisions: every divisor, with the numerators at the ends and in the middle
\* of the range the GTE divides
EveryDivisor == 1 .. 65535
SomeNumerators(d) ==
  {n \in {d \div 3, d - 1, d, (7 * d) \div 5, 2 * d - 2, 2 * d - 1} : n < 65536}

(* A projection divides at the full width of the code with an error of at most
   three units of the sixteenth binary place, for every divisor (divide,
   cpu/gte/divider.rs:7, called by do_rtp). *)
QuotientAccurate == last.op \in {"RTPS", "RTPT"} => DivisionsAccurate
=============================================================================

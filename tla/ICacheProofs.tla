---------------------------- MODULE ICacheProofs ----------------------------
(***************************************************************************)
(* The instruction cache is coherent, for any number of lines and tags and *)
(* for any program.  TypeOK and Coherent are inductive together: a refill  *)
(* needs to know that indices are in 0 .. 3 to see that an invalidated     *)
(* line has no valid word.                                                 *)
(***************************************************************************)
EXTENDS ICache, TLAPS

Inv == TypeOK /\ Coherent

\* A refilled line is a line.
LEMMA RefilledType ==
  ASSUME TypeOK, NEW a \in Addrs
  PROVE  Refilled(icache[a.line], a) \in LineType
<1>1. a.line \in Lines /\ a.tag \in Tags /\ a.index \in Index
  BY DEF Addrs
<1>2. icache[a.line] \in LineType
  BY <1>1 DEF TypeOK
<1>3. ASSUME NEW i \in Index
      PROVE  [a EXCEPT !.index = i] \in Addrs
  BY DEF Addrs
<1> DEFINE w == [i \in Index |-> IF i >= a.index
                                   THEN ram[[a EXCEPT !.index = i]]
                                   ELSE icache[a.line].words[i]]
<1>4. w \in [Index -> Vals]
  BY <1>2, <1>3 DEF TypeOK, LineType
<1>5. a.index \in 0 .. 7
  BY <1>1 DEF Index
<1> QED
  BY <1>1, <1>4, <1>5 DEF Refilled, LineType

\* The cache starts coherent: the words that were never loaded are stale.
LEMMA InitInv == Init => Inv
<1> SUFFICES ASSUME Init PROVE Inv
  OBVIOUS
<1>1. [tag |-> 0, valid |-> 0, words |-> [i \in Index |-> Zero]] \in LineType
  BY ICacheAssumption DEF LineType
<1>2. TypeOK
  <2>1. ram \in [Addrs -> Vals]
    BY DEF Init
  <2>2. icache \in [Lines -> LineType]
    BY <1>1 DEF Init
  <2>3. cc \in [enabled : BOOLEAN, tag_test : BOOLEAN]
    BY DEF Init
  <2>4. ir \in Vals /\ stale \subseteq Addrs
    BY ICacheAssumption DEF Init
  <2> QED
    BY <2>1, <2>2, <2>3, <2>4 DEF Init, TypeOK
<1>3. Coherent
  <2> SUFFICES ASSUME NEW a \in Addrs \ stale PROVE Miss(icache[a.line], a)
    BY DEF Coherent
  <2>1. a.tag # 0 /\ a.line \in Lines
    BY DEF Init, Addrs
  <2> QED
    BY <2>1 DEF Init, Miss
<1> QED
  BY <1>2, <1>3 DEF Inv

\* Every step of the CPU keeps the cache coherent.
LEMMA NextInv == Inv /\ [Next]_vars => Inv'
<1> SUFFICES ASSUME Inv, [Next]_vars PROVE Inv'
  OBVIOUS
<1> USE DEF Inv
<1>1. ASSUME NEW r \in Regions, NEW a \in Addrs, FetchCached(r, a)
      PROVE  Inv'
  <2> DEFINE line == icache[a.line]
  <2>1. CASE Miss(line, a)
    <3>1. icache' = [icache EXCEPT ![a.line] = Refilled(line, a)]
      BY <1>1, <2>1 DEF FetchCached
    <3>2. /\ UNCHANGED <<ram, cc, isolated, panic>>
          /\ stale' = stale \ LineAddrs(a.line)
          /\ ir' = Refilled(line, a).words[a.index]
      BY <1>1, <2>1 DEF FetchCached
    <3>3. Refilled(line, a) \in LineType
      BY RefilledType
    <3>4. a.line \in Lines /\ a.index \in Index
      BY DEF Addrs
    <3>5. ir' \in Vals
      BY <3>2, <3>3, <3>4 DEF LineType
    <3>6. TypeOK'
      BY <3>1, <3>2, <3>3, <3>4, <3>5 DEF TypeOK
    <3>7. ASSUME NEW b \in Addrs, b \notin stale',
                 ~Miss(icache'[b.line], b)
          PROVE  icache'[b.line].words[b.index] = ram'[b]
      <4>1. CASE b.line = a.line
        <5>1. icache'[b.line] = Refilled(line, a)
          BY <3>1, <3>4, <4>1 DEF TypeOK
        <5>2. b.tag = a.tag /\ ~(a.index > b.index)
          BY <3>7, <5>1 DEF Miss, Refilled
        <5>3. b.index \in Index /\ a.index \in Int /\ b.index \in Int
          BY DEF Addrs, Index
        <5>4. b.index >= a.index
          BY <5>2, <5>3
        <5>5. b = [a EXCEPT !.index = b.index]
          BY <4>1, <5>2 DEF Addrs
        <5>6. Refilled(line, a).words[b.index] = ram[[a EXCEPT !.index = b.index]]
          BY <5>3, <5>4 DEF Refilled
        <5> QED
          BY <3>2, <5>1, <5>5, <5>6
      <4>2. CASE b.line # a.line
        <5>1. icache'[b.line] = icache[b.line]
          BY <3>1, <4>2 DEF TypeOK, Addrs
        <5>2. b \notin stale
          BY <3>2, <3>7, <4>2 DEF LineAddrs
        <5> QED
          BY <3>2, <3>7, <5>1, <5>2 DEF Coherent
      <4> QED
        BY <4>1, <4>2
    <3> QED
      BY <3>6, <3>7 DEF Coherent
  <2>2. CASE ~Miss(line, a)
    <3>1. icache' = icache
      BY <1>1, <2>2 DEF FetchCached, TypeOK, Addrs
    <3>2. UNCHANGED <<ram, cc, isolated, panic, stale>>
          /\ ir' = line.words[a.index]
      BY <1>1, <2>2 DEF FetchCached
    <3>3. ir' \in Vals
      BY <3>2 DEF TypeOK, LineType, Addrs
    <3> QED
      BY <3>1, <3>2, <3>3 DEF TypeOK, Coherent, Miss
  <2> QED
    BY <2>1, <2>2
<1>2. ASSUME NEW r \in Regions, NEW a \in Addrs, FetchUncached(r, a)
      PROVE  Inv'
  BY <1>2 DEF FetchUncached, TypeOK, Coherent, Miss
<1>3. ASSUME NEW a \in Written, NEW v \in Vals, StoreRam(a, v)
      PROVE  Inv'
  BY <1>3, ICacheAssumption DEF StoreRam, TypeOK, Coherent, Miss
<1>4. ASSUME NEW a \in Addrs, MaintainTag(a)
      PROVE  Inv'
  <2> DEFINE line == icache[a.line]
  <2>1. a.line \in Lines /\ line \in LineType
    BY DEF Addrs, TypeOK
  <2>2. Invalidated(line) \in LineType /\ Invalidated(line).valid \in 4 .. 7
    BY <2>1 DEF Invalidated, LineType
  <2>3. icache' = [icache EXCEPT ![a.line] = Invalidated(line)]
    BY <1>4 DEF MaintainTag, TypeOK
  <2>4. TypeOK'
    BY <1>4, <2>1, <2>2, <2>3 DEF MaintainTag, TypeOK
  <2>5. ASSUME NEW b \in Addrs, b \notin stale', ~Miss(icache'[b.line], b)
        PROVE  icache'[b.line].words[b.index] = ram'[b]
    <3>1. b.line # a.line
      <4> SUFFICES ASSUME b.line = a.line PROVE FALSE
        OBVIOUS
      <4>1. icache'[b.line] = Invalidated(line)
        BY <2>1, <2>3 DEF TypeOK
      <4>2. b.index \in 0 .. 3
        BY DEF Addrs, Index
      <4> QED
        BY <2>2, <2>5, <4>1, <4>2 DEF Miss
    <3>2. icache'[b.line] = icache[b.line]
      BY <2>3, <3>1 DEF TypeOK, Addrs
    <3>3. b \notin stale
      BY <1>4, <2>5, <3>1 DEF MaintainTag, LineAddrs
    <3> QED
      BY <1>4, <2>5, <3>2, <3>3 DEF MaintainTag, Coherent
  <2> QED
    BY <2>4, <2>5 DEF Coherent
<1>5. ASSUME NEW a \in Addrs, MaintainWord(a)
      PROVE  Inv'
  <2> DEFINE line == icache[a.line]
             c == [a EXCEPT !.tag = line.tag]
             new == [line EXCEPT !.words[a.index] = Zero]
  <2>1. a.line \in Lines /\ line \in LineType /\ a.index \in Index
    BY DEF Addrs, TypeOK
  <2>2. c \in Addrs
    BY <2>1 DEF Addrs, LineType
  <2>3. icache' = [icache EXCEPT ![a.line] = new]
    BY <1>5, <2>1 DEF MaintainWord, TypeOK
  <2>4. new \in LineType
    BY <2>1, ICacheAssumption DEF LineType
  <2>5. stale' \subseteq Addrs /\ stale \subseteq stale'
    BY <1>5, <2>2 DEF MaintainWord, TypeOK
  <2>6. TypeOK'
    BY <1>5, <2>1, <2>3, <2>4, <2>5 DEF MaintainWord, TypeOK
  <2>7. ASSUME NEW b \in Addrs, b \notin stale', ~Miss(icache'[b.line], b)
        PROVE  icache'[b.line].words[b.index] = ram'[b]
    <3>1. CASE b.line # a.line
      BY <1>5, <2>3, <2>5, <2>7, <3>1
      DEF MaintainWord, Coherent, TypeOK, Addrs
    <3>2. CASE b.line = a.line
      <4>1. icache'[b.line] = new
        BY <2>1, <2>3, <3>2 DEF TypeOK
      <4>2. ~Miss(line, b)
        BY <2>7, <4>1 DEF Miss
      <4>3. b.index # a.index
        <5> SUFFICES ASSUME b.index = a.index PROVE FALSE
          OBVIOUS
        <5>1. b.tag = line.tag
          BY <4>2 DEF Miss
        <5>2. b = c
          BY <3>2, <5>1 DEF Addrs
        <5> QED
          BY <1>5, <2>7, <4>2, <5>2 DEF MaintainWord
      <4>4. new.words[b.index] = line.words[b.index]
        BY <2>1, <4>3 DEF LineType, Addrs
      <4> QED
        BY <1>5, <2>5, <2>7, <3>2, <4>1, <4>2, <4>4 DEF MaintainWord, Coherent
    <3> QED
      BY <3>1, <3>2
  <2> QED
    BY <2>6, <2>7 DEF Coherent
<1>6. ASSUME NEW v \in Vals, MaintainPanics(v)
      PROVE  Inv'
  BY <1>6 DEF MaintainPanics, TypeOK, Coherent, Miss
<1>7. ASSUME NEW c \in [enabled : BOOLEAN, tag_test : BOOLEAN],
             SetCacheControl(c)
      PROVE  Inv'
  BY <1>7 DEF SetCacheControl, TypeOK, Coherent, Miss
<1>8. CASE Isolate
  BY <1>8 DEF Isolate, TypeOK, Coherent, Miss
<1>9. CASE UNCHANGED vars
  BY <1>9 DEF vars, TypeOK, Coherent, Miss
<1> QED
  BY <1>1, <1>2, <1>3, <1>4, <1>5, <1>6, <1>7, <1>8, <1>9 DEF Next, Fetch

\* The words the cache holds for code that was not replaced since the line
\* was filled or invalidated are those in memory (fetch_instruction,
\* cache_maintenance).
THEOREM CacheCoherent == Spec => []Coherent
<1>1. Inv /\ UNCHANGED vars => Inv'
  BY NextInv
<1> QED
  BY InitInv, NextInv, PTL DEF Spec, Inv

\* What fetch_instruction returns for such a word is the word in memory,
\* whether it hits, refills or goes around the cache.
THEOREM FetchGivesMemory == Spec => FetchIsFresh
<1>1. ASSUME Inv, NEW r \in Regions, NEW a \in Addrs \ stale, Fetch(r, a)
      PROVE  ir' = ram[a]
  <2>1. CASE FetchUncached(r, a)
    BY <2>1 DEF FetchUncached
  <2>2. CASE FetchCached(r, a) /\ Miss(icache[a.line], a)
    <3>1. ir' = Refilled(icache[a.line], a).words[a.index]
      BY <2>2 DEF FetchCached
    <3>2. a.index \in Index /\ a.index \in Int /\ a = [a EXCEPT !.index = a.index]
      BY DEF Addrs, Index
    <3>3. a.index >= a.index
      BY <3>2
    <3> QED
      BY <3>1, <3>2, <3>3 DEF Refilled
  <2>3. CASE FetchCached(r, a) /\ ~Miss(icache[a.line], a)
    BY <1>1, <2>3 DEF FetchCached, Inv, Coherent
  <2> QED
    BY <1>1, <2>1, <2>2, <2>3 DEF Fetch
<1>2. Inv /\ [Next]_vars =>
        [\A r \in Regions : \A a \in Addrs \ stale :
           Fetch(r, a) => ir' = ram[a]]_vars
  BY <1>1
<1> QED
  BY <1>2, InitInv, NextInv, PTL DEF Spec, FetchIsFresh
=============================================================================

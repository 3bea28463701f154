------------------------------- MODULE ICache -------------------------------
(***************************************************************************)
(* The instruction cache of src/cpu/mod.rs: fetches, partial refills, and  *)
(* the writes that reach the cache instead of the memory while SR isolates *)
(* it.                                                                     *)
(*                                                                         *)
(* An address is [tag, line, index], the bits [30:12], [11:4] and [3:2];   *)
(* the region, which the cache ignores, is apart.  `stale' is a history    *)
(* variable: the words whose copy in the cache, if there is one, is not    *)
(* expected to be the one in memory, because the memory or the copy was    *)
(* written since the line was last filled or invalidated.                  *)
(***************************************************************************)
EXTENDS Integers

CONSTANTS
  Tags,      \* tags of the addresses that are used; 0 is one of them
  Lines,     \* lines of the cache
  Vals,      \* instruction words
  Zero,      \* the word zero, one of them
  Written    \* the addresses of the code that is replaced

Index == 0 .. 3
Addrs == [tag : Tags, line : Lines, index : Index]
Regions == {"KUSEG", "KSEG0", "KSEG1"}

ASSUME ICacheAssumption ==
  0 \in Tags /\ Tags \subseteq Nat /\ Zero \in Vals /\ Written \subseteq Addrs

VARIABLES ram, icache, cc, isolated, ir, stale, panic

vars == <<ram, icache, cc, isolated, ir, stale, panic>>

LineType == [tag : Tags, valid : 0 .. 7, words : [Index -> Vals]]

\* The type invariant: invalidations and refills keep the number of the first
\* valid word in three bits.
TypeOK ==
  /\ ram \in [Addrs -> Vals]
  /\ icache \in [Lines -> LineType]
  /\ cc \in [enabled : BOOLEAN, tag_test : BOOLEAN]
  /\ isolated \in BOOLEAN /\ panic \in BOOLEAN
  /\ ir \in Vals /\ stale \subseteq Addrs

LineAddrs(l) == {a \in Addrs : a.line = l}

\* The cache starts with a tag and with valid words that were never loaded
Init ==
  /\ ram \in {[a \in Addrs |-> v] : v \in Vals \ {Zero}}
  /\ icache = [l \in Lines |->
                 [tag |-> 0, valid |-> 0, words |-> [i \in Index |-> Zero]]]
  /\ cc = [enabled |-> FALSE, tag_test |-> FALSE]
  /\ isolated = FALSE /\ ir = Zero /\ panic = FALSE
  /\ stale = {a \in Addrs : a.tag = 0}

----------------------------------------------------------------------------
\* Mutant: the whole line is valid after a refill
RefilledWhole(line, a) ==
  [tag |-> a.tag, valid |-> 0,
   words |-> [i \in Index |-> IF i >= a.index THEN ram[[a EXCEPT !.index = i]]
                              ELSE line.words[i]]]

\* The words from a on; the ones before it stay as they are and are invalid
Refilled(line, a) ==
  [tag |-> a.tag, valid |-> a.index,
   words |-> [i \in Index |-> IF i >= a.index THEN ram[[a EXCEPT !.index = i]]
                              ELSE line.words[i]]]

Miss(line, a) == line.tag # a.tag \/ line.valid > a.index

FetchCached(region, a) ==
  /\ ~panic /\ region # "KSEG1" /\ cc.enabled
  /\ LET line == icache[a.line]
         filled == IF Miss(line, a) THEN Refilled(line, a) ELSE line
     IN /\ icache' = [icache EXCEPT ![a.line] = filled]
        /\ ir' = filled.words[a.index]
        /\ stale' = IF Miss(line, a) THEN stale \ LineAddrs(a.line) ELSE stale
  /\ UNCHANGED <<ram, cc, isolated, panic>>

FetchUncached(region, a) ==
  /\ ~panic /\ (region = "KSEG1" \/ ~cc.enabled)
  /\ ir' = ram[a]
  /\ UNCHANGED <<ram, icache, cc, isolated, stale, panic>>

Fetch(region, a) == FetchCached(region, a) \/ FetchUncached(region, a)

----------------------------------------------------------------------------
\* store

StoreRam(a, v) ==
  /\ ~panic /\ ~isolated
  /\ ram' = [ram EXCEPT ![a] = v]
  /\ stale' = stale \cup {a}
  /\ UNCHANGED <<icache, cc, isolated, ir, panic>>

\* The index of the first valid word becomes one of 4 .. 7
Invalidated(line) == [line EXCEPT !.valid = IF @ < 4 THEN @ + 4 ELSE @]

\* cache_maintenance with a word of zero, the only one that is supported
MaintainTag(a) ==
  /\ ~panic /\ isolated /\ cc.enabled /\ cc.tag_test
  /\ icache' = [icache EXCEPT ![a.line] = Invalidated(@)]
  /\ stale' = stale \ LineAddrs(a.line)
  /\ UNCHANGED <<ram, cc, isolated, ir, panic>>

MaintainWord(a) ==
  /\ ~panic /\ isolated /\ cc.enabled /\ ~cc.tag_test
  /\ icache' = [icache EXCEPT ![a.line].words[a.index] = Zero]
  /\ stale' = IF Miss(icache[a.line], [a EXCEPT !.tag = icache[a.line].tag])
                THEN stale
                ELSE stale \cup {[a EXCEPT !.tag = icache[a.line].tag]}
  /\ UNCHANGED <<ram, cc, isolated, ir, panic>>

MaintainPanics(v) ==
  /\ ~panic /\ isolated /\ (~cc.enabled \/ v # Zero)
  /\ panic' = TRUE
  /\ UNCHANGED <<ram, icache, cc, isolated, ir, stale>>

SetCacheControl(c) ==
  /\ ~panic /\ cc' = c
  /\ UNCHANGED <<ram, icache, isolated, ir, stale, panic>>

\* MTC0 to SR
Isolate ==
  /\ ~panic /\ isolated' = ~isolated
  /\ UNCHANGED <<ram, icache, cc, ir, stale, panic>>

Next ==
  \/ \E r \in Regions, a \in Addrs : Fetch(r, a)
  \/ \E a \in Written, v \in Vals : StoreRam(a, v)
  \/ \E a \in Addrs : MaintainTag(a) \/ MaintainWord(a)
  \/ \E v \in Vals : MaintainPanics(v)
  \/ \E c \in [enabled : BOOLEAN, tag_test : BOOLEAN] : SetCacheControl(c)
  \/ Isolate

Spec == Init /\ [][Next]_vars

----------------------------------------------------------------------------
\* Properties

\* The word the cache would give without a refill is the one in memory, for
\* every word that is not stale: through partial refills, conflicting tags,
\* invalidations that keep the contents, and both cached regions.
Coherent ==
  \A a \in Addrs \ stale :
    ~Miss(icache[a.line], a) => icache[a.line].words[a.index] = ram[a]

\* A program that invalidates the lines of the code it replaced runs the new
\* code: a fetch of a word that is not stale gives the word in memory.
FetchIsFresh ==
  [][\A r \in Regions : \A a \in Addrs \ stale : Fetch(r, a) => ir' = ram[a]]_vars
=============================================================================

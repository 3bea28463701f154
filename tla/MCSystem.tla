------------------------------ MODULE MCSystem ------------------------------
EXTENDS System

MCDeltas == 0 .. 8
MCGpuDeltas == {3}
MCTicks == {1, 2}

\* A period of two and a half cycles, in its middle
MCHSyncs == {<<5, 3>>}
=============================================================================

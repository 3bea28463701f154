---------------------------- MODULE MCPadMemCard ----------------------------
EXTENDS PadMemCard
=============================================================================

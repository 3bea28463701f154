------------------------------ MODULE MCCdRom ------------------------------
EXTENDS CdRomFifos

MCStepDelay == [n \in DelayNames |-> IF n = "PARAM_PUSH" THEN 1 ELSE 2]
MCAsyncDelay == [k \in AsyncDelays |-> IF k = "pause" THEN 3 ELSE 10]
MCAsyncRxDelay == [k \in AsyncKinds |-> 1]
MCTicks == {1, 3}
MCOthers == {2, 3}
MCReads == {"SetLoc", "Read", "Pause", "SetMode"}
MCSeeks == {"SetLoc", "SeekL", "GetId"}
MCAny == {"Read", "Pause", "Init"}
=============================================================================

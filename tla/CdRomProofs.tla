---------------------------- MODULE CdRomProofs ----------------------------
(***************************************************************************)
(* Proofs about the CD-ROM controller and the program that drives it, for  *)
(* every choice of the delays, of the commands and of the program's        *)
(* behaviour: its types and its assertions, that no wakeup of the          *)
(* controller is lost, that the ring of struct Fifo is a queue which the   *)
(* parameters never outgrow, and that a program which follows the protocol *)
(* meets no panic.                                                         *)
(***************************************************************************)
EXTENDS CdRomFifos, TLAPS

(***************************************************************************)
(* What the steps of a sequence may rely on.  It is stronger than the two  *)
(* properties it implies: StepExecute needs its command and the absence of *)
(* an asynchronous response to have survived since start_command, and the  *)
(* transfer of the response needs a byte to transfer.                      *)
(***************************************************************************)
SequenceInv ==
  /\ InCommandNoIrq
  /\ InCommand => timer > 0
  /\ sequence \in {"CommandPending", "ParamPush"} =>
       command # None /\ async_response.kind = None
  /\ sequence \in {"Execution", "RxFlush", "RxPush", "AsyncRxPush"} =>
       response > 0
  /\ HostLen(host_response) <= 31
  /\ AssertionsHold

IInv == TypeOK /\ SequenceInv

\* The length of a FIFO stays in five bits (Fifo::len), and pushes and pops
\* count as expected away from the ends.
LEMMA FifoLemma ==
  /\ \A n \in 0 .. 31 : Push(n) \in 0 .. 31 /\ Pop(n) \in 0 .. 31
  /\ \A n \in 1 .. 31 : Pop(n) = n - 1
  /\ \A n \in 0 .. 30 : Push(n) = n + 1
  BY DEF Push, Pop

\* The next sector is always some cycles away (cycles_per_sector).
LEMMA SectorLemma == CyclesPerSector \in Positive
  BY CdRomAssumption DEF CyclesPerSector, Positive

\* CdRom::new establishes the invariant.
LEMMA InitInv == Init => IInv
<1> SUFFICES ASSUME Init PROVE IInv
  BY Zenon
<1> USE DEF Init
<1>1. HostOK /\ TimeOK /\ LoopOK
  BY DEF HostOK, TimeOK, LoopOK, None, Fifo
<1>2. SubOK
  BY DEF SubOK, NoAsync
<1>3. DriveOK
  BY Zenon DEF DriveOK, NotReading
<1>4. SequenceInv
  BY DEF SequenceInv, InCommandNoIrq, InCommand, HostLen, AssertionsHold, None
<1> QED
  BY <1>1, <1>2, <1>3, <1>4, Zenon DEF IInv, TypeOK

----------------------------------------------------------------------------
\* A step that leaves a group of variables alone preserves its type.
LEMMA GroupsUnchanged ==
  ASSUME TypeOK
  PROVE  /\ UNCHANGED host  => HostOK'
         /\ UNCHANGED sub   => SubOK'
         /\ UNCHANGED drive => DriveOK'
         /\ UNCHANGED time  => TimeOK'
<1> USE DEF TypeOK
<1>1. UNCHANGED host  => HostOK'
  BY Zenon DEF host, HostOK
<1>2. UNCHANGED sub   => SubOK'
  BY Zenon DEF sub, SubOK
<1>3. UNCHANGED drive => DriveOK'
  BY Zenon DEF drive, DriveOK
<1>4. UNCHANGED time  => TimeOK'
  BY Zenon DEF time, TimeOK
<1> QED
  BY <1>1, <1>2, <1>3, <1>4, Zenon

\* A panic changes nothing else; every panic but a failed assertion is allowed.
LEMMA PanicInv ==
  ASSUME IInv, Panic("unhandled")
  PROVE  IInv'
<1>1. HostOK' /\ SubOK' /\ DriveOK' /\ TimeOK'
  BY GroupsUnchanged, Zenon DEF IInv, Panic
<1>2. LoopOK'
  BY Zenon DEF IInv, TypeOK, LoopOK, Panic, loop
<1>3. SequenceInv'
  BY Zenon DEF IInv, SequenceInv, InCommandNoIrq, InCommand, HostLen,
     AssertionsHold, Panic, host, sub
<1> QED
  BY <1>1, <1>2, <1>3, Zenon DEF IInv, TypeOK

\* A stutter preserves the invariant.
LEMMA StutterInv ==
  ASSUME IInv, UNCHANGED vars
  PROVE  IInv'
<1>1. HostOK' /\ SubOK' /\ DriveOK' /\ TimeOK'
  BY GroupsUnchanged, Zenon DEF IInv, vars
<1>2. LoopOK'
  BY Zenon DEF IInv, TypeOK, LoopOK, vars, loop
<1>3. SequenceInv'
  BY Zenon DEF IInv, SequenceInv, InCommandNoIrq, InCommand, HostLen,
     AssertionsHold, vars, host, sub
<1> QED
  BY <1>1, <1>2, <1>3, Zenon DEF IInv, TypeOK

\* The transfer of a parameter (next_sub_cpu_step) keeps it.
LEMMA StepParamInv == IInv /\ StepParam => IInv'
<1> SUFFICES ASSUME IInv, StepParam PROVE IInv'
  BY Zenon
<1> USE DEF StepParam, GoTo, TimerExpires
<1>1. HostOK'
  BY FifoLemma DEF IInv, TypeOK, HostOK, Fifo
<1>2. SubOK'
  BY FifoLemma, CdRomAssumption, Zenon DEF IInv, TypeOK, SubOK, DelayNames,
     Positive
<1>3. DriveOK' /\ TimeOK'
  BY GroupsUnchanged, Zenon DEF IInv
<1>4. LoopOK'
  BY Zenon DEF IInv, TypeOK, LoopOK, SubOK
<1>5. SequenceInv'
  BY CdRomAssumption DEF IInv, TypeOK, SubOK, SequenceInv, InCommandNoIrq,
     InCommand, HostLen, AssertionsHold, DelayNames, Positive
<1> QED
  BY <1>1, <1>2, <1>3, <1>4, <1>5, Zenon DEF IInv, TypeOK

\* The execution of a command keeps it: the command is still there, and no
\* asynchronous response is pending that the new one would replace.
LEMMA StepExecuteInv == IInv /\ StepExecute => IInv'
<1> SUFFICES ASSUME IInv, StepExecute PROVE IInv'
  BY Zenon
<1> USE DEF StepExecute, TimerExpires
<1>1. ~ExecuteAsserts(command)
  BY Zenon DEF IInv, SequenceInv, ExecuteAsserts
<1>2. CASE ExecuteRefuses(command)
  BY <1>1, <1>2, PanicInv, Zenon
<1>3. CASE ~ExecuteRefuses(command)
  <2> ExecuteCommand(command) /\ GoTo("Execution", "EXECUTION")
        /\ UNCHANGED <<host, params>>
    BY <1>1, <1>3, Zenon
  <2> USE DEF ExecuteCommand, GoTo
  <2>1. HostOK' /\ TimeOK'
    BY GroupsUnchanged, Zenon DEF IInv
  <2>2. SubOK'
    <3>1. AsyncOf(command) # None =>
            AsyncOf(command) \in AsyncKinds /\ DelayOf(command) \in Positive
      BY CdRomAssumption, Zenon DEF AsyncOf, DelayOf, AsyncKinds, AsyncDelays,
         None
    <3>2. RespLen(command) \in 1 .. 8
      BY DEF RespLen
    <3> QED
      BY <3>1, <3>2, CdRomAssumption
      DEF IInv, TypeOK, SubOK, DelayNames, Positive
  <2>3. DriveOK'
    <3>1. ReadStateAfter(command) \in Nat \cup {NotReading}
      BY SectorLemma, Zenon DEF ReadStateAfter, IInv, TypeOK, DriveOK,
         Positive
    <3>2. seek_target' \in {"pregap", "data"}
      BY Zenon DEF IInv, TypeOK, DriveOK
    <3>3. seek_target_pending' \in BOOLEAN /\ read_pending' \in BOOLEAN
      BY Zenon DEF IInv, TypeOK, DriveOK
    <3> QED
      BY <3>1, <3>2, <3>3, Zenon DEF IInv, TypeOK, DriveOK
  <2>4. LoopOK'
    BY Zenon DEF IInv, TypeOK, LoopOK, SubOK
  <2>5. SequenceInv'
    <3>1. RespLen(command) > 0
      BY DEF RespLen
    <3> QED
      BY <3>1, CdRomAssumption DEF IInv, SequenceInv, InCommandNoIrq, InCommand,
         HostLen, AssertionsHold, DelayNames, Positive, host
  <2> QED
    BY <2>1, <2>2, <2>3, <2>4, <2>5, Zenon DEF IInv, TypeOK
<1> QED
  BY <1>2, <1>3, Zenon

\* The flush of the old response keeps it.
LEMMA StepFlushInv == IInv /\ StepFlush => IInv'
<1> SUFFICES ASSUME IInv, StepFlush PROVE IInv'
  BY Zenon
<1> USE DEF StepFlush, GoTo, TimerExpires
<1>1. HostOK'
  BY DEF IInv, TypeOK, HostOK
<1>2. SubOK'
  BY CdRomAssumption, Zenon DEF IInv, TypeOK, SubOK, DelayNames, Positive
<1>3. DriveOK' /\ TimeOK'
  BY GroupsUnchanged, Zenon DEF IInv
<1>4. LoopOK'
  BY Zenon DEF IInv, TypeOK, LoopOK, SubOK
<1>5. SequenceInv'
  BY CdRomAssumption DEF IInv, SequenceInv, InCommandNoIrq, InCommand, HostLen,
     AssertionsHold, DelayNames, Positive
<1> QED
  BY <1>1, <1>2, <1>3, <1>4, <1>5, Zenon DEF IInv, TypeOK

\* A byte fits in the response FIFO's 5-bit length.
LEMMA PushResponseLemma ==
  ASSUME NEW r \in [old : 0 .. 31, new : 0 .. 31], HostLen(r) <= 31
  PROVE  /\ PushResponse(r) \in [old : 0 .. 31, new : 0 .. 31]
         /\ HostLen(PushResponse(r)) <= 31
  BY DEF HostLen, PushResponse

\* The transfer of a byte: the steps of the first and of the second responses.
LEMMA PushByteInv ==
  ASSUME IInv, NEW seqs, TimerExpires(seqs),
         NEW last \in {"BusyDelay", "IrqDelay"},
         NEW lastDelay \in DelayNames,
         NEW more \in {"RxPush", "AsyncRxPush"},
         PushByte(last, lastDelay, more), response > 0, InCommand
  PROVE  IInv'
<1> USE DEF PushByte, GoTo, TimerExpires
<1>1. HostOK'
  BY PushResponseLemma, Zenon DEF IInv, TypeOK, HostOK, SequenceInv
<1>2. SubOK' /\ timer' > 0
  BY FifoLemma, CdRomAssumption DEF IInv, TypeOK, SubOK, DelayNames, Positive
<1>3. DriveOK' /\ TimeOK'
  BY GroupsUnchanged, Zenon DEF IInv
<1>4. LoopOK'
  BY Zenon DEF IInv, TypeOK, LoopOK, SubOK
<1>5. SequenceInv'
  BY <1>2, FifoLemma, PushResponseLemma
  DEF IInv, TypeOK, HostOK, SubOK, SequenceInv, InCommandNoIrq, InCommand,
      AssertionsHold
<1> QED
  BY <1>1, <1>2, <1>3, <1>4, <1>5, Zenon DEF IInv, TypeOK

\* The transfer of a response byte, of either kind of response, keeps it.
LEMMA StepRxInv == IInv /\ (StepRx \/ StepAsyncRx) => IInv'
<1>1. ASSUME IInv, StepRx PROVE IInv'
  BY <1>1, PushByteInv, Zenon DEF StepRx, TimerExpires, IInv, SequenceInv,
     InCommand, DelayNames
<1>2. ASSUME IInv, StepAsyncRx PROVE IInv'
  BY <1>2, PushByteInv, Zenon DEF StepAsyncRx, TimerExpires, IInv,
     SequenceInv, InCommand, DelayNames
<1> QED
  BY <1>1, <1>2, Zenon

\* The step that clears the busy flag keeps it.
LEMMA StepBusyInv == IInv /\ StepBusy => IInv'
<1> SUFFICES ASSUME IInv, StepBusy PROVE IInv'
  BY Zenon
<1> USE DEF StepBusy, GoTo, TimerExpires
<1>1. HostOK' /\ DriveOK' /\ TimeOK'
  BY GroupsUnchanged, Zenon DEF IInv
<1>2. SubOK'
  BY CdRomAssumption, Zenon DEF IInv, TypeOK, SubOK, DelayNames, Positive
<1>3. LoopOK'
  BY Zenon DEF IInv, TypeOK, LoopOK, SubOK
<1>4. SequenceInv'
  BY CdRomAssumption DEF IInv, SequenceInv, InCommandNoIrq, InCommand, HostLen,
     AssertionsHold, DelayNames, Positive, host
<1> QED
  BY <1>1, <1>2, <1>3, <1>4, Zenon DEF IInv, TypeOK

\* The assert! of trigger_irq holds because a sequence runs only while no
\* interrupt is pending.
LEMMA StepIrqInv == IInv /\ StepIrq => IInv'
<1> SUFFICES ASSUME IInv, StepIrq PROVE IInv'
  BY Zenon
<1> USE DEF StepIrq, TimerExpires
<1>1. irq_flags = {}
  BY Zenon DEF IInv, SequenceInv, InCommandNoIrq, InCommand
<1>2. HostOK'
  BY <1>1, Zenon DEF IInv, TypeOK, HostOK, SubOK, IrqBits
<1>3. SubOK'
  BY <1>1, Zenon DEF IInv, TypeOK, SubOK
<1>4. DriveOK' /\ TimeOK'
  BY <1>1, GroupsUnchanged, Zenon DEF IInv
<1>5. LoopOK'
  BY <1>1, Zenon DEF IInv, TypeOK, LoopOK, SubOK
<1>6. SequenceInv'
  BY <1>1, Zenon DEF IInv, SequenceInv, InCommandNoIrq, InCommand, HostLen,
     AssertionsHold
<1> QED
  BY <1>2, <1>3, <1>4, <1>5, <1>6, Zenon DEF IInv, TypeOK

\* An iteration of sync in which no step of the sequence ends keeps it.
LEMMA StepNothingInv == IInv /\ StepNothing => IInv'
<1> SUFFICES ASSUME IInv, StepNothing PROVE IInv'
  BY Zenon
<1> USE DEF StepNothing
<1>1. HostOK' /\ DriveOK' /\ TimeOK'
  BY GroupsUnchanged, Zenon DEF IInv
<1>2. SubOK'
  BY DEF IInv, TypeOK, SubOK, LoopOK
<1>3. LoopOK'
  BY DEF IInv, TypeOK, LoopOK
<1>4. SequenceInv'
  BY DEF IInv, TypeOK, SubOK, LoopOK, SequenceInv, InCommandNoIrq, InCommand,
     HostLen, AssertionsHold, host
<1> QED
  BY <1>1, <1>2, <1>3, <1>4, Zenon DEF IInv, TypeOK

\* Starting the response to an asynchronous command.
LEMMA ProcessAsyncLemma ==
  ASSUME IInv, ProcessAsync, async_response.kind # None, UNCHANGED panic,
         UNCHANGED command, host_params' \in 0 .. Fifo, irq_flags' = {}
  PROVE  HostOK' /\ SubOK' /\ DriveOK' /\ SequenceInv' /\ timer' \in Nat
<1> USE DEF ProcessAsync
<1>1. HostOK' /\ HostLen(host_response') <= 31
  BY DEF IInv, TypeOK, HostOK, SequenceInv, Aged, HostLen
<1>2. async_response.kind \in AsyncKinds
  BY Zenon DEF IInv, TypeOK, SubOK
<1>3. SubOK' /\ timer' > 0 /\ response' > 0
  BY <1>2, CdRomAssumption
  DEF IInv, TypeOK, SubOK, AsyncLen, NoAsync, Positive
<1>4. DriveOK'
  BY Zenon DEF IInv, TypeOK, DriveOK
<1>5. SequenceInv'
  BY <1>1, <1>3, Zenon DEF IInv, SequenceInv, InCommandNoIrq, InCommand,
     AssertionsHold
<1> QED
  BY <1>1, <1>3, <1>4, <1>5, Zenon DEF SubOK

\* Starting the notification of a sector.
LEMMA NotifyReadLemma ==
  ASSUME IInv, NotifyRead, UNCHANGED panic,
         UNCHANGED command, host_params' \in 0 .. Fifo, irq_flags' = {}
  PROVE  /\ HostOK' /\ SubOK' /\ SequenceInv'
         /\ read_pending' \in BOOLEAN /\ timer' \in Nat
<1> USE DEF NotifyRead
<1>1. HostOK' /\ HostLen(host_response') <= 31
  BY DEF IInv, TypeOK, HostOK, SequenceInv, Aged, HostLen
<1>2. SubOK' /\ timer' > 0 /\ response' > 0
  BY CdRomAssumption DEF IInv, TypeOK, SubOK, DelayNames, Positive
<1>3. SequenceInv'
  BY <1>1, <1>2, Zenon DEF IInv, SequenceInv, InCommandNoIrq, InCommand,
     AssertionsHold
<1> QED
  BY <1>1, <1>2, <1>3, Zenon DEF SubOK

\* The asynchronous response, ripe or not, keeps it.
LEMMA SyncAsyncInv == IInv /\ SyncAsync => IInv'
<1> SUFFICES ASSUME IInv, SyncAsync PROVE IInv'
  BY Zenon
<1> USE DEF SyncAsync
<1>1. LoopOK'
  BY Zenon DEF IInv, TypeOK, LoopOK
<1>2. HostOK' /\ SubOK' /\ DriveOK' /\ SequenceInv' /\ gdue' \in Int
  <2>1. CASE async_response.kind = None
    <3>1. HostOK' /\ SubOK' /\ DriveOK'
      BY <2>1, GroupsUnchanged, Zenon DEF IInv
    <3> QED
      BY <2>1, <3>1, Zenon DEF IInv, TypeOK, TimeOK, SequenceInv,
         InCommandNoIrq, InCommand, HostLen, AssertionsHold, host, sub
  <2>2. CASE async_response.kind # None /\ async_response.delay > elapsed
    <3>1. HostOK' /\ DriveOK'
      BY <2>2, GroupsUnchanged, Zenon DEF IInv
    <3>2. SubOK' /\ async_response'.kind = async_response.kind
      BY <2>2 DEF IInv, TypeOK, SubOK, LoopOK
    <3> QED
      BY <2>2, <3>1, <3>2, Zenon DEF IInv, TypeOK, TimeOK, SequenceInv,
         InCommandNoIrq, InCommand, HostLen, AssertionsHold, host
  <2>3. CASE /\ async_response.kind # None /\ ~(async_response.delay > elapsed)
             /\ SubCpuFree
    <3>1. ProcessAsync /\ gdue' = Earliest(gdue, timer') /\ UNCHANGED panic
            /\ UNCHANGED command /\ host_params' \in 0 .. Fifo
            /\ irq_flags' = {}
      BY <2>3, Zenon DEF SubCpuFree, IInv, TypeOK, HostOK
    <3> QED
      BY <2>3, <3>1, ProcessAsyncLemma DEF IInv, TypeOK, TimeOK, Earliest
  <2>4. CASE /\ async_response.kind # None /\ ~(async_response.delay > elapsed)
             /\ ~SubCpuFree
    <3>1. HostOK' /\ DriveOK'
      BY <2>4, GroupsUnchanged, Zenon DEF IInv
    <3>2. SubOK' /\ async_response'.kind = async_response.kind
      BY <2>4 DEF IInv, TypeOK, SubOK
    <3> QED
      BY <2>4, <3>1, <3>2, Zenon DEF IInv, TypeOK, TimeOK, SequenceInv,
         InCommandNoIrq, InCommand, HostLen, AssertionsHold, host
  <2> QED
    BY <2>1, <2>2, <2>3, <2>4, Zenon
<1> QED
  BY <1>1, <1>2, Zenon DEF IInv, TypeOK, TimeOK

\* The sector read, due or not, keeps it.
LEMMA SyncReadInv == IInv /\ SyncRead => IInv'
<1> SUFFICES ASSUME IInv, SyncRead PROVE IInv'
  BY Zenon
<1> USE DEF SyncRead
<1>1. CASE read_state # NotReading /\ read_state <= elapsed /\ SectorFails
  BY <1>1, PanicInv, Zenon
<1>2. CASE ~(read_state # NotReading /\ read_state <= elapsed /\ SectorFails)
  <2>1. LoopOK'
    BY <1>2 DEF IInv, TypeOK, LoopOK, CyclesLeft
  <2>2. HostOK' /\ SubOK' /\ DriveOK' /\ SequenceInv' /\ gdue' \in Int
    <3>1. CASE read_state = NotReading
      <4>1. HostOK' /\ SubOK' /\ DriveOK'
        BY <1>2, <3>1, GroupsUnchanged, Zenon DEF IInv
      <4> QED
        BY <1>2, <3>1, <4>1, Zenon DEF IInv, TypeOK, TimeOK, SequenceInv,
           InCommandNoIrq, InCommand, HostLen, AssertionsHold, host, sub
    <3>2. CASE read_state # NotReading /\ read_state > elapsed
      <4>1. HostOK' /\ SubOK'
        BY <1>2, <3>2, GroupsUnchanged, Zenon DEF IInv
      <4>2. DriveOK'
        BY <1>2, <3>2 DEF IInv, TypeOK, DriveOK, LoopOK
      <4> QED
        BY <1>2, <3>2, <4>1, <4>2, Zenon DEF IInv, TypeOK, TimeOK,
           SequenceInv, InCommandNoIrq, InCommand, HostLen, AssertionsHold, host,
           sub
    <3>3. CASE read_state # NotReading /\ ~(read_state > elapsed)
      <4> USE DEF SectorRead
      <4>0. read_state \in Nat /\ elapsed \in Nat /\ ~SectorFails /\ SectorRead
              /\ UNCHANGED panic
        BY <1>2, <3>3 DEF IInv, TypeOK, DriveOK, LoopOK
      <4>1. read_state' \in Nat
        BY <4>0, <3>3, SectorLemma DEF SectorFails, Positive
      <4>2. /\ position' \in {"pregap", "data"}
            /\ seek_target' \in {"pregap", "data"}
            /\ seek_target_pending' \in BOOLEAN /\ double_speed' \in BOOLEAN
        BY <4>0, Zenon DEF IInv, TypeOK, DriveOK
      <4>3. CASE SubCpuFree
        <5>1. NotifyRead /\ gdue' = Earliest(gdue, timer') /\ irq_flags' = {}
                /\ UNCHANGED command /\ host_params' \in 0 .. Fifo
          BY <4>0, <4>3, Zenon DEF SubCpuFree, IInv, TypeOK, HostOK
        <5>2. HostOK' /\ SubOK' /\ SequenceInv' /\ read_pending' \in BOOLEAN
                /\ timer' \in Nat
          BY <5>1, <4>0, NotifyReadLemma, Zenon
        <5>3. gdue' \in Int
          BY <5>1, <5>2 DEF Earliest, IInv, TypeOK, TimeOK
        <5> QED
          BY <4>1, <4>2, <5>2, <5>3, Zenon DEF DriveOK
      <4>4. CASE ~SubCpuFree
        <5>1. HostOK' /\ SubOK'
          BY <4>0, <4>4, GroupsUnchanged, Zenon DEF IInv
        <5>2. read_pending' \in BOOLEAN
          BY <4>0, <4>4, Zenon
        <5> QED
          BY <4>0, <4>1, <4>2, <4>4, <5>1, <5>2, Zenon DEF DriveOK, IInv,
             TypeOK, TimeOK, SequenceInv, InCommandNoIrq, InCommand, HostLen,
             AssertionsHold, host, sub
      <4> QED
        BY <4>3, <4>4, Zenon
    <3> QED
      BY <3>1, <3>2, <3>3, Zenon
  <2> QED
    BY <1>2, <2>1, <2>2, Zenon DEF IInv, TypeOK, TimeOK
<1> QED
  BY <1>1, <1>2, Zenon

\* The dates the controller computes are integers.
LEMMA PredictLemma ==
  ASSUME NEW seq, NEW tmr \in Nat, NEW flags,
         NEW async \in [kind : AsyncKinds \cup {None}, delay : Nat],
         NEW reading \in Nat \cup {NotReading}
  PROVE  /\ NextDelta(seq, tmr, flags, async) \in Nat
         /\ SheetDate(NextDelta(seq, tmr, flags, async), reading) \in Int
  BY CdRomAssumption DEF NextDelta, SheetDate, Earliest, NotReading, Positive

\* Steps that only change the dates and the position in the loop.
LEMMA TimeStepInv ==
  ASSUME IInv, UNCHANGED <<host, sub, drive>>, TimeOK', LoopOK', UNCHANGED panic
  PROVE  IInv'
<1>1. HostOK' /\ SubOK' /\ DriveOK'
  BY GroupsUnchanged, Zenon DEF IInv
<1>2. SequenceInv'
  BY Zenon DEF IInv, SequenceInv, InCommandNoIrq, InCommand, HostLen,
     AssertionsHold, host, sub
<1> QED
  BY <1>1, <1>2, Zenon DEF IInv, TypeOK

\* The end of sync, which predicts the next one, keeps it.
LEMMA SyncEndInv == IInv /\ (SyncEndAccess \/ SyncEndCpu) => IInv'
<1> SUFFICES ASSUME IInv, SyncEndAccess \/ SyncEndCpu PROVE IInv'
  BY Zenon
<1>1. /\ timer \in Nat /\ read_state \in Nat \cup {NotReading}
      /\ async_response \in [kind : AsyncKinds \cup {None}, delay : Nat]
      /\ since \in Nat /\ gdue \in Int
  BY Zenon DEF IInv, TypeOK, SubOK, DriveOK, TimeOK
<1>2. /\ NextDelta(sequence, timer, irq_flags, async_response) \in Nat
      /\ SheetDate(NextDelta(sequence, timer, irq_flags, async_response),
                   read_state) \in Int
  BY <1>1, PredictLemma, Zenon
<1>3. TimeOK'
  BY <1>1, <1>2, CdRomAssumption
  DEF SyncEndAccess, SyncEndCpu, PredictNextSync, TimeOK, Earliest, Positive
<1>4. LoopOK' /\ UNCHANGED <<host, sub, drive>> /\ UNCHANGED panic
  BY Zenon DEF SyncEndAccess, SyncEndCpu, IInv, TypeOK, LoopOK
<1> QED
  BY <1>3, <1>4, TimeStepInv, Zenon

\* The main loop, and accesses that change nothing, keep it.
LEMMA CpuInv == IInv /\ (CpuSync \/ Instruction \/ Access \/ Poll) => IInv'
<1> SUFFICES ASSUME IInv, CpuSync \/ Instruction \/ Access \/ Poll PROVE IInv'
  BY Zenon
<1> USE DEF CpuSync, Instruction, Access, Poll, StartSync, Handler, Return
<1>1. TimeOK'
  BY CdRomAssumption DEF IInv, TypeOK, TimeOK, time, Later, Earliest, Positive
<1>2. LoopOK'
  BY CdRomAssumption DEF IInv, TypeOK, TimeOK, LoopOK, loop, Positive
<1>3. UNCHANGED <<host, sub, drive>> /\ UNCHANGED panic
  BY Zenon
<1> QED
  BY <1>1, <1>2, <1>3, TimeStepInv, Zenon

\* A read of RESULT keeps it.
LEMMA ReadResponseInv == IInv /\ ReadResponse => IInv'
<1> SUFFICES ASSUME IInv, ReadResponse PROVE IInv'
  BY Zenon
<1> USE DEF ReadResponse, Return, Handler
<1>1. CASE HostLen(host_response) = 0
  BY <1>1, PanicInv, Zenon
<1>2. CASE HostLen(host_response) # 0
  <2>1. HostOK' /\ HostLen(host_response') <= 31
    BY <1>2 DEF IInv, TypeOK, HostOK, SequenceInv, HostLen, PopResponse
  <2>2. SubOK' /\ DriveOK' /\ TimeOK'
    BY <1>2, GroupsUnchanged, Zenon DEF IInv
  <2>3. LoopOK'
    BY <1>2, Zenon DEF IInv, TypeOK, LoopOK
  <2>4. SequenceInv'
    BY <1>2, <2>1, Zenon DEF IInv, SequenceInv, InCommandNoIrq, InCommand,
       AssertionsHold, sub
  <2> QED
    BY <2>1, <2>2, <2>3, <2>4, Zenon DEF IInv, TypeOK
<1> QED
  BY <1>1, <1>2, Zenon

\* A write of a parameter keeps it.
LEMMA SetParameterInv == IInv /\ SetParameter => IInv'
<1> SUFFICES ASSUME IInv, SetParameter PROVE IInv'
  BY Zenon
<1> USE DEF SetParameter, Return, Handler
<1>1. CASE command # None \/ host_params = Fifo
  BY <1>1, PanicInv, Zenon
<1>2. CASE ~(command # None \/ host_params = Fifo)
  <2>1. HostOK'
    <3>1. host_params \in 0 .. 15
      BY <1>2 DEF IInv, TypeOK, HostOK, Fifo
    <3>2. Push(host_params) \in 0 .. Fifo
      BY <3>1, FifoLemma DEF Fifo
    <3> QED
      BY <1>2, <3>2, Zenon DEF IInv, TypeOK, HostOK
  <2>2. SubOK' /\ DriveOK' /\ TimeOK'
    BY <1>2, GroupsUnchanged, Zenon DEF IInv
  <2>3. LoopOK'
    BY <1>2, Zenon DEF IInv, TypeOK, LoopOK
  <2>4. SequenceInv'
    BY <1>2, Zenon DEF IInv, SequenceInv, InCommandNoIrq, InCommand, HostLen,
       AssertionsHold, sub
  <2> QED
    BY <2>1, <2>2, <2>3, <2>4, Zenon DEF IInv, TypeOK
<1> QED
  BY <1>1, <1>2, Zenon

\* Starting a command: no interrupt and no asynchronous response is pending.
LEMMA StartCommandLemma ==
  ASSUME IInv, StartCommand, UNCHANGED panic, UNCHANGED host_response,
         command' # None, irq_flags' = {}, async_response.kind = None
  PROVE  SubOK' /\ SequenceInv'
<1> USE DEF StartCommand
<1>1. SubOK' /\ timer' > 0
  BY CdRomAssumption DEF IInv, TypeOK, SubOK, DelayNames, Positive
<1>2. SequenceInv'
  BY <1>1, Zenon DEF IInv, SequenceInv, InCommandNoIrq, InCommand,
     AssertionsHold, HostLen
<1> QED
  BY <1>1, <1>2, Zenon

\* A write of a command, which may start at once, keeps it.
LEMMA SetCommandInv ==
  ASSUME IInv, NEW c \in Commands, SetCommand(c)
  PROVE  IInv'
<1> USE DEF SetCommand, Return, Handler
<1> c \in AllCommands
  BY CdRomAssumption, Zenon
<1>1. CASE command # None \/ (SubCpuFree /\ async_response.kind # None)
  BY <1>1, PanicInv, Zenon
<1>2. CASE ~(command # None \/ (SubCpuFree /\ async_response.kind # None))
  <2>1. HostOK'
    BY <1>2, Zenon DEF IInv, TypeOK, HostOK
  <2>2. DriveOK'
    BY <1>2, GroupsUnchanged, Zenon DEF IInv
  <2>3. LoopOK' /\ UNCHANGED panic
    BY <1>2, Zenon DEF IInv, TypeOK, LoopOK
  <2>4. c # None
    BY Zenon DEF AllCommands, None
  <2>5. SubOK' /\ SequenceInv' /\ TimeOK'
    <3>1. CASE SubCpuFree
      <4>1. StartCommand /\ irq_flags' = {}
        BY <1>2, <3>1, Zenon DEF SubCpuFree
      <4>2. SubOK' /\ SequenceInv'
        BY <1>2, <2>3, <2>4, <3>1, <4>1, StartCommandLemma, Zenon
      <4>3. NextDelta(sequence', timer', irq_flags, async_response) \in Nat
            /\ SheetDate(NextDelta(sequence', timer', irq_flags,
                                   async_response), read_state) \in Int
        BY <4>2, PredictLemma, Zenon DEF IInv, TypeOK, SubOK, DriveOK
      <4>4. PredictNextSync(sequence', timer', irq_flags, async_response,
                            read_state) /\ UNCHANGED since
        BY <1>2, <3>1, Zenon
      <4>5. TimeOK
        BY Zenon DEF IInv, TypeOK
      <4>6. TimeOK'
        <5> HIDE DEF SetCommand, Return, Handler
        <5> QED
          BY <4>3, <4>4, <4>5 DEF TimeOK, PredictNextSync, Earliest
      <4> QED
        BY <4>2, <4>6, Zenon
    <3>2. CASE ~SubCpuFree
      <4>1. SubOK'
        BY <1>2, <3>2, GroupsUnchanged, Zenon DEF IInv
      <4>2. TimeOK'
        BY <1>2, <3>2, Zenon DEF IInv, TypeOK, TimeOK
      <4>3. SequenceInv'
        BY <1>2, <2>4, <3>2, Zenon DEF IInv, SequenceInv, InCommandNoIrq,
           InCommand, HostLen, AssertionsHold, sub
      <4> QED
        BY <4>1, <4>2, <4>3, Zenon
    <3> QED
      BY <3>1, <3>2, Zenon
  <2> QED
    BY <2>1, <2>2, <2>3, <2>5, Zenon DEF IInv, TypeOK
<1> QED
  BY <1>1, <1>2, Zenon

\* An acknowledgement, which may start what waited for it, keeps it.
LEMMA IrqAckInv ==
  ASSUME IInv, NEW v \in SUBSET {0, 1, 2}, NEW clr \in BOOLEAN,
         IrqAck(v, clr)
  PROVE  IInv'
<1> DEFINE flags == irq_flags \ v
<1> DEFINE refused == /\ flags = {} /\ ~InCommand
                      /\ command # None /\ async_response.kind # None
<1>1. CASE refused
  BY <1>1, PanicInv, Zenon DEF IrqAck
<1>2. CASE ~refused
  <2> DEFINE free == flags = {} /\ ~InCommand
  <2> DEFINE ready == async_response.kind # None /\ async_response.delay = 0
  <2>1. /\ irq_flags' = flags /\ StartWaiting(flags)
        /\ host_params' = IF clr THEN 0 ELSE host_params
        /\ Return /\ UNCHANGED <<command, since>>
        /\ IF sequence' # sequence
             THEN PredictNextSync(sequence', timer', flags, async_response',
                                  read_state')
             ELSE UNCHANGED <<due, gdue>>
    BY <1>2, Zenon DEF IrqAck, Handler
  <2>2. /\ command' \in AllCommands \cup {None}
        /\ host_params' \in 0 .. Fifo /\ irq_flags' \in SUBSET {0, 1, 2}
        /\ LoopOK' /\ UNCHANGED panic
    BY <2>1 DEF IInv, TypeOK, HostOK, LoopOK, Return, Fifo, IrqAck, Handler
  <2> HIDE DEF flags
  <2>3. HostOK' /\ SubOK' /\ DriveOK' /\ SequenceInv'
    <3>1. CASE free /\ command # None
      <4>1. StartCommand /\ UNCHANGED <<host_response, drive>>
        BY <2>1, <3>1, Zenon DEF StartWaiting
      <4>2. async_response.kind = None
        BY <1>2, <3>1, Zenon DEF flags
      <4>3. SubOK' /\ SequenceInv'
        BY <2>1, <2>2, <3>1, <4>1, <4>2, StartCommandLemma, Zenon
      <4>4. HostOK'
        BY <2>2, <4>1, Zenon DEF HostOK, IInv, TypeOK
      <4> QED
        BY <4>1, <4>3, <4>4, GroupsUnchanged, Zenon DEF IInv
    <3>2. CASE free /\ command = None /\ ready
      <4>1. ProcessAsync
        BY <2>1, <3>2, Zenon DEF StartWaiting
      <4> QED
        BY <2>1, <2>2, <3>2, <4>1, ProcessAsyncLemma, Zenon
    <3>3. CASE free /\ command = None /\ ~ready /\ read_pending
      <4>1. NotifyRead /\ UNCHANGED <<read_state, seek_target,
                                      seek_target_pending, position,
                                      double_speed>>
        BY <2>1, <3>3, Zenon DEF StartWaiting
      <4>2. HostOK' /\ SubOK' /\ SequenceInv' /\ read_pending' \in BOOLEAN
        BY <2>1, <2>2, <3>3, <4>1, NotifyReadLemma, Zenon
      <4>3. DriveOK'
        BY <4>1, <4>2, Zenon DEF IInv, TypeOK, DriveOK
      <4> QED
        BY <4>2, <4>3, Zenon
    <3>4. CASE ~(free /\ (command # None \/ ready \/ read_pending))
      <4>1. UNCHANGED <<sub, drive, host_response>>
        BY <2>1, <3>4, Zenon DEF StartWaiting
      <4>2. HostOK'
        BY <2>2, <4>1, Zenon DEF IInv, TypeOK, HostOK
      <4>3. irq_flags = {} => irq_flags' = {}
        BY <2>1, Zenon DEF flags
      <4>4. SequenceInv'
        BY <2>1, <2>2, <4>1, <4>3, Zenon DEF IInv, SequenceInv,
           InCommandNoIrq, InCommand, HostLen, AssertionsHold, sub
      <4> QED
        BY <4>1, <4>2, <4>4, GroupsUnchanged, Zenon DEF IInv
    <3> QED
      BY <3>1, <3>2, <3>3, <3>4, Zenon
  <2>4. TimeOK'
    <3>1. NextDelta(sequence', timer', flags, async_response') \in Nat
          /\ SheetDate(NextDelta(sequence', timer', flags, async_response'),
                       read_state') \in Int
      BY <2>3, PredictLemma, Zenon DEF SubOK, DriveOK
    <3> QED
      BY <2>1, <3>1 DEF IInv, TypeOK, TimeOK, PredictNextSync, Earliest
  <2> QED
    BY <2>2, <2>3, <2>4, Zenon DEF IInv, TypeOK
<1> QED
  BY <1>1, <1>2, Zenon

----------------------------------------------------------------------------
(***************************************************************************)
(* The inductive invariant holds in every reachable state.                 *)
(***************************************************************************)
THEOREM Invariance == Spec => []IInv
<1>1. ASSUME IInv, [Next]_vars PROVE IInv'
  <2> USE <1>1
  <2>1. CASE SubCpuStep
    BY <2>1, StepParamInv, StepExecuteInv, StepFlushInv, StepRxInv,
       StepBusyInv, StepIrqInv, StepNothingInv, Zenon DEF SubCpuStep
  <2>2. CASE SyncAsync \/ SyncRead \/ SyncEndAccess \/ SyncEndCpu
    BY <2>2, SyncAsyncInv, SyncReadInv, SyncEndInv, Zenon
  <2>3. CASE CpuSync \/ Program
    BY <2>3, CpuInv, ReadResponseInv, SetParameterInv, SetCommandInv,
       IrqAckInv, Zenon DEF Program
  <2>4. CASE UNCHANGED vars
    BY <2>4, StutterInv, Zenon
  <2> QED
    BY <2>1, <2>2, <2>3, <2>4, Zenon DEF Next, Sync
<1> QED
  BY <1>1, InitInv, PTL DEF Spec

(***************************************************************************)
(* Every reachable state of the controller is well typed.                  *)
(***************************************************************************)
THEOREM TypeCorrect == Spec => []TypeOK
  BY Invariance, PTL DEF IInv

(***************************************************************************)
(* A sequence never runs while an interrupt is pending.                    *)
(***************************************************************************)
THEOREM SequenceExcludesIrq == Spec => []InCommandNoIrq
  BY Invariance, PTL DEF IInv, SequenceInv

(***************************************************************************)
(* No assert! or unwrap() of the controller fails, whatever the program    *)
(* writes to its registers.                                                *)
(***************************************************************************)
THEOREM AssertionsNeverFail == Spec => []AssertionsHold
  BY Invariance, PTL DEF IInv, SequenceInv

----------------------------------------------------------------------------
(***************************************************************************)
(* What keeps the response fresh until its interrupt.  A first response,   *)
(* announced as Ok or Error, is pushed after the flush and by no other     *)
(* sequence; that the interrupt's code is still the one of the sequence    *)
(* that pushed the bytes is what makes the statement inductive.            *)
(***************************************************************************)
FirstCodes == {"Ok", "Error"}

Fresh ==
  /\ ResponseIsFresh
  /\ sequence \in {"RxFlush", "RxPush", "BusyDelay"} => host_response.old = 0
  /\ sequence = "IrqDelay" /\ irq_code \in FirstCodes => host_response.old = 0
  /\ sequence = "AsyncRxPush" => irq_code \notin FirstCodes

\* Steps that leave the response and the sequence alone keep it.
LEMMA FreshElsewhere ==
  ASSUME Fresh, UNCHANGED <<host_response, sequence, irq_code>>,
         irq_flags' # {} => irq_flags # {}
  PROVE  Fresh'
  BY Zenon DEF Fresh, ResponseIsFresh

\* Starting a sequence: nothing of the response is announced yet.
LEMMA FreshStart ==
  ASSUME irq_flags' = {},
         StartCommand \/ ProcessAsync \/ NotifyRead
  PROVE  Fresh'
  BY Zenon DEF StartCommand, ProcessAsync, NotifyRead, Fresh, ResponseIsFresh,
     FirstCodes

\* Old bytes are only ever popped, and pushes add new ones.
LEMMA OldBytes ==
  ASSUME NEW r \in [old : 0 .. 31, new : 0 .. 31], r.old = 0
  PROVE  PushResponse(r).old = 0 /\ PopResponse(r).old = 0
  BY DEF PushResponse, PopResponse

\* Every step keeps the response fresh.
LEMMA FreshLemma ==
  ASSUME IInv, Fresh, [Next]_vars
  PROVE  Fresh'
<1>0. /\ host_response \in [old : 0 .. 31, new : 0 .. 31]
      /\ InCommand => irq_flags = {}
  BY Zenon DEF IInv, TypeOK, HostOK, SequenceInv, InCommandNoIrq
<1>1. ASSUME NEW reason, Panic(reason) PROVE Fresh'
  BY <1>1, FreshElsewhere, Zenon DEF Panic, host, sub
<1>2. CASE StepParam \/ StepFlush \/ StepBusy
  BY <1>0, <1>2 DEF StepParam, StepFlush, StepBusy, TimerExpires, GoTo, InCommand,
     Fresh, ResponseIsFresh, host
<1>3. CASE StepExecute
  <2>1. CASE ExecuteAsserts(command) \/ ExecuteRefuses(command)
    BY <1>1, <1>3, <2>1, Zenon DEF StepExecute
  <2>2. CASE ~ExecuteAsserts(command) /\ ~ExecuteRefuses(command)
    <3>1. sequence' = "Execution" /\ irq_flags' = irq_flags /\ InCommand
      BY <1>3, <2>2, Zenon DEF StepExecute, GoTo, host, TimerExpires,
         InCommand
    <3> QED BY <1>0, <3>1, Zenon DEF Fresh, ResponseIsFresh
  <2> QED BY <2>1, <2>2, Zenon
<1>4. CASE StepRx
  <2>1. /\ host_response' = PushResponse(host_response) /\ host_response.old = 0
        /\ irq_flags' = irq_flags /\ irq_code' = irq_code /\ InCommand
        /\ sequence' \in {"RxPush", "BusyDelay"}
    BY <1>4, Zenon DEF StepRx, PushByte, GoTo, TimerExpires, InCommand, Fresh
  <2> QED BY <1>0, <2>1, OldBytes, Zenon DEF Fresh, ResponseIsFresh
<1>5. CASE StepAsyncRx
  <2>1. /\ irq_flags' = irq_flags /\ irq_code' = irq_code /\ InCommand
        /\ sequence' \in {"AsyncRxPush", "IrqDelay"}
        /\ irq_code \notin FirstCodes
    BY <1>5, Zenon DEF StepAsyncRx, PushByte, GoTo, TimerExpires, InCommand,
       Fresh
  <2> QED BY <1>0, <2>1, Zenon DEF Fresh, ResponseIsFresh
<1>6. CASE StepIrq
  <2>1. /\ irq_flags = {} /\ sequence = "IrqDelay"
    BY <1>0, <1>6, Zenon DEF StepIrq, TimerExpires, InCommand
  <2> QED BY <1>6, <2>1, Zenon DEF StepIrq, Fresh, ResponseIsFresh, FirstCodes
<1>7. CASE StepNothing
  BY <1>7, FreshElsewhere, Zenon DEF StepNothing, host
<1>8. CASE SyncAsync
  <2>1. CASE async_response.kind # None /\ ~(async_response.delay > elapsed) /\ SubCpuFree
    BY <1>8, <2>1, FreshStart, Zenon DEF SyncAsync, SubCpuFree
  <2>2. CASE ~(async_response.kind # None /\ ~(async_response.delay > elapsed) /\ SubCpuFree)
    BY <1>8, <2>2, FreshElsewhere, Zenon DEF SyncAsync, host, sub
  <2> QED BY <2>1, <2>2, Zenon
<1>9. CASE SyncRead
  <2>1. CASE \E reason : Panic(reason)
    BY <1>1, <2>1, Zenon
  <2>2. CASE SectorRead /\ SubCpuFree
    BY <2>2, FreshStart, Zenon DEF SectorRead, SubCpuFree
  <2>3. CASE UNCHANGED <<host, sub>>
    BY <2>3, FreshElsewhere, Zenon DEF host, sub
  <2> QED BY <1>9, <2>1, <2>2, <2>3, Zenon DEF SyncRead, SectorRead
<1>10. CASE SyncEndAccess \/ SyncEndCpu \/ CpuSync \/ Instruction \/ Access \/ Poll
            \/ UNCHANGED vars
  <2>1. UNCHANGED <<host, sub>>
    BY <1>10, Zenon DEF SyncEndAccess, SyncEndCpu, CpuSync, Instruction,
       Access, Poll, vars
  <2> QED BY <2>1, FreshElsewhere, Zenon DEF host, sub
<1>11. CASE ReadResponse
  <2>1. CASE HostLen(host_response) = 0
    BY <1>1, <1>11, <2>1, Zenon DEF ReadResponse
  <2>2. CASE HostLen(host_response) # 0
    <3>1. /\ host_response' = PopResponse(host_response)
          /\ UNCHANGED <<irq_flags, sequence, irq_code>>
      BY <1>11, <2>2, Zenon DEF ReadResponse, sub
    <3> QED BY <1>0, <3>1, OldBytes, Zenon DEF Fresh, ResponseIsFresh
  <2> QED BY <2>1, <2>2, Zenon
<1>12. CASE SetParameter
  <2>1. CASE \E reason : Panic(reason)
    BY <1>1, <2>1, Zenon
  <2>2. CASE ~\E reason : Panic(reason)
    BY <1>12, <2>2, FreshElsewhere, Zenon DEF SetParameter, sub
  <2> QED BY <2>1, <2>2, Zenon
<1>13. ASSUME NEW c \in Commands, SetCommand(c) PROVE Fresh'
  <2>1. CASE \E reason : Panic(reason)
    BY <1>1, <2>1, Zenon
  <2>2. CASE SubCpuFree /\ StartCommand /\ UNCHANGED irq_flags
    BY <2>2, FreshStart, Zenon DEF SubCpuFree
  <2>3. CASE UNCHANGED <<sub, host_response, irq_flags>>
    BY <2>3, FreshElsewhere, Zenon DEF sub
  <2> QED BY <1>13, <2>1, <2>2, <2>3, Zenon DEF SetCommand
<1>14. ASSUME NEW v \in SUBSET {0, 1, 2}, NEW clr \in BOOLEAN, IrqAck(v, clr)
       PROVE  Fresh'
  <2>1. CASE \E reason : Panic(reason)
    BY <1>1, <2>1, Zenon
  <2>2. CASE irq_flags' = irq_flags \ v /\ StartWaiting(irq_flags \ v)
    <3>1. CASE irq_flags \ v = {} /\ (StartCommand \/ ProcessAsync \/ NotifyRead)
      BY <2>2, <3>1, FreshStart, Zenon DEF StartWaiting
    <3>2. CASE UNCHANGED <<sub, drive, host_response>>
      BY <2>2, <3>2, FreshElsewhere, Zenon DEF sub
    <3> QED BY <2>2, <3>1, <3>2, Zenon DEF StartWaiting
  <2> QED BY <1>14, <2>1, <2>2, Zenon DEF IrqAck
<1> QED
  BY <1>2, <1>3, <1>4, <1>5, <1>6, <1>7, <1>8, <1>9, <1>10, <1>11, <1>12,
     <1>13, <1>14, Zenon DEF Next, Sync, SubCpuStep, Program

(***************************************************************************)
(* The bytes a program finds with the interrupt of a command's first       *)
(* response are those of that response, whatever it read or left unread    *)
(* before.                                                                 *)
(***************************************************************************)
THEOREM ResponsesAreFresh == Spec => []ResponseIsFresh
<1>1. Init => Fresh
  BY Zenon DEF Init, Fresh, ResponseIsFresh
<1>2. IInv /\ Fresh /\ [Next]_vars => Fresh'
  BY FreshLemma, Zenon
<1>3. Fresh => ResponseIsFresh
  BY Zenon DEF Fresh
<1> QED
  BY <1>1, <1>2, <1>3, Invariance, PTL DEF Spec
-----------------------------------------------------------------------------

(***************************************************************************)
(* What makes a wakeup certain.  NothingWaits and DatesInTime extend       *)
(* NoLostWakeup to the inside of CdRom::sync, where the dates have not     *)
(* been computed anew: a sequence or a sector that ends in r cycles, with  *)
(* c cycles still to be consumed, is due in r - c.  Inside of the loop a   *)
(* sequence starts only in the last iteration, so that its timer runs from *)
(* the present.  A sector starts to be read in the middle of the loop,     *)
(* when a command is executed, and is then due later than that step        *)
(* because the steps before the execution are shorter than a sector        *)
(* (DelayAssumption).                                                      *)
(***************************************************************************)
Reading == read_state # NotReading

NothingWaits ==
  SubCpuFree => /\ command = None /\ ~read_pending
                /\ async_response.kind # None => async_response.delay > 0

DelaysBounded ==
  /\ InCommand => timer < Never
  /\ sequence \in {"CommandPending", "ParamPush"} => timer <= SectorCycles \div 2
  /\ async_response.delay < Never
  /\ read_state < Never
  /\ due <= Never

DatesInTime ==
  /\ pc # "cpu" => since = 0
  /\ pc \in {"async", "read"} /\ SubCpuFree => elapsed = remaining
  /\ pc \in {"cpu", "handler"} => /\ gdue <= due
                                  /\ InCommand => due <= timer - since
                                  /\ Reading => due <= read_state - since
  /\ pc = "step" /\ InCommand => gdue <= timer - remaining
  /\ pc \in {"async", "read"} /\ InCommand => gdue <= timer - (remaining - elapsed)
  /\ pc \in {"step", "async", "read"} /\ Reading => gdue <= read_state - remaining

Wakeful == NothingWaits /\ DelaysBounded /\ DatesInTime

\* Once all the cycles of a synchronisation are consumed, a date holds as it is.
LEMMA NoneLeft ==
  ASSUME NEW g \in Int, NEW t \in Int, g <= t
  PROVE  /\ \A r \in Nat : \A e : e = r => g <= t - (r - e)
         /\ \A r : r = 0 => g <= t - r
  OBVIOUS

\* A panic or a stutter changes nothing the invariant is about.
LEMMA WakefulUnchanged ==
  ASSUME Wakeful, UNCHANGED <<host, sub, drive, time, loop>>
  PROVE  Wakeful'
  BY Zenon DEF Wakeful, NothingWaits, DelaysBounded, DatesInTime, SubCpuFree,
     InCommand, Reading, host, sub, drive, time, loop

\* The integers the dates are computed from.
LEMMA DateTypes ==
  ASSUME TypeOK
  PROVE  /\ timer \in Nat /\ since \in Nat /\ due \in Int /\ gdue \in Int
         /\ remaining \in Nat /\ elapsed \in Nat /\ read_state \in Int
         /\ Reading => read_state \in Nat
         /\ async_response.delay \in Nat
         /\ pc \in {"async", "read"} => elapsed <= remaining
         /\ Never \in Nat \ {0} /\ SectorCycles \in Nat /\ SectorCycles \div 2 \in Nat
         /\ CyclesPerSector \in Nat
         /\ SectorCycles \div 2 <= CyclesPerSector
         /\ CyclesPerSector <= SectorCycles
<1>1. /\ timer \in Nat /\ since \in Nat /\ due \in Int /\ gdue \in Int
      /\ remaining \in Nat /\ elapsed \in Nat
      /\ async_response.delay \in Nat
      /\ pc \in {"async", "read"} => elapsed <= remaining
  BY Zenon DEF TypeOK, SubOK, TimeOK, LoopOK
<1>2. read_state \in Int /\ (Reading => read_state \in Nat)
  BY DEF TypeOK, DriveOK, NotReading, Reading
<1>3. /\ Never \in Nat \ {0} /\ SectorCycles \in Nat /\ SectorCycles \div 2 \in Nat
      /\ CyclesPerSector \in Nat
      /\ SectorCycles \div 2 <= CyclesPerSector
      /\ CyclesPerSector <= SectorCycles
  BY CdRomAssumption DEF CyclesPerSector, Positive
<1> QED BY <1>1, <1>2, <1>3, Zenon

\* Steps of the sequence: those that go to another step of it ...
LEMMA WakefulGoTo ==
  ASSUME IInv, Wakeful, NEW seqs, TimerExpires(seqs), InCommand,
         NEW seq \in {"ParamPush", "Execution", "RxFlush", "RxPush", "BusyDelay",
                      "IrqDelay", "AsyncRxPush"},
         NEW name \in DelayNames, seq = "ParamPush" => name = "PARAM_PUSH",
         GoTo(seq, name), read_state' \in {read_state, NotReading, CyclesPerSector},
         read_state' # read_state => sequence \in {"CommandPending", "ParamPush"},
         async_response'.delay < Never
  PROVE  Wakeful'
<1>1. /\ timer \in Nat /\ since \in Nat /\ due \in Int /\ gdue \in Int
      /\ remaining \in Nat /\ read_state \in Int /\ NotReading < Never
      /\ Never \in Nat \ {0} /\ SectorCycles \in Nat /\ SectorCycles \div 2 \in Nat
      /\ CyclesPerSector \in Nat
      /\ SectorCycles \div 2 <= CyclesPerSector
      /\ CyclesPerSector <= SectorCycles /\ SectorCycles < Never
  BY DateTypes, DelayAssumption DEF IInv, NotReading
<1>2. StepDelay[name] \in Nat /\ StepDelay[name] < Never
      /\ (seq = "ParamPush" => StepDelay[name] <= SectorCycles \div 2)
  BY <1>1, CdRomAssumption, DelayAssumption DEF Positive
<1>3. /\ sequence' = seq /\ timer' = StepDelay[name] /\ elapsed' = timer /\ pc' = "async"
      /\ pc = "step" /\ timer <= remaining
      /\ UNCHANGED <<since, due, gdue, remaining>>
  BY Zenon DEF GoTo, TimerExpires, time
<1>4. NothingWaits'
  BY <1>3, Zenon DEF NothingWaits, SubCpuFree, InCommand
<1>5. DelaysBounded'
  BY <1>1, <1>2, <1>3 DEF DelaysBounded, Wakeful, InCommand
<1>6. gdue <= timer - remaining /\ since = 0
  BY <1>3, Zenon DEF Wakeful, DatesInTime
<1>7. Reading' => gdue <= read_state' - remaining
  <2>1. CASE read_state' = read_state
    BY <1>3, <2>1, Zenon DEF Reading, Wakeful, DatesInTime
  <2>2. CASE read_state' = CyclesPerSector /\ read_state' # read_state
    BY <1>1, <1>6, <2>2 DEF Wakeful, DelaysBounded
  <2>3. CASE read_state' = NotReading
    BY <2>3, Zenon DEF Reading
  <2> QED BY <2>1, <2>2, <2>3, Zenon
<1>8. DatesInTime'
  <2>1. timer' \in Nat /\ gdue' <= timer' - (remaining' - elapsed')
    BY <1>1, <1>2, <1>3, <1>6
  <2>2. since' = 0 /\ InCommand'
    BY <1>3, <1>6, Zenon DEF InCommand
  <2>3. Reading' => gdue' <= read_state' - remaining'
    BY <1>3, <1>7, Zenon
  <2> QED BY <1>3, <2>1, <2>2, <2>3, Zenon DEF DatesInTime, SubCpuFree
<1> QED BY <1>4, <1>5, <1>8, Zenon DEF Wakeful

\* ... the last one, which leaves an interrupt to acknowledge ...
LEMMA WakefulIrq ==
  ASSUME IInv, Wakeful, StepIrq
  PROVE  Wakeful'
<1>1. CASE irq_flags # {}
  BY <1>1, WakefulUnchanged, Zenon DEF StepIrq, Panic
<1>2. CASE irq_flags = {}
  <2>1. /\ irq_flags' = IrqBits(irq_code) /\ sequence' = "Idle" /\ pc' = "async"
        /\ pc = "step" /\ elapsed' = timer
        /\ UNCHANGED <<timer, async_response, drive, since, due, gdue, remaining>>
    BY <1>2, Zenon DEF StepIrq, TimerExpires, time
  <2>2. irq_flags' # {}
    BY <2>1, Zenon DEF IInv, TypeOK, SubOK, IrqBits
  <2>3. NothingWaits' /\ DelaysBounded'
    BY <2>1, <2>2, Zenon DEF NothingWaits, SubCpuFree, DelaysBounded,
       InCommand, Wakeful, drive
  <2>4. DatesInTime'
    BY <2>1, <2>2, Zenon DEF DatesInTime, Wakeful, SubCpuFree, InCommand,
       Reading, drive
  <2> QED BY <2>3, <2>4, Zenon DEF Wakeful
<1> QED BY <1>1, <1>2, Zenon

\* ... and the iterations in which none ends.
LEMMA WakefulNothing ==
  ASSUME IInv, Wakeful, StepNothing
  PROVE  Wakeful'
<1>1. /\ timer \in Nat /\ gdue \in Int /\ remaining \in Nat /\ Never \in Nat
      /\ SectorCycles \div 2 \in Nat
  BY DateTypes, Zenon DEF IInv
<1>2. /\ pc = "step" /\ pc' = "async" /\ elapsed' = remaining
      /\ UNCHANGED <<host, sequence, async_response, drive, since, due, gdue, remaining>>
      /\ timer' = IF InCommand THEN timer - remaining ELSE timer
      /\ InCommand => timer > remaining
  BY Zenon DEF StepNothing, time
<1>3. /\ InCommand' = InCommand /\ Reading' = Reading /\ SubCpuFree' = SubCpuFree
  BY <1>2, Zenon DEF InCommand, Reading, SubCpuFree, drive, host
<1>4. NothingWaits' /\ DelaysBounded'
  <2>1. NothingWaits'
    BY <1>2, <1>3, Zenon DEF NothingWaits, Wakeful, host, drive
  <2>2. InCommand => timer' <= timer
    BY <1>1, <1>2
  <2>3. DelaysBounded'
    BY <1>1, <1>2, <1>3, <2>2 DEF DelaysBounded, Wakeful, InCommand, drive
  <2> QED BY <2>1, <2>3, Zenon
<1>5. DatesInTime'
  <2>1. InCommand => gdue' <= timer' - (remaining' - elapsed')
    BY <1>1, <1>2 DEF Wakeful, DatesInTime
  <2>2. Reading => gdue' <= read_state' - remaining'
    BY <1>2, Zenon DEF Wakeful, DatesInTime, drive
  <2>3. since' = 0
    BY <1>2, Zenon DEF Wakeful, DatesInTime
  <2> QED BY <1>2, <1>3, <2>1, <2>2, <2>3, Zenon DEF DatesInTime
<1> QED BY <1>4, <1>5, Zenon DEF Wakeful

\* Inside of the loop a sequence only starts when all the cycles have been
\* consumed, so that lowering the TimeKeeper's date to its timer is enough.
LEMMA WakefulStart ==
  ASSUME IInv, Wakeful, pc \in {"async", "read"}, SubCpuFree,
         ProcessAsync \/ NotifyRead, async_response.kind # None \/ NotifyRead,
         gdue' = Earliest(gdue, timer'), UNCHANGED <<since, due>>
  PROVE  /\ NothingWaits' /\ InCommand' /\ ~SubCpuFree' /\ timer' \in Nat /\ timer' < Never
         /\ sequence' = "AsyncRxPush" /\ async_response'.delay < Never
         /\ due' <= Never /\ since' = 0 /\ elapsed = remaining
         /\ gdue' \in Int /\ gdue' <= timer' /\ gdue' <= gdue
<1>1. gdue \in Int
  BY DateTypes, Zenon DEF IInv
<1>2. sequence' = "AsyncRxPush" /\ timer' \in Nat /\ timer' < Never
      /\ async_response'.delay < Never
  <2>1. CASE NotifyRead
    BY <2>1, CdRomAssumption, DelayAssumption
    DEF NotifyRead, Wakeful, DelaysBounded, Positive, DelayNames
  <2>2. CASE ProcessAsync /\ async_response.kind # None
    <3>1. async_response.kind \in AsyncKinds
      BY <2>2, Zenon DEF IInv, TypeOK, SubOK
    <3>2. AsyncRxDelay[async_response.kind] \in Nat
          /\ AsyncRxDelay[async_response.kind] < Never /\ 0 < Never
      BY <3>1, CdRomAssumption, DelayAssumption DEF Positive
    <3> QED BY <2>2, <3>2, Zenon DEF ProcessAsync, NoAsync
  <2> QED BY <2>1, <2>2, Zenon
<1>3. /\ due' <= Never /\ since' = 0 /\ elapsed = remaining
  BY Zenon DEF Wakeful, DelaysBounded, DatesInTime
<1>4. InCommand' /\ ~SubCpuFree' /\ NothingWaits'
  BY <1>2, Zenon DEF InCommand, SubCpuFree, NothingWaits
<1>5. gdue' \in Int /\ gdue' <= timer' /\ gdue' <= gdue
  BY <1>1, <1>2 DEF Earliest
<1> QED BY <1>2, <1>3, <1>4, <1>5, Zenon

\* The asynchronous response is never left behind.
LEMMA WakefulAsync ==
  ASSUME IInv, Wakeful, SyncAsync
  PROVE  Wakeful'
<1>1. /\ timer \in Nat /\ gdue \in Int /\ remaining \in Nat /\ elapsed \in Nat
      /\ Never \in Nat \ {0} /\ async_response.delay \in Nat /\ read_state \in Int
      /\ NotReading < Never
  BY DateTypes DEF IInv, NotReading
<1>2. pc = "async" /\ pc' = "read" /\ UNCHANGED <<since, due, remaining, elapsed>>
  BY Zenon DEF SyncAsync
<1>3. CASE async_response.kind # None /\ ~(async_response.delay > elapsed) /\ SubCpuFree
  <2>1. /\ ProcessAsync /\ gdue' = Earliest(gdue, timer')
    BY <1>3, Zenon DEF SyncAsync
  <2>2. /\ NothingWaits' /\ InCommand' /\ ~SubCpuFree' /\ timer' \in Nat /\ timer' < Never
        /\ sequence' = "AsyncRxPush" /\ async_response'.delay < Never
        /\ due' <= Never /\ since' = 0 /\ elapsed = remaining
        /\ gdue' \in Int /\ gdue' <= timer' /\ gdue' <= gdue
    BY <1>2, <1>3, <2>1, WakefulStart, Zenon
  <2>3. read_state' \in {read_state, NotReading}
    BY <2>1, Zenon DEF ProcessAsync
  <2>4. DelaysBounded'
    BY <1>1, <2>2, <2>3, Zenon DEF DelaysBounded, Wakeful
  <2>5. Reading' => gdue' <= read_state' - remaining'
    <3>1. Reading => gdue <= read_state - remaining
      BY <1>2, Zenon DEF Wakeful, DatesInTime
    <3>2. Reading' => Reading /\ read_state' = read_state
      BY <2>3, Zenon DEF Reading
    <3> QED BY <1>1, <1>2, <2>2, <3>1, <3>2
  <2>6. gdue' <= timer' - (remaining' - elapsed')
    <3>1. remaining' = remaining /\ elapsed' = remaining /\ remaining \in Nat
      BY <1>1, <1>2, <2>2, Zenon
    <3>2. timer' \in Int /\ gdue' \in Int /\ gdue' <= timer'
      BY <2>2
    <3> QED BY <3>1, <3>2, NoneLeft, Zenon
  <2>7. DatesInTime'
    BY <1>2, <2>2, <2>5, <2>6, Zenon DEF DatesInTime
  <2> QED BY <2>2, <2>4, <2>7, Zenon DEF Wakeful
<1>4. CASE ~(async_response.kind # None /\ ~(async_response.delay > elapsed) /\ SubCpuFree)
  <2>0. async_response \in [kind : AsyncKinds \cup {None}, delay : Nat]
    BY Zenon DEF IInv, TypeOK, SubOK
  <2>1. /\ UNCHANGED <<host, sequence, timer, drive, gdue>>
        /\ async_response'.delay \in Nat /\ async_response'.delay <= async_response.delay
        /\ async_response'.kind = async_response.kind
        /\ SubCpuFree /\ async_response.kind # None => async_response'.delay > 0
    <3>1. CASE async_response.kind = None
      BY <1>1, <3>1 DEF SyncAsync, sub
    <3>2. CASE async_response.kind # None /\ async_response.delay > elapsed
      BY <1>1, <2>0, <3>2 DEF SyncAsync
    <3>3. CASE /\ async_response.kind # None /\ ~(async_response.delay > elapsed)
               /\ ~SubCpuFree
      BY <1>1, <2>0, <3>3 DEF SyncAsync
    <3> QED BY <1>4, <3>1, <3>2, <3>3, Zenon
  <2>3. InCommand' = InCommand /\ SubCpuFree' = SubCpuFree /\ Reading' = Reading
    BY <2>1, Zenon DEF InCommand, SubCpuFree, Reading, host, drive
  <2>4. NothingWaits'
    BY <2>1, <2>3, Zenon DEF NothingWaits, Wakeful, host, drive
  <2>5. DelaysBounded'
    BY <1>1, <1>2, <2>1, <2>3 DEF DelaysBounded, Wakeful, drive
  <2>6. DatesInTime'
    BY <1>2, <2>1, <2>3, Zenon DEF DatesInTime, Wakeful, drive
  <2> QED BY <2>4, <2>5, <2>6, Zenon DEF Wakeful
<1> QED BY <1>3, <1>4, Zenon

\* Nor is a sector.
LEMMA WakefulRead ==
  ASSUME IInv, Wakeful, SyncRead
  PROVE  Wakeful'
<1>1. /\ timer \in Nat /\ gdue \in Int /\ remaining \in Nat /\ elapsed \in Nat
      /\ Never \in Nat \ {0} /\ read_state \in Int /\ NotReading < Never
      /\ NotReading \in Int
      /\ CyclesPerSector \in Nat /\ CyclesPerSector < Never
      /\ Reading => read_state \in Nat
      /\ due \in Int /\ since \in Nat
  BY DateTypes, DelayAssumption DEF IInv, NotReading
<1>2. CASE read_state # NotReading /\ read_state <= elapsed /\ SectorFails
  BY <1>2, WakefulUnchanged, Zenon DEF SyncRead, Panic
<1>3. CASE ~(read_state # NotReading /\ read_state <= elapsed /\ SectorFails)
  <2>1. /\ pc = "read" /\ pc' = "step" /\ remaining' = remaining - elapsed
        /\ UNCHANGED <<since, due, elapsed>>
    BY <1>3, Zenon DEF SyncRead, CyclesLeft
  <2>2. CASE read_state = NotReading \/ read_state > elapsed
    <3>1. /\ UNCHANGED <<host, sub, read_pending, gdue>>
          /\ read_state' = IF Reading THEN read_state - elapsed ELSE read_state
      BY <1>3, <2>2, Zenon DEF SyncRead, drive, Reading
    <3>2. /\ InCommand' = InCommand /\ SubCpuFree' = SubCpuFree
      BY <3>1, Zenon DEF InCommand, SubCpuFree, host, sub
    <3>3. Reading => Reading'
      BY <1>1, <2>2, <3>1 DEF Reading, NotReading
    <3>4. ~Reading => ~Reading'
      BY <3>1, Zenon DEF Reading
    <3>5. NothingWaits'
      BY <3>1, <3>2, Zenon DEF NothingWaits, Wakeful, host, sub
    <3>6. DelaysBounded'
      BY <1>1, <2>1, <3>1, <3>2 DEF DelaysBounded, Wakeful, sub
    <3>7. DatesInTime'
      <4>1. InCommand => gdue' <= timer' - remaining'
        BY <1>1, <2>1, <3>1, Zenon DEF Wakeful, DatesInTime, sub
      <4>2. Reading' => gdue' <= read_state' - remaining'
        BY <1>1, <2>1, <3>1, <3>3, <3>4 DEF Wakeful, DatesInTime
      <4>3. since' = 0
        BY <2>1, Zenon DEF Wakeful, DatesInTime
      <4> QED BY <2>1, <3>2, <4>1, <4>2, <4>3, Zenon DEF DatesInTime
    <3> QED BY <3>5, <3>6, <3>7, Zenon DEF Wakeful
  <2>3. CASE ~(read_state = NotReading \/ read_state > elapsed)
    <3>1. SectorRead /\ Reading /\ read_state <= elapsed
      BY <1>1, <1>3, <2>3 DEF SyncRead, Reading
    <3>2. read_state' = CyclesPerSector - (elapsed - read_state)
      BY <3>1, Zenon DEF SectorRead
    <3>3. gdue <= read_state - remaining
      BY <2>1, <3>1, Zenon DEF Wakeful, DatesInTime
    <3>4. read_state' \in Int /\ read_state' < Never
          /\ gdue <= read_state' - remaining' /\ gdue <= read_state'
      <4>1. elapsed <= remaining
        BY <2>1, DateTypes, Zenon DEF IInv
      <4> QED BY <1>1, <2>1, <3>1, <3>2, <3>3, <4>1
    <3>5. CASE SubCpuFree
      <4>1. NotifyRead /\ gdue' = Earliest(gdue, timer')
        BY <3>1, <3>5, Zenon DEF SectorRead
      <4>2. /\ NothingWaits' /\ InCommand' /\ ~SubCpuFree' /\ timer' \in Nat /\ timer' < Never
            /\ sequence' = "AsyncRxPush" /\ async_response'.delay < Never
            /\ due' <= Never /\ since' = 0 /\ elapsed = remaining
            /\ gdue' \in Int /\ gdue' <= timer' /\ gdue' <= gdue
        BY <2>1, <3>5, <4>1, WakefulStart, Zenon
      <4>3. DelaysBounded'
        BY <3>4, <4>2, Zenon DEF DelaysBounded
      <4>4. gdue' <= timer' - remaining' /\ gdue' <= read_state' - remaining'
        <5>1. remaining' = 0
          BY <1>1, <2>1, <4>2
        <5>2. /\ timer' \in Int /\ gdue' \in Int /\ gdue' <= timer' /\ gdue' <= gdue
              /\ read_state' \in Int
          BY <1>1, <3>4, <4>2
        <5>3. gdue' <= read_state'
          BY <1>1, <3>4, <5>2
        <5> QED BY <5>1, <5>2, <5>3, NoneLeft, Zenon
      <4>5. DatesInTime'
        BY <2>1, <4>2, <4>4, Zenon DEF DatesInTime
      <4> QED BY <4>2, <4>3, <4>5, Zenon DEF Wakeful
    <3>6. CASE ~SubCpuFree
      <4>1. UNCHANGED <<host, sub, gdue>>
        BY <3>1, <3>6, Zenon DEF SectorRead
      <4>2. /\ InCommand' = InCommand /\ ~SubCpuFree'
        BY <3>6, <4>1, Zenon DEF InCommand, SubCpuFree, host, sub
      <4>3. NothingWaits'
        BY <4>2, Zenon DEF NothingWaits
      <4>4. DelaysBounded'
        BY <2>1, <3>4, <4>1, <4>2, Zenon DEF DelaysBounded, Wakeful, sub
      <4>5. InCommand => gdue' <= timer' - remaining'
        BY <1>1, <2>1, <4>1, Zenon DEF Wakeful, DatesInTime, sub
      <4>6. since' = 0
        BY <2>1, Zenon DEF Wakeful, DatesInTime
      <4>7. DatesInTime'
        BY <2>1, <3>4, <4>1, <4>2, <4>5, <4>6, Zenon DEF DatesInTime
      <4> QED BY <4>3, <4>4, <4>7, Zenon DEF Wakeful
    <3> QED BY <3>5, <3>6, Zenon
  <2> QED BY <2>2, <2>3, Zenon
<1> QED BY <1>2, <1>3, Zenon

\* The sheet's date is no later than the next step and the next sector.
LEMMA SheetDateLemma ==
  ASSUME NEW seq, NEW tmr \in Nat, seq # "Idle" => tmr < Never, NEW flags, NEW async,
         async.delay \in Nat, async.delay < Never, NEW reading \in Int, reading < Never
  PROVE  LET delta == NextDelta(seq, tmr, flags, async)
             date  == SheetDate(delta, reading)
         IN  /\ delta \in Int /\ date \in Int /\ date <= Never
             /\ seq # "Idle" => date <= tmr
             /\ reading # NotReading => date <= reading
             /\ \A g \in Int : (reading # NotReading => g <= reading)
                                  => Earliest(g, delta) <= date
<1>1. Never \in Nat
  BY CdRomAssumption, Zenon DEF Positive
<1> DEFINE delta == NextDelta(seq, tmr, flags, async)
<1>2. delta \in Int /\ delta <= Never /\ (seq # "Idle" => delta = tmr)
  BY <1>1 DEF NextDelta
<1> DEFINE date == SheetDate(delta, reading)
<1> HIDE DEF delta
<1>3. /\ date \in Int /\ date <= Never /\ date <= delta
      /\ reading # NotReading => date <= reading
      /\ date = delta \/ (reading # NotReading /\ date = reading)
  BY <1>1, <1>2 DEF SheetDate, Earliest
<1>4. \A g \in Int : (reading # NotReading => g <= reading) => Earliest(g, delta) <= date
  BY <1>2, <1>3 DEF Earliest
<1> HIDE DEF date
<1>5. seq # "Idle" => date <= tmr
  BY <1>2, <1>3, Zenon
<1> QED BY <1>2, <1>3, <1>4, <1>5, Zenon DEF delta, date

\* A register access that starts nothing.
LEMMA WakefulReturn ==
  ASSUME Wakeful, pc = "handler", pc' = "cpu",
         UNCHANGED <<command, irq_flags, sequence, timer, async_response, drive, time>>
  PROVE  Wakeful'
<1>1. since = 0
  BY Zenon DEF Wakeful, DatesInTime
<1>2. InCommand' = InCommand /\ SubCpuFree' = SubCpuFree /\ Reading' = Reading
  BY Zenon DEF InCommand, SubCpuFree, Reading, drive
<1>3. NothingWaits' /\ DelaysBounded'
  BY <1>2, Zenon DEF NothingWaits, DelaysBounded, Wakeful, drive, time
<1>4. DatesInTime'
  BY <1>1, <1>2, Zenon DEF DatesInTime, Wakeful, drive, time
<1> QED BY <1>3, <1>4, Zenon DEF Wakeful

\* A register access that starts a sequence.
LEMMA WakefulLaunch ==
  ASSUME IInv, Wakeful, pc = "handler", pc' = "cpu", UNCHANGED since,
         InCommand', timer' \in Nat, timer' < Never,
         sequence' \in {"CommandPending", "ParamPush"} => timer' <= SectorCycles \div 2,
         async_response'.delay < Never, read_state' \in {read_state, NotReading},
         NEW flags, NEW async, async.delay \in Nat, async.delay < Never,
         PredictNextSync(sequence', timer', flags, async, read_state')
  PROVE  Wakeful'
<1>1. /\ gdue \in Int /\ read_state \in Int /\ NotReading \in Int
      /\ NotReading < Never /\ read_state < Never
  BY DateTypes DEF IInv, NotReading, Wakeful, DelaysBounded
<1>2. since' = 0 /\ gdue <= due /\ (Reading => due <= read_state - since) /\ since = 0
      /\ due \in Int
  BY DateTypes, Zenon DEF Wakeful, DatesInTime, IInv
<1>3. Reading => gdue <= read_state
  BY <1>1, <1>2
<1>4. read_state' \in Int /\ read_state' < Never /\ (Reading' => gdue <= read_state')
  BY <1>1, <1>3, Zenon DEF Reading
<1>5. /\ due' \in Int /\ due' <= Never /\ due' <= timer' /\ (Reading' => due' <= read_state')
      /\ gdue' <= due'
  <2> DEFINE seq == sequence'
             tmr == timer'
             reading == read_state'
             delta == NextDelta(seq, tmr, flags, async)
             date == SheetDate(delta, reading)
  <2>1. /\ seq # "Idle" /\ tmr \in Nat /\ tmr < Never /\ reading \in Int /\ reading < Never
        /\ reading # NotReading => gdue <= reading
    BY <1>4, Zenon DEF InCommand, Reading
  <2>2. due' = date /\ gdue' = Earliest(gdue, delta)
    BY Zenon DEF PredictNextSync
  <2> HIDE DEF seq, tmr, reading
  <2>3. /\ date \in Int /\ date <= Never /\ date <= tmr /\ (reading # NotReading => date <= reading)
        /\ Earliest(gdue, delta) <= date
    BY <1>1, <2>1, SheetDateLemma
  <2> HIDE DEF delta, date
  <2>4. reading = read_state' /\ tmr = timer'
    BY Zenon DEF reading, tmr
  <2> QED BY <2>2, <2>3, <2>4, Zenon DEF Reading
<1>6. NothingWaits' /\ ~SubCpuFree'
  BY Zenon DEF NothingWaits, SubCpuFree
<1>7. DelaysBounded'
  BY <1>4, <1>5, Zenon DEF DelaysBounded
<1>8. due' <= timer' - since' /\ (Reading' => due' <= read_state' - since')
  <2>1. timer' \in Int /\ due' \in Int /\ read_state' \in Int
    BY <1>4, <1>5
  <2> QED BY <1>2, <1>5, <2>1, NoneLeft, Zenon
<1>9. DatesInTime'
  BY <1>2, <1>5, <1>6, <1>8, Zenon DEF DatesInTime
<1> QED BY <1>6, <1>7, <1>9, Zenon DEF Wakeful

\* The delay of a command that starts.
LEMMA PendingDelay ==
  ASSUME StartCommand
  PROVE  /\ sequence' = "CommandPending" /\ timer' \in Nat /\ timer' < Never
         /\ timer' <= SectorCycles \div 2 /\ InCommand'
<1>1. /\ StepDelay["COMMAND_PENDING"] \in Nat /\ StepDelay["COMMAND_PENDING"] + 1 < Never
      /\ StepDelay["COMMAND_PENDING"] < SectorCycles \div 2 /\ SectorCycles \div 2 \in Int
      /\ Never \in Nat
  BY CdRomAssumption, DelayAssumption DEF DelayNames, Positive
<1>2. PICK extra \in {0, 1} : timer' = StepDelay["COMMAND_PENDING"] + extra
  BY Zenon DEF StartCommand
<1> QED BY <1>1, <1>2 DEF StartCommand, InCommand

\* A command starts at once, or waits for what will start it.
LEMMA WakefulSetCommand ==
  ASSUME IInv, Wakeful, NEW c \in Commands, SetCommand(c)
  PROVE  Wakeful'
<1> DEFINE fails == command # None \/ (SubCpuFree /\ async_response.kind # None)
<1>1. CASE fails
  BY <1>1, WakefulUnchanged, Zenon DEF SetCommand, Panic
<1>2. CASE ~fails
  <2>1. /\ pc = "handler" /\ pc' = "cpu" /\ UNCHANGED <<since, drive, irq_flags>>
    BY <1>2, Zenon DEF SetCommand, Handler, Return
  <2>2. CASE SubCpuFree
    <3>1. StartCommand /\ UNCHANGED async_response
          /\ PredictNextSync(sequence', timer', irq_flags, async_response, read_state)
      BY <1>2, <2>2, Zenon DEF SetCommand, StartCommand
    <3>2. async_response.delay \in Nat /\ async_response.delay < Never
      BY DateTypes, Zenon DEF IInv, Wakeful, DelaysBounded
    <3>3. read_state' = read_state
      BY <2>1, Zenon DEF drive
    <3> QED BY <2>1, <3>1, <3>2, <3>3, PendingDelay, WakefulLaunch, Zenon
  <2>3. CASE ~SubCpuFree
    <3>1. UNCHANGED <<sub, due, gdue>>
      BY <1>2, <2>3, Zenon DEF SetCommand
    <3>2. InCommand' = InCommand /\ SubCpuFree' = SubCpuFree /\ Reading' = Reading
      BY <2>1, <3>1, Zenon DEF InCommand, SubCpuFree, Reading, drive, sub
    <3>3. NothingWaits' /\ DelaysBounded'
      BY <2>1, <2>3, <3>1, <3>2, Zenon DEF NothingWaits, DelaysBounded,
         Wakeful, drive, sub
    <3>4. DatesInTime'
      BY <2>1, <3>1, <3>2, Zenon DEF DatesInTime, Wakeful, drive, sub
    <3> QED BY <3>3, <3>4, Zenon DEF Wakeful
  <2> QED BY <2>2, <2>3, Zenon
<1> QED BY <1>1, <1>2, Zenon

\* An acknowledgement starts what waited for it.
LEMMA WakefulIrqAck ==
  ASSUME IInv, Wakeful, NEW v \in SUBSET {0, 1, 2}, NEW clr \in BOOLEAN, IrqAck(v, clr)
  PROVE  Wakeful'
<1> DEFINE flags == irq_flags \ v
           free == flags = {} /\ ~InCommand
           ready == async_response.kind # None /\ async_response.delay = 0
           fails == free /\ command # None /\ async_response.kind # None
<1>1. CASE fails
  BY <1>1, WakefulUnchanged, Zenon DEF IrqAck, Panic
<1>2. CASE ~fails
  <2>1. /\ pc = "handler" /\ pc' = "cpu" /\ UNCHANGED <<since, command>>
        /\ irq_flags' = flags /\ StartWaiting(flags)
    BY <1>2, Zenon DEF IrqAck, Handler, Return
  <2>2. IF sequence' # sequence
          THEN PredictNextSync(sequence', timer', flags, async_response', read_state')
          ELSE UNCHANGED <<due, gdue>>
    BY <1>2, Zenon DEF IrqAck
  <2>3. async_response.delay \in Nat /\ async_response.delay < Never /\ 0 < Never
        /\ Never \in Nat
        /\ async_response.kind \in AsyncKinds \cup {None}
    BY DateTypes DEF IInv, Wakeful, DelaysBounded, TypeOK, SubOK
  <2>4. CASE free /\ command # None /\ StartCommand /\ UNCHANGED drive
    <3>1. sequence' # sequence /\ UNCHANGED async_response /\ read_state' = read_state
      BY <2>4, Zenon DEF StartCommand, InCommand, drive
    <3> QED BY <2>1, <2>2, <2>3, <2>4, <3>1, PendingDelay, WakefulLaunch,
               Zenon
  <2>5. CASE free /\ ready /\ ProcessAsync
    <3>1. /\ sequence' = "AsyncRxPush" /\ async_response'.delay = 0
          /\ read_state' \in {read_state, NotReading}
          /\ timer' = AsyncRxDelay[async_response.kind]
      BY <2>5, Zenon DEF ProcessAsync, NoAsync
    <3>2. timer' \in Nat /\ timer' < Never
      BY <2>3, <2>5, <3>1, CdRomAssumption, DelayAssumption, Zenon DEF
         Positive
    <3>3. sequence' # sequence /\ InCommand'
      BY <2>5, <3>1, Zenon DEF InCommand
    <3> QED BY <2>1, <2>2, <2>3, <3>1, <3>2, <3>3, WakefulLaunch
  <2>6. CASE free /\ NotifyRead /\ UNCHANGED read_state
    <3>1. /\ sequence' = "AsyncRxPush" /\ UNCHANGED async_response
          /\ timer' = StepDelay["READ_RX_PUSH"]
      BY <2>6, Zenon DEF NotifyRead
    <3>2. timer' \in Nat /\ timer' < Never
      <4>1. StepDelay["READ_RX_PUSH"] \in Nat /\ StepDelay["READ_RX_PUSH"] + 1 < Never
        BY CdRomAssumption, DelayAssumption, Zenon DEF DelayNames, Positive
      <4> QED BY <2>3, <3>1, <4>1
    <3>3. sequence' # sequence /\ InCommand'
      BY <2>6, <3>1, Zenon DEF InCommand
    <3> QED BY <2>1, <2>2, <2>3, <2>6, <3>1, <3>2, <3>3, WakefulLaunch, Zenon
  <2>7. CASE ~(free /\ (command # None \/ ready \/ read_pending)) /\ UNCHANGED <<sub, drive>>
    <3>1. UNCHANGED <<sub, drive, due, gdue>>
      BY <2>2, <2>7, Zenon DEF sub
    <3>2. InCommand' = InCommand /\ SubCpuFree' = free /\ Reading' = Reading
      BY <2>1, <3>1, Zenon DEF InCommand, SubCpuFree, Reading, drive, sub
    <3>3. free => ~read_pending /\ command = None
                    /\ (async_response.kind # None => async_response.delay > 0)
      BY <2>3, <2>7
    <3>4. NothingWaits'
      BY <2>1, <3>1, <3>2, <3>3, Zenon DEF NothingWaits, drive, sub
    <3>5. DelaysBounded'
      BY <2>1, <3>1, <3>2, Zenon DEF DelaysBounded, Wakeful, drive, sub
    <3>6. DatesInTime'
      BY <2>1, <3>1, <3>2, Zenon DEF DatesInTime, Wakeful, drive, sub
    <3> QED BY <3>4, <3>5, <3>6, Zenon DEF Wakeful
  <2> QED BY <2>1, <2>4, <2>5, <2>6, <2>7, Zenon DEF StartWaiting
<1> QED BY <1>1, <1>2, Zenon

\* The end of CdRom::sync computes the dates anew.
LEMMA WakefulSyncEnd ==
  ASSUME IInv, Wakeful, SyncEndAccess \/ SyncEndCpu
  PROVE  Wakeful'
<1>1. /\ gdue \in Int /\ timer \in Nat /\ read_state \in Int /\ Never \in Nat
      /\ async_response.delay \in Nat
  BY DateTypes, Zenon DEF IInv
<1>2. /\ pc = "step" /\ remaining = 0 /\ pc' \in {"cpu", "handler"}
      /\ UNCHANGED <<host, sub, drive, since>>
  BY Zenon DEF SyncEndAccess, SyncEndCpu
<1>3. /\ since = 0 /\ read_state < Never /\ async_response.delay < Never
      /\ sequence # "Idle" => timer < Never
      /\ Reading => gdue <= read_state - remaining
  BY <1>2, Zenon DEF Wakeful, DatesInTime, DelaysBounded, InCommand
<1>4. read_state # NotReading => gdue <= read_state
  BY <1>1, <1>2, <1>3 DEF Reading
<1> DEFINE delta == NextDelta(sequence, timer, irq_flags, async_response)
           date == SheetDate(delta, read_state)
<1>5. /\ delta \in Int /\ date \in Int /\ date <= Never
      /\ sequence # "Idle" => date <= timer
      /\ read_state # NotReading => date <= read_state
      /\ Earliest(gdue, delta) <= date
  BY <1>1, <1>3, <1>4, SheetDateLemma, Zenon
<1>6. due' = date
  BY Zenon DEF SyncEndAccess, SyncEndCpu, PredictNextSync
<1>7. gdue' <= due'
  <2>1. CASE SyncEndAccess
    BY <1>5, <1>6, <2>1, Zenon DEF SyncEndAccess, PredictNextSync
  <2>2. CASE SyncEndCpu
    <3>1. PICK other \in Others : gdue' = Earliest(date, other)
      BY <1>6, <2>2, Zenon DEF SyncEndCpu
    <3>2. other \in Int
      BY CdRomAssumption DEF Positive
    <3> HIDE DEF date
    <3> QED BY <1>5, <1>6, <3>1, <3>2 DEF Earliest
  <2> QED BY <2>1, <2>2, Zenon
<1> HIDE DEF date, delta
<1>8. InCommand' = InCommand /\ SubCpuFree' = SubCpuFree /\ Reading' = Reading
  BY <1>2, Zenon DEF InCommand, SubCpuFree, Reading, drive, sub, host
<1>9. NothingWaits'
  BY <1>2, <1>8, Zenon DEF NothingWaits, Wakeful, host, sub, drive
<1>10. DelaysBounded'
  BY <1>2, <1>5, <1>6, <1>8, Zenon DEF DelaysBounded, Wakeful, drive, sub
<1>11. DatesInTime'
  <2>1. /\ InCommand => due' <= timer' - since'
        /\ Reading => due' <= read_state' - since'
    BY <1>1, <1>2, <1>3, <1>5, <1>6 DEF InCommand, Reading, sub, drive
  <2> QED BY <1>2, <1>3, <1>7, <1>8, <2>1, Zenon DEF DatesInTime
<1> QED BY <1>9, <1>10, <1>11, Zenon DEF Wakeful

\* The CPU starts a synchronisation, or finds that another peripheral's date
\* has come.
LEMMA WakefulCpuSync ==
  ASSUME IInv, Wakeful, CpuSync
  PROVE  Wakeful'
<1>1. /\ gdue \in Int /\ due \in Int /\ timer \in Nat /\ read_state \in Int /\ since \in Nat
  BY DateTypes, Zenon DEF IInv
<1>2. /\ pc = "cpu" /\ UNCHANGED <<host, sub, drive, due>>
      /\ gdue <= due
      /\ InCommand => due <= timer - since
      /\ Reading => due <= read_state - since
  BY Zenon DEF CpuSync, StartSync, Wakeful, DatesInTime
<1>3. InCommand' = InCommand /\ SubCpuFree' = SubCpuFree /\ Reading' = Reading
  BY <1>2, Zenon DEF InCommand, SubCpuFree, Reading, drive, sub, host
<1>4. NothingWaits' /\ DelaysBounded'
  BY <1>2, <1>3, Zenon DEF NothingWaits, DelaysBounded, Wakeful, host, sub,
     drive
<1>5. CASE due <= 0
  <2>1. pc' = "step" /\ remaining' = since /\ since' = 0 /\ UNCHANGED gdue
    BY <1>5, Zenon DEF CpuSync, StartSync
  <2>2. /\ InCommand => gdue' <= timer' - remaining'
        /\ Reading => gdue' <= read_state' - remaining'
    BY <1>1, <1>2, <2>1 DEF sub, drive
  <2>3. DatesInTime'
    BY <1>3, <2>1, <2>2, Zenon DEF DatesInTime
  <2> QED BY <1>4, <2>3, Zenon DEF Wakeful
<1>6. CASE ~(due <= 0)
  <2>1. PICK other \in Others : gdue' = Earliest(due, other)
    BY <1>6, Zenon DEF CpuSync
  <2>2. other \in Int
    BY CdRomAssumption DEF Positive
  <2>3. gdue' <= due' /\ UNCHANGED <<pc, since>>
    BY <1>1, <1>2, <1>6, <2>1, <2>2 DEF Earliest, CpuSync
  <2>4. DatesInTime'
    BY <1>2, <1>3, <2>3, Zenon DEF DatesInTime, sub, drive
  <2> QED BY <1>4, <2>4, Zenon DEF Wakeful
<1> QED BY <1>5, <1>6, Zenon

\* Time passes for both dates alike.
LEMMA WakefulInstruction ==
  ASSUME IInv, Wakeful, Instruction \/ Access
  PROVE  Wakeful'
<1>1. /\ gdue \in Int /\ due \in Int /\ timer \in Nat /\ read_state \in Int /\ since \in Nat
      /\ Never \in Nat
  BY DateTypes, Zenon DEF IInv
<1>2. /\ pc = "cpu" /\ UNCHANGED <<host, sub, drive>>
      /\ gdue <= due /\ due <= Never
      /\ InCommand => due <= timer - since /\ timer < Never
      /\ Reading => due <= read_state - since /\ read_state < Never
  BY Zenon DEF Instruction, Access, Wakeful, DatesInTime, DelaysBounded
<1>3. InCommand' = InCommand /\ SubCpuFree' = SubCpuFree /\ Reading' = Reading
  BY <1>2, Zenon DEF InCommand, SubCpuFree, Reading, drive, sub, host
<1>4. PICK n \in Ticks : due' = Later(due, n) /\ gdue' = Later(gdue, n)
         /\ \/ pc' = "cpu" /\ since' = Earliest(since + n, MaxSince)
            \/ pc' = "step" /\ since' = 0 /\ remaining' = since + n
  BY <1>2, Zenon DEF Instruction, Access, StartSync, loop
<1>5. n \in Nat /\ MaxSince \in Nat /\ n > 0
  BY CdRomAssumption DEF Positive
<1> DEFINE d == Later(due, n)
           g == Later(gdue, n)
<1>6. /\ g <= d /\ d <= Never /\ g \in Int /\ d \in Int
      /\ InCommand => d <= timer - (since + n)
      /\ Reading => d <= read_state - (since + n)
  BY <1>1, <1>2, <1>5 DEF Later
<1> HIDE DEF d, g
<1>7. due' = d /\ gdue' = g
  BY <1>4, Zenon DEF d, g
<1>8. NothingWaits' /\ DelaysBounded'
  BY <1>2, <1>3, <1>6, <1>7, Zenon DEF NothingWaits, DelaysBounded, Wakeful,
     host, sub, drive
<1>9. CASE pc' = "cpu" /\ since' = Earliest(since + n, MaxSince)
  <2> DEFINE s == Earliest(since + n, MaxSince)
  <2>1. s <= since + n /\ s \in Nat
    BY <1>1, <1>5 DEF Earliest
  <2> HIDE DEF s
  <2>2. since' = s
    BY <1>9, Zenon DEF s
  <2>3. /\ InCommand => d <= timer - s
        /\ Reading => d <= read_state - s
    BY <1>1, <1>5, <1>6, <2>1
  <2>4. DatesInTime'
    BY <1>2, <1>3, <1>6, <1>7, <1>9, <2>2, <2>3, Zenon DEF DatesInTime, sub,
       drive
  <2> QED BY <1>8, <2>4, Zenon DEF Wakeful
<1>10. CASE pc' = "step" /\ since' = 0 /\ remaining' = since + n
  <2>1. /\ InCommand => g <= timer - (since + n)
        /\ Reading => g <= read_state - (since + n)
    BY <1>1, <1>5, <1>6
  <2>2. DatesInTime'
    BY <1>2, <1>3, <1>7, <1>10, <2>1, Zenon DEF DatesInTime, sub, drive
  <2> QED BY <1>8, <2>2, Zenon DEF Wakeful
<1> QED BY <1>4, <1>9, <1>10, Zenon

\* The commands that start a response leave its delay within bounds, and a
\* sector starts to be read before anything can be due.
LEMMA WakefulExecute ==
  ASSUME IInv, Wakeful, StepExecute
  PROVE  Wakeful'
<1>1. CASE ExecuteAsserts(command) \/ ExecuteRefuses(command)
  BY <1>1, WakefulUnchanged, Zenon DEF StepExecute, Panic
<1>2. CASE ~(ExecuteAsserts(command) \/ ExecuteRefuses(command))
  <2>1. /\ TimerExpires({"CommandPending", "ParamPush"})
        /\ ExecuteCommand(command) /\ GoTo("Execution", "EXECUTION")
    BY <1>2, Zenon DEF StepExecute
  <2>2. sequence \in {"CommandPending", "ParamPush"} /\ InCommand
    BY <2>1, Zenon DEF TimerExpires, InCommand
  <2>3. read_state' \in {read_state, NotReading, CyclesPerSector}
    BY <2>1, Zenon DEF ExecuteCommand, ReadStateAfter
  <2>4. async_response'.delay < Never
    <3>1. CASE AsyncOf(command) = None
      BY <2>1, <3>1, Zenon DEF ExecuteCommand, Wakeful, DelaysBounded
    <3>2. CASE AsyncOf(command) # None
      <4>1. AsyncOf(command) \in AsyncKinds
        BY <3>2, Zenon DEF AsyncOf, AsyncKinds
      <4>2. DelayOf(command) < Never
        BY <4>1, DelayAssumption, Zenon DEF DelayOf, AsyncDelays
      <4> QED BY <2>1, <3>2, <4>2, Zenon DEF ExecuteCommand
    <3> QED BY <3>1, <3>2, Zenon
  <2>5. "EXECUTION" \in DelayNames
    BY Zenon DEF DelayNames
  <2> QED BY <2>1, <2>2, <2>3, <2>4, <2>5, WakefulGoTo, Zenon
<1> QED BY <1>1, <1>2, Zenon

\* The invariant is inductive.
LEMMA WakefulLemma ==
  ASSUME IInv, Wakeful, [Next]_vars
  PROVE  Wakeful'
<1>1. CASE StepParam \/ StepFlush \/ StepRx \/ StepAsyncRx \/ StepBusy
  <2>1. PICK seqs \in SUBSET {"CommandPending", "ParamPush", "Execution", "RxFlush", "RxPush",
                              "AsyncRxPush", "BusyDelay"} : TimerExpires(seqs)
    BY <1>1, Zenon DEF StepParam, StepFlush, StepRx, StepAsyncRx, StepBusy
  <2>2. InCommand /\ async_response'.delay < Never /\ read_state' = read_state
    BY <1>1, <2>1, Zenon DEF StepParam, StepFlush, StepRx, StepAsyncRx,
       StepBusy, TimerExpires, InCommand, PushByte, drive, Wakeful, DelaysBounded
  <2>3. \/ GoTo("ParamPush", "PARAM_PUSH")
        \/ GoTo("RxFlush", "RX_FLUSH")
        \/ GoTo("BusyDelay", "BUSY_DELAY") \/ GoTo("IrqDelay", "IRQ_DELAY")
        \/ GoTo("RxPush", "RX_PUSH") \/ GoTo("AsyncRxPush", "RX_PUSH")
    BY <1>1, Zenon DEF StepParam, StepFlush, StepRx, StepAsyncRx, StepBusy,
       PushByte
  <2>4. {"PARAM_PUSH", "RX_FLUSH", "BUSY_DELAY", "IRQ_DELAY", "RX_PUSH"} \subseteq DelayNames
    BY Zenon DEF DelayNames
  <2> QED BY <2>1, <2>2, <2>3, <2>4, WakefulGoTo, Zenon
<1>2. CASE StepExecute
  BY <1>2, WakefulExecute, Zenon
<1>3. CASE StepIrq
  BY <1>3, WakefulIrq, Zenon
<1>4. CASE StepNothing
  BY <1>4, WakefulNothing, Zenon
<1>5. CASE SyncAsync
  BY <1>5, WakefulAsync, Zenon
<1>6. CASE SyncRead
  BY <1>6, WakefulRead, Zenon
<1>7. CASE SyncEndAccess \/ SyncEndCpu
  BY <1>7, WakefulSyncEnd, Zenon
<1>8. CASE CpuSync
  BY <1>8, WakefulCpuSync, Zenon
<1>9. CASE Instruction \/ Access
  BY <1>9, WakefulInstruction, Zenon
<1>10. CASE Poll \/ ReadResponse \/ SetParameter
  <2>1. CASE UNCHANGED <<host, sub, drive, time, loop>>
    BY <2>1, WakefulUnchanged, Zenon
  <2>2. CASE /\ pc = "handler" /\ pc' = "cpu"
             /\ UNCHANGED <<command, irq_flags, sequence, timer, async_response, drive, time>>
    BY <2>2, WakefulReturn, Zenon
  <2> QED BY <1>10, <2>1, <2>2, Zenon DEF Poll, ReadResponse, SetParameter,
             Panic, Handler, Return, host, sub
<1>11. ASSUME NEW c \in Commands, SetCommand(c) PROVE Wakeful'
  BY <1>11, WakefulSetCommand, Zenon
<1>12. ASSUME NEW v \in SUBSET {0, 1, 2}, NEW clr \in BOOLEAN, IrqAck(v, clr)
       PROVE  Wakeful'
  BY <1>12, WakefulIrqAck, Zenon
<1>13. CASE UNCHANGED vars
  BY <1>13, WakefulUnchanged, Zenon DEF vars
<1> QED BY <1>1, <1>2, <1>3, <1>4, <1>5, <1>6, <1>7, <1>8, <1>9, <1>10, <1>11,
           <1>12, <1>13, Zenon DEF Next, Sync, SubCpuStep, Program

\* Initially nothing waits and nothing runs.
LEMMA WakefulInit ==
  ASSUME Init
  PROVE  Wakeful
<1>1. Never \in Nat \ {0}
  BY CdRomAssumption, Zenon DEF Positive
<1> QED BY <1>1 DEF Init, Wakeful, NothingWaits, DelaysBounded, DatesInTime, SubCpuFree,
           InCommand, Reading, NotReading, NoAsync

(***************************************************************************)
(* No wakeup is lost, for every choice of the delays, of the instructions' *)
(* durations and of the dates of the other peripherals: although           *)
(* maybe_set_next_sync_delta lowers the date of the controller's sheet     *)
(* only, the date at which the CPU looks at the sheets is never later.     *)
(***************************************************************************)
THEOREM WakeupNeverLost == Spec => []NoLostWakeup
<1>1. Wakeful => NoLostWakeup
  BY Zenon DEF Wakeful, NothingWaits, DatesInTime, NoLostWakeup, Reading
<1>2. Spec => []IInv
  BY Invariance, Zenon
<1>3. Init => Wakeful
  BY WakefulInit, Zenon
<1>4. IInv /\ Wakeful /\ [Next]_vars => Wakeful'
  BY WakefulLemma, Zenon
<1> QED BY <1>1, <1>2, <1>3, <1>4, PTL DEF Spec

-----------------------------------------------------------------------------
\* The remainder, up to one modulus away from its range.
LEMMA ModLemma ==
  ASSUME NEW m \in Nat \ {0}, NEW a \in Int, 0 - m <= a, a < 2 * m
  PROVE  a % m = IF a < 0 THEN a + m ELSE IF a < m THEN a ELSE a - m
<1> DEFINE q == a \div m
           r == a % m
<1>1. q \in Int /\ r \in 0 .. m - 1 /\ a = m * q + r
  OBVIOUS
<1> HIDE DEF q, r
<1>2. 0 <= a /\ a < m => q = 0
  BY <1>1
<1>3. m <= a /\ a < 2 * m => q = 1
  BY <1>1
<1>4. 0 - m <= a /\ a < 0 => q = -1
  BY <1>1
<1> QED BY <1>1, <1>2, <1>3, <1>4 DEF r

\* Two positions of the ring are the same cell if they are a turn apart, with
\* either carry, and different ones if they are closer.
LEMMA CellLemma ==
  ASSUME NEW m \in Nat \ {0}, NEW a \in Nat
  PROVE  /\ a % m \in 0 .. m - 1
         /\ (a + 2 * m) % m = a % m
         /\ \A d \in 1 .. m - 1 : (a + d) % m # a % m
<1> DEFINE q(x) == x \div m
           r(x) == x % m
<1>1. \A x \in Nat : q(x) \in Int /\ r(x) \in 0 .. m - 1 /\ x = m * q(x) + r(x)
  OBVIOUS
<1> HIDE DEF q, r
<1>2. r(a + 2 * m) = r(a)
  <2>1. /\ q(a) \in Int /\ r(a) \in 0 .. m - 1 /\ a = m * q(a) + r(a)
        /\ q(a + 2 * m) \in Int /\ r(a + 2 * m) \in 0 .. m - 1
        /\ a + 2 * m = m * q(a + 2 * m) + r(a + 2 * m)
    BY <1>1
  <2> DEFINE k == q(a + 2 * m) - q(a) - 2
  <2>2. k \in Int /\ m * k = r(a) - r(a + 2 * m)
    BY <2>1
  <2> HIDE DEF k
  <2>3. k = 0
    BY <2>1, <2>2
  <2> QED BY <2>1, <2>2, <2>3
<1>3. ASSUME NEW d \in 1 .. m - 1, r(a + d) = r(a) PROVE FALSE
  <2>1. /\ q(a) \in Int /\ r(a) \in 0 .. m - 1 /\ a = m * q(a) + r(a)
        /\ q(a + d) \in Int /\ a + d = m * q(a + d) + r(a + d)
    BY <1>1
  <2> DEFINE k == q(a + d) - q(a)
  <2>2. k \in Int /\ m * k = d
    BY <2>1, <1>3
  <2> HIDE DEF k
  <2> QED BY <2>2
<1> QED BY <1>1, <1>2, <1>3, Zenon DEF r

\* The length of a ring: its write index is that far ahead of the read index,
\* a turn of the indexes apart.
LEMMA LenLemma ==
  ASSUME NEW f \in Rings
  PROVE  /\ f.write_idx \in Nat /\ f.read_idx \in Nat /\ len(f) \in Nat
         /\ f.write_idx < 2 * Size /\ f.read_idx < 2 * Size
         /\ len(f) < 2 * Size
         /\ f.read_idx + len(f) = IF f.write_idx >= f.read_idx THEN f.write_idx
                                  ELSE f.write_idx + 2 * Size
<1> DEFINE w == f.write_idx
           r == f.read_idx
           m == 2 * Size
<1>1. /\ m \in Nat \ {0} /\ w \in 0 .. m - 1 /\ r \in 0 .. m - 1 /\ w - r \in Int
  <2>1. m \in Nat \ {0}
    BY CdFifoAssumption
  <2>2. w \in Indexes /\ r \in Indexes
    BY Zenon DEF Rings
  <2> QED BY <2>1, <2>2 DEF Indexes
<1>2. len(f) = (w - r) % m
  BY Zenon DEF len
<1> HIDE DEF w, r, m
<1>3. len(f) = IF w >= r THEN w - r ELSE w - r + m
  <2> DEFINE a == w - r
  <2>1. a \in Int /\ 0 - m <= a /\ a < m /\ len(f) = a % m
    BY <1>1, <1>2
  <2> HIDE DEF a
  <2>2. m \in Nat \ {0} /\ a \in Int /\ 0 - m <= a /\ a < 2 * m
    BY <1>1, <2>1
  <2>3. a % m = IF a < 0 THEN a + m ELSE IF a < m THEN a ELSE a - m
    BY <2>2, ModLemma, Zenon
  <2> QED BY <1>1, <2>1, <2>3 DEF a
<1> QED BY <1>1, <1>3 DEF w, r, m

\* What the ring holds is a sequence of its length.
LEMMA ContentsLemma ==
  ASSUME NEW f \in Rings
  PROVE  /\ Contents(f) \in Seq(Values)
         /\ Len(Contents(f)) = len(f)
         /\ \A i \in 1 .. len(f) :
              Contents(f)[i] = f.buffer[(f.read_idx + i - 1) % Size]
<1>1. len(f) \in Nat /\ f.read_idx \in Nat
  BY LenLemma, Zenon
<1>2. \A i \in 1 .. len(f) : f.buffer[(f.read_idx + i - 1) % Size] \in Values
  <2> SUFFICES ASSUME NEW i \in 1 .. len(f)
               PROVE  f.buffer[(f.read_idx + i - 1) % Size] \in Values
    BY Zenon
  <2>1. f.read_idx + i - 1 \in Nat
    BY <1>1
  <2>2. (f.read_idx + i - 1) % Size \in Cells
    BY <2>1, CellLemma, CdFifoAssumption, Zenon DEF Cells
  <2> QED BY <2>2, Zenon DEF Rings
<1> HIDE DEF len
<1> QED BY <1>1, <1>2 DEF Contents

\* The tests for empty and full compare the indexes the right way.
LEMMA TestsLemma ==
  ASSUME NEW f \in Rings
  PROVE  /\ is_empty(f) <=> len(f) = 0
         /\ is_full(f) <=> len(f) = Size
<1>1. /\ f.write_idx \in Nat /\ f.read_idx \in Nat /\ len(f) \in Nat
      /\ f.write_idx < 2 * Size /\ f.read_idx < 2 * Size
      /\ len(f) < 2 * Size
      /\ f.read_idx + len(f) = IF f.write_idx >= f.read_idx THEN f.write_idx
                               ELSE f.write_idx + 2 * Size
  BY LenLemma, Zenon
<1> DEFINE a == f.read_idx + Size
           m == 2 * Size
<1>2. m \in Nat \ {0} /\ a \in Nat /\ a < 2 * m /\ Size \in Nat \ {0}
  BY <1>1, CdFifoAssumption
<1>3. a % m = IF a < 0 THEN a + m ELSE IF a < m THEN a ELSE a - m
  <2>1. m \in Nat \ {0} /\ a \in Int /\ 0 - m <= a /\ a < 2 * m
    BY <1>2
  <2> HIDE DEF a, m
  <2> QED BY <2>1, ModLemma, Zenon
<1>4. is_full(f) <=> f.write_idx = a % m
  BY Zenon DEF is_full
<1> QED BY <1>1, <1>2, <1>3, <1>4 DEF is_empty

\* A successor of an index is one further, with the carry.
LEMMA SuccessorLemma ==
  ASSUME NEW i \in Indexes
  PROVE  /\ Successor(i) \in Indexes
         /\ Successor(i) = IF i + 1 = 2 * Size THEN 0 ELSE i + 1
<1> DEFINE m == 2 * Size
           a == i + 1
<1>1. m \in Nat \ {0} /\ a \in Int /\ 0 < a /\ a <= m
  BY CdFifoAssumption DEF Indexes
<1>2. Successor(i) = a % m
  BY Zenon DEF Successor
<1> HIDE DEF a, m
<1>3. 0 - m <= a /\ a < 2 * m
  BY <1>1
<1>4. a % m = IF a < 0 THEN a + m ELSE IF a < m THEN a ELSE a - m
  BY <1>1, <1>3, ModLemma, Zenon
<1>5. Successor(i) = IF a = m THEN 0 ELSE a
  BY <1>1, <1>2, <1>4
<1>6. Successor(i) \in 0 .. m - 1
  BY <1>1, <1>5
<1> QED BY <1>5, <1>6, Zenon DEF Indexes, a, m

\* A push that is_full allows appends.
LEMMA PushLemma ==
  ASSUME NEW f \in Sound, ~is_full(f), NEW v \in Values
  PROVE  /\ push(f, v) \in Sound
         /\ Contents(push(f, v)) = Append(Contents(f), v)
<1> DEFINE g == push(f, v)
           w == f.write_idx
           r == f.read_idx
           n == len(f)
<1>1. f \in Rings /\ len(f) <= Size
  BY Zenon DEF Sound
<1>2. /\ w \in Nat /\ r \in Nat /\ n \in Nat /\ w < 2 * Size /\ r < 2 * Size
      /\ r + n = IF w >= r THEN w ELSE w + 2 * Size
      /\ w \in Indexes /\ r \in Indexes
      /\ Size \in Nat \ {0}
  BY <1>1, LenLemma, CdFifoAssumption, Zenon DEF Rings
<1>3. n < Size
  BY <1>1, <1>2, TestsLemma
<1>4. w % Size \in Cells /\ f.buffer \in [Cells -> Values]
  BY <1>1, <1>2, CellLemma, Zenon DEF Cells, Rings
<1>5. /\ g.buffer = [f.buffer EXCEPT ![w % Size] = v]
      /\ g.write_idx = Successor(w) /\ g.read_idx = r
      /\ g \in Rings
  BY <1>1, <1>2, <1>4, SuccessorLemma, Zenon DEF push, Rings
<1>6. len(g) = n + 1
  <2>1. /\ g.write_idx \in Nat /\ g.read_idx \in Nat /\ len(g) \in Nat
        /\ len(g) < 2 * Size
        /\ g.read_idx + len(g) = IF g.write_idx >= g.read_idx THEN g.write_idx
                                 ELSE g.write_idx + 2 * Size
    BY <1>5, LenLemma, Zenon
  <2>2. g.write_idx = IF w + 1 = 2 * Size THEN 0 ELSE w + 1
    BY <1>2, <1>5, SuccessorLemma, Zenon
  <2> HIDE DEF g, w, r, n
  <2> QED BY <1>2, <1>3, <1>5, <2>1, <2>2
<1>7. /\ Contents(f) \in Seq(Values) /\ Len(Contents(f)) = n
      /\ \A i \in 1 .. n : Contents(f)[i] = f.buffer[(r + i - 1) % Size]
      /\ Contents(g) \in Seq(Values) /\ Len(Contents(g)) = n + 1
      /\ \A i \in 1 .. n + 1 : Contents(g)[i] = g.buffer[(r + i - 1) % Size]
  BY <1>1, <1>5, <1>6, ContentsLemma, Zenon
<1>8. (r + n) % Size = w % Size
  BY <1>2, CellLemma, Zenon
<1>9. ASSUME NEW i \in 1 .. n PROVE Contents(g)[i] = Contents(f)[i]
  <2> DEFINE a == r + i - 1
             d == n - i + 1
  <2>1. a \in Nat /\ d \in 1 .. Size - 1 /\ a + d = r + n
    BY <1>2, <1>3
  <2>2. a % Size # w % Size /\ a % Size \in Cells
    BY <1>2, <1>8, <2>1, CellLemma DEF Cells
  <2> HIDE DEF g
  <2>3. Contents(g)[i] = g.buffer[a % Size] /\ Contents(f)[i] = f.buffer[a % Size]
    BY <1>2, <1>7
  <2> QED BY <1>4, <1>5, <2>2, <2>3, Zenon
<1>10. Contents(g)[n + 1] = v
  <2>1. Contents(g)[n + 1] = g.buffer[(r + (n + 1) - 1) % Size]
    BY <1>2, <1>7
  <2>2. r + (n + 1) - 1 = r + n
    BY <1>2
  <2> QED BY <1>4, <1>5, <1>8, <2>1, <2>2, Zenon
<1>11. Contents(g) = Append(Contents(f), v)
  <2> DEFINE s == Contents(f)
             t == Contents(g)
  <2>1. s \in Seq(Values) /\ t \in Seq(Values) /\ Len(t) = Len(s) + 1
    BY <1>7, Zenon
  <2>2. \A i \in 1 .. Len(s) : t[i] = s[i]
    BY <1>7, <1>9, Zenon
  <2>3. t[Len(s) + 1] = v
    BY <1>7, <1>10, Zenon
  <2>4. t = Append(s, v)
    <3> HIDE DEF s, t
    <3> QED BY <2>1, <2>2, <2>3
  <2> QED BY <2>4, Zenon
<1> QED BY <1>2, <1>3, <1>5, <1>6, <1>11 DEF Sound

\* A pop takes the oldest value.
LEMMA PopLemma ==
  ASSUME NEW f \in Sound, ~is_empty(f)
  PROVE  /\ pop(f).fifo \in Sound
         /\ pop(f).value = Head(Contents(f))
         /\ Contents(pop(f).fifo) = Tail(Contents(f))
<1> DEFINE g == pop(f).fifo
           w == f.write_idx
           r == f.read_idx
           n == len(f)
<1>1. f \in Rings /\ n <= Size
  BY Zenon DEF Sound
<1>2. /\ w \in Nat /\ r \in Nat /\ n \in Nat /\ w < 2 * Size /\ r < 2 * Size
      /\ r + n = IF w >= r THEN w ELSE w + 2 * Size
      /\ w \in Indexes /\ r \in Indexes
      /\ Size \in Nat \ {0}
  BY <1>1, LenLemma, CdFifoAssumption, Zenon DEF Rings
<1>3. n > 0
  BY <1>1, <1>2, TestsLemma
<1>4. /\ g.buffer = f.buffer /\ g.write_idx = w /\ g.read_idx = Successor(r)
      /\ g \in Rings
  BY <1>1, <1>2, SuccessorLemma, Zenon DEF pop, Rings
<1>5. g.read_idx = IF r + 1 = 2 * Size THEN 0 ELSE r + 1
  BY <1>2, <1>4, SuccessorLemma, Zenon
<1>6. len(g) = n - 1
  <2>1. /\ g.write_idx \in Nat /\ g.read_idx \in Nat /\ len(g) \in Nat
        /\ len(g) < 2 * Size
        /\ g.read_idx + len(g) = IF g.write_idx >= g.read_idx THEN g.write_idx
                                 ELSE g.write_idx + 2 * Size
    BY <1>4, LenLemma, Zenon
  <2> HIDE DEF g, w, r, n
  <2> QED BY <1>1, <1>2, <1>3, <1>4, <1>5, <2>1
<1>7. /\ Contents(f) \in Seq(Values) /\ Len(Contents(f)) = n
      /\ \A i \in 1 .. n : Contents(f)[i] = f.buffer[(r + i - 1) % Size]
      /\ Contents(g) \in Seq(Values) /\ Len(Contents(g)) = n - 1
      /\ \A i \in 1 .. n - 1 :
           Contents(g)[i] = g.buffer[(g.read_idx + i - 1) % Size]
  BY <1>1, <1>4, <1>6, ContentsLemma, Zenon
<1>8. ASSUME NEW i \in 1 .. n - 1 PROVE Contents(g)[i] = Contents(f)[i + 1]
  <2>1. (g.read_idx + i - 1) % Size = (r + i) % Size
    <3>1. CASE r + 1 = 2 * Size
      <4>1. i - 1 \in Nat /\ (i - 1) + 2 * Size = r + i
        BY <1>2, <3>1
      <4>2. ((i - 1) + 2 * Size) % Size = (i - 1) % Size
        BY <1>2, <4>1, CellLemma, Zenon
      <4>3. g.read_idx + i - 1 = i - 1
        BY <1>5, <3>1, <4>1
      <4> QED BY <4>1, <4>2, <4>3, Zenon
    <3>2. CASE r + 1 # 2 * Size
      BY <1>2, <1>5, <3>2
    <3> QED BY <3>1, <3>2, Zenon
  <2>2. i + 1 \in 1 .. n /\ r + (i + 1) - 1 = r + i
    BY <1>2
  <2>3. Contents(f)[i + 1] = f.buffer[(r + (i + 1) - 1) % Size]
    BY <1>7, <2>2, Zenon
  <2>4. Contents(g)[i] = g.buffer[(g.read_idx + i - 1) % Size]
    BY <1>7, Zenon
  <2> QED BY <1>4, <2>1, <2>2, <2>3, <2>4, Zenon
<1>9. pop(f).value = Head(Contents(f))
  <2>1. Contents(f)[1] = f.buffer[(r + 1 - 1) % Size] /\ r + 1 - 1 = r
    BY <1>2, <1>3, <1>7
  <2>2. Head(Contents(f)) = Contents(f)[1]
    BY <1>3, <1>7
  <2> QED BY <2>1, <2>2, Zenon DEF pop
<1>10. Contents(g) = Tail(Contents(f))
  <2> DEFINE s == Contents(f)
             t == Contents(g)
  <2>1. s \in Seq(Values) /\ t \in Seq(Values) /\ Len(s) = Len(t) + 1
    BY <1>2, <1>7
  <2>2. \A i \in 1 .. Len(t) : t[i] = s[i + 1]
    BY <1>7, <1>8, Zenon
  <2>3. t = Tail(s)
    <3> HIDE DEF s, t
    <3> QED BY <2>1, <2>2
  <2> QED BY <2>3, Zenon
<1> QED BY <1>1, <1>2, <1>4, <1>6, <1>9, <1>10 DEF Sound

(***************************************************************************)
(* The ring of struct Fifo is a queue of at most Size bytes: at every      *)
(* length, and wherever its indexes and their carries are, a push appends, *)
(* a pop takes the oldest byte and the two tests are right.                *)
(***************************************************************************)
THEOREM RingIsQueue == QueueLengths = 0 .. Size
<1> SUFFICES ASSUME NEW f \in Sound PROVE ActsAsQueue(f)
  BY Zenon DEF QueueLengths
<1>1. f \in Rings
  BY Zenon DEF Sound
<1>2. /\ Contents(f) \in Seq(Values) /\ Len(Contents(f)) = len(f)
      /\ len(f) \in Nat
  BY <1>1, ContentsLemma, LenLemma, Zenon
<1>3. Contents(f) = << >> <=> len(f) = 0
  BY <1>2
<1>4. Contents(clear(f)) = << >>
  <2>1. NewFifo \in Rings
    BY CdFifoAssumption DEF NewFifo, Rings, Indexes
  <2>2. len(NewFifo) = 0
    <3>1. /\ len(NewFifo) \in Nat /\ len(NewFifo) < 2 * Size
          /\ NewFifo.read_idx + len(NewFifo) =
               IF NewFifo.write_idx >= NewFifo.read_idx THEN NewFifo.write_idx
               ELSE NewFifo.write_idx + 2 * Size
      BY <2>1, LenLemma, Zenon
    <3>2. NewFifo.read_idx = 0 /\ NewFifo.write_idx = 0
      BY Zenon DEF NewFifo
    <3> QED BY <3>1, <3>2
  <2>3. Contents(NewFifo) \in Seq(Values) /\ Len(Contents(NewFifo)) = 0
    BY <2>1, <2>2, ContentsLemma, Zenon
  <2> QED BY <2>3 DEF clear
<1> QED BY <1>1, <1>2, <1>3, <1>4, TestsLemma, PushLemma, PopLemma, Zenon DEF
           ActsAsQueue

(***************************************************************************)
(* The parameters of a command never exceed what the program may push:     *)
(* they only move from one FIFO to the other, which is emptied when a      *)
(* command starts, and none is added while a sequence takes them.          *)
(***************************************************************************)
FirstSteps == {"CommandPending", "ParamPush"}

Limit == IF MaxParams < Fifo THEN MaxParams ELSE Fifo

ParamsFit ==
  /\ host_params <= Limit /\ params <= Limit
  /\ sequence \in FirstSteps => params + host_params <= Limit

\* A step that adds no parameter, and one that starts a command, keep it.
LEMMA FitElsewhere ==
  ASSUME IInv, ParamsFit, host_params' \in {host_params, 0},
         \/ params' = params /\ (sequence' \in FirstSteps => sequence \in FirstSteps)
         \/ params' = 0
  PROVE  ParamsFit'
<1>1. host_params \in Nat /\ params \in Nat /\ Limit \in Nat
  BY CdRomAssumption DEF IInv, TypeOK, HostOK, SubOK, Limit, Fifo
<1> HIDE DEF Limit
<1>2. host_params' \in Nat /\ host_params' <= host_params
  BY <1>1
<1>3. CASE params' = params /\ (sequence' \in FirstSteps => sequence \in FirstSteps)
  <2>1. CASE host_params' = host_params
    BY <1>1, <1>3, <2>1, Zenon DEF ParamsFit
  <2>2. CASE host_params' = 0
    <3>1. params <= Limit /\ params + 0 <= Limit /\ 0 <= Limit
      BY <1>1 DEF ParamsFit
    <3> QED BY <1>3, <2>2, <3>1, Zenon DEF ParamsFit
  <2> QED BY <2>1, <2>2, Zenon
<1>4. CASE params' = 0
  <2>1. host_params' <= Limit /\ 0 <= Limit
    BY <1>1, <1>2 DEF ParamsFit
  <2>2. params' + host_params' <= Limit
    <3> DEFINE h == host_params'
    <3>1. h \in Nat /\ h <= Limit
      BY <1>2, <2>1, Zenon
    <3> HIDE DEF h
    <3>2. 0 + h <= Limit
      BY <3>1
    <3> QED BY <1>4, <3>2, Zenon DEF h
  <2> QED BY <1>4, <2>1, <2>2, Zenon DEF ParamsFit
<1> QED BY <1>3, <1>4, Zenon

\* Every step keeps the parameters within the limit.
LEMMA FitLemma ==
  ASSUME IInv, ParamsFit, [Next]_vars
  PROVE  ParamsFit'
<1> DEFINE same == /\ UNCHANGED <<host_params, params>>
                   /\ sequence' \in FirstSteps => sequence \in FirstSteps
<1>1. same => ParamsFit'
  BY FitElsewhere, Zenon
<1>2. CASE StepParam
  <2>1. /\ host_params \in 1 .. Fifo /\ params \in Nat /\ params + host_params <= Limit
        /\ Limit \in Nat /\ Limit <= Fifo
    BY <1>2, CdRomAssumption
    DEF StepParam, TimerExpires, ParamsFit, IInv, TypeOK, HostOK, SubOK, Limit, Fifo, FirstSteps
  <2>2. host_params \in 1 .. 31 /\ params \in 0 .. 30
    BY <2>1 DEF Fifo
  <2>3. host_params' = host_params - 1 /\ params' = params + 1
    BY <1>2, <2>2, FifoLemma, Zenon DEF StepParam
  <2> HIDE DEF Limit
  <2> QED BY <2>1, <2>3 DEF ParamsFit
<1>3. CASE StepExecute \/ StepFlush \/ StepRx \/ StepAsyncRx \/ StepBusy \/ StepIrq
  BY <1>1, <1>3, Zenon DEF StepExecute, StepFlush, StepRx, StepAsyncRx,
     StepBusy, StepIrq, PushByte, GoTo, Panic, host, sub, FirstSteps
<1>4. CASE StepNothing \/ SyncEndAccess \/ SyncEndCpu \/ CpuSync \/ Instruction \/ Access
           \/ Poll \/ ReadResponse
  BY <1>1, <1>4, Zenon DEF StepNothing, SyncEndAccess, SyncEndCpu, CpuSync,
     Instruction, Access, Poll, ReadResponse, Panic, host, sub
<1>5. CASE SyncAsync \/ SyncRead
  BY <1>1, <1>5, Zenon DEF SyncAsync, SyncRead, ProcessAsync, SectorRead,
     NotifyRead, Panic, host, sub, FirstSteps
<1>6. CASE SetParameter
  <2>1. CASE command # None \/ host_params = Fifo
    BY <1>1, <1>6, <2>1, Zenon DEF SetParameter, Panic, host, sub
  <2>2. CASE ~(command # None \/ host_params = Fifo)
    <3>1. /\ host_params \in 0 .. Fifo /\ host_params < MaxParams /\ MaxParams \in Nat
          /\ sequence \notin FirstSteps
      BY <1>6, <2>2, CdRomAssumption, Zenon DEF SetParameter, IInv, TypeOK,
         HostOK, SequenceInv, FirstSteps
    <3>2. host_params' = host_params + 1 /\ UNCHANGED <<params, sequence>>
      BY <1>6, <2>2, <3>1, FifoLemma DEF SetParameter, sub, Fifo
    <3>3. host_params + 1 <= Limit
      BY <2>2, <3>1 DEF Limit, Fifo
    <3> QED BY <3>1, <3>2, <3>3, Zenon DEF ParamsFit
  <2> QED BY <2>1, <2>2, Zenon
<1>7. ASSUME NEW c \in Commands, SetCommand(c) PROVE ParamsFit'
  BY <1>7, FitElsewhere, Zenon DEF SetCommand, StartCommand, Panic, host, sub
<1>8. ASSUME NEW v \in SUBSET {0, 1, 2}, NEW clr \in BOOLEAN, IrqAck(v, clr)
      PROVE  ParamsFit'
  <2>1. CASE UNCHANGED <<host, sub>>
    BY <1>1, <2>1, Zenon DEF host, sub
  <2>2. CASE host_params' \in {host_params, 0} /\ StartWaiting(irq_flags \ v)
    BY <2>2, FitElsewhere, Zenon DEF StartWaiting, StartCommand, ProcessAsync,
       NotifyRead, sub, FirstSteps
  <2> QED BY <1>8, <2>1, <2>2, Zenon DEF IrqAck, Panic
<1>9. CASE UNCHANGED vars
  BY <1>1, <1>9, Zenon DEF vars, host, sub
<1> QED BY <1>2, <1>3, <1>4, <1>5, <1>6, <1>7, <1>8, <1>9, Zenon DEF Next,
           Sync, SubCpuStep, Program

(***************************************************************************)
(* The two parameter FIFOs behave as queues at every length they reach,    *)
(* for any number of parameters pushed between two commands, as long as a  *)
(* ring has the room that the test for full allows: the code's rings have  *)
(* 16 cells, which is Fifo.                                                *)
(***************************************************************************)
THEOREM ParameterFifosAreQueues ==
  ASSUME Fifo <= Size \/ MaxParams <= Size
  PROVE  Spec => []FifoIsQueue
<1>1. Init => ParamsFit
  BY CdRomAssumption DEF Init, ParamsFit, Limit, Fifo
<1>2. IInv /\ ParamsFit /\ [Next]_vars => ParamsFit'
  BY FitLemma, Zenon
<1>3. IInv /\ ParamsFit => FifoIsQueue
  <2> SUFFICES ASSUME IInv, ParamsFit PROVE FifoIsQueue
    BY Zenon
  <2>1. Limit <= Size /\ Limit \in Nat /\ Size \in Nat
    BY CdRomAssumption, CdFifoAssumption DEF Limit, Fifo
  <2>2. host_params \in Nat /\ params \in Nat
    BY DEF IInv, TypeOK, HostOK, SubOK, Fifo
  <2>3. host_params \in 0 .. Size /\ params \in 0 .. Size
    BY <2>1, <2>2 DEF ParamsFit
  <2> QED
    BY <2>3, RingIsQueue, Zenon DEF FifoIsQueue
<1> QED
  BY <1>1, <1>2, <1>3, Invariance, PTL DEF Spec

----------------------------------------------------------------------------
(***************************************************************************)
(* Why a program that follows the protocol meets no panic: a command that  *)
(* has not been executed yet, in the host register or in the sequence, has *)
(* its parameters in the two FIFOs and no asynchronous response in its     *)
(* way, and a sequence runs either the command or the asynchronous         *)
(* response.                                                               *)
(***************************************************************************)
Waiting == command # None /\ sequence \in {"Idle"} \cup FirstSteps

Orderly ==
  /\ ProtocolNeverPanics
  /\ read_state = NotReading /\ ~read_pending
  /\ irq_code # "SectorReady" /\ command # "Read"
  /\ sequence = "AsyncRxPush" => irq_code = "AsyncOk"
  /\ InCommand => (command # None <=> irq_code # "AsyncOk")
  /\ Waiting =>
       /\ async_response.kind = None
       /\ host_params + (IF InCommand THEN params ELSE 0) = NParams(command)
       /\ command = "SeekL" => seek_target = "data"
       /\ command = "GetLocP" => position = "data"

\* The programs that follow the protocol.
OrderlyInv == Polite => Orderly

\* A step that leaves the command, its parameters and the sequence alone.
LEMMA OrderlyElsewhere ==
  ASSUME Orderly, UNCHANGED <<command, host_params, sequence, params, irq_code, drive, panic>>,
         async_response'.kind = async_response.kind
  PROVE  Orderly'
  BY Zenon DEF Orderly, ProtocolNeverPanics, InCommand, Waiting, drive,
     FirstSteps

\* A step of the sequence after the execution.
LEMMA OrderlySequence ==
  ASSUME Orderly, UNCHANGED <<command, irq_code, panic, read_state, read_pending>>,
         InCommand, sequence' \notin {"Idle"} \cup FirstSteps,
         sequence' = "AsyncRxPush" => sequence = "AsyncRxPush"
  PROVE  Orderly'
  BY Zenon DEF Orderly, ProtocolNeverPanics, InCommand, Waiting, FirstSteps

\* The asynchronous response starts: no command was waiting.
LEMMA OrderlyAsync ==
  ASSUME Polite, Orderly, ~InCommand, async_response.kind # None, ProcessAsync,
         UNCHANGED <<command, panic>>
  PROVE  Orderly'
  BY Zenon DEF Orderly, ProtocolNeverPanics, InCommand, Waiting, ProcessAsync,
     FirstSteps

\* A command starts, with its parameters.
LEMMA OrderlyCommand ==
  ASSUME Polite, Orderly, StartCommand, UNCHANGED <<panic, host_params, drive>>, 
         command' # None, command' # "Read", async_response.kind = None,
         host_params = NParams(command'), host_params \in Nat,
         command' = "SeekL" => seek_target = "data",
         command' = "GetLocP" => position = "data"
  PROVE  Orderly'
  BY DEF Orderly, ProtocolNeverPanics, InCommand, Waiting, StartCommand, FirstSteps, drive

\* Every step of an orderly program keeps it so.
LEMMA OrderlyLemma ==
  ASSUME Polite, "Read" \notin Commands, MaxParams <= Fifo, IInv, Orderly, [Next]_vars
  PROVE  Orderly'
<1>1. CASE StepParam
  <2>1. /\ host_params \in 1 .. Fifo /\ params \in 0 .. 31 /\ Waiting /\ Waiting' /\ InCommand
        /\ InCommand'
    BY <1>1 DEF StepParam, TimerExpires, IInv, TypeOK, HostOK, SubOK, SequenceInv, Waiting,
       FirstSteps, InCommand, GoTo
  <2>2. host_params + params = NParams(command) /\ NParams(command) \in 0 .. 3
    BY <2>1 DEF Orderly, NParams
  <2>3. host_params \in 1 .. 31 /\ params \in 0 .. 30
    BY <2>1, <2>2 DEF Fifo
  <2>4. host_params' = host_params - 1 /\ params' = params + 1
    BY <1>1, <2>3, FifoLemma, Zenon DEF StepParam
  <2>5. host_params' + params' = NParams(command)
    BY <2>2, <2>3, <2>4
  <2> QED BY <1>1, <2>1, <2>5, Zenon DEF StepParam, GoTo, Orderly,
             ProtocolNeverPanics, InCommand, drive
<1>2. CASE StepExecute
  <2>1. /\ InCommand /\ Waiting /\ host_params = 0 /\ command # "Read" /\ command # None
        /\ async_response.kind = None /\ irq_code \notin {"AsyncOk", "SectorReady"}
        /\ params \in Nat
    BY <1>2 DEF StepExecute, TimerExpires, IInv, TypeOK, SubOK, SequenceInv, Waiting, FirstSteps,
       InCommand, Orderly
  <2>2. ~ExecuteAsserts(command) /\ ~ExecuteRefuses(command)
    BY <2>1 DEF ExecuteAsserts, ExecuteRefuses, Seeks, Orderly
  <2>3. ExecuteCommand(command) /\ GoTo("Execution", "EXECUTION") /\ UNCHANGED host
    BY <1>2, <2>2, Zenon DEF StepExecute
  <2>4. read_state' = NotReading /\ ~read_pending' /\ irq_code' \notin {"AsyncOk", "SectorReady"}
    BY <2>1, <2>3, Zenon DEF ExecuteCommand, ReadStateAfter, Orderly
  <2> QED BY <2>1, <2>3, <2>4, Zenon DEF Orderly, ProtocolNeverPanics, GoTo,
             InCommand, Waiting, FirstSteps, host
<1>3. CASE StepFlush \/ StepRx \/ StepAsyncRx \/ StepBusy
  BY <1>3, OrderlySequence, Zenon DEF StepFlush, StepRx, StepAsyncRx,
     StepBusy, PushByte, GoTo, TimerExpires, InCommand, host, drive, FirstSteps
<1>4. CASE StepIrq
  <2>1. irq_flags = {}
    BY <1>4, Zenon DEF StepIrq, TimerExpires, IInv, SequenceInv,
       InCommandNoIrq, InCommand
  <2>2. command' = None /\ sequence' = "Idle" /\ UNCHANGED <<irq_code, drive, panic>>
    BY <1>4, <2>1, Zenon DEF StepIrq
  <2>3. ~InCommand' /\ ~Waiting'
    BY <2>2, Zenon DEF InCommand, Waiting
  <2> QED BY <2>2, <2>3, Zenon DEF Orderly, ProtocolNeverPanics, drive, None
<1>5. CASE StepNothing \/ SyncEndAccess \/ SyncEndCpu \/ CpuSync \/ Instruction \/ Access
           \/ Poll
  BY <1>5, OrderlyElsewhere, Zenon DEF StepNothing, SyncEndAccess, SyncEndCpu,
     CpuSync, Instruction, Access, Poll, Return, StartSync, host, sub
<1>6. CASE ReadResponse
  BY <1>6, OrderlyElsewhere DEF ReadResponse, Return, sub, IInv, TypeOK, HostOK, HostLen
<1>7. CASE SyncAsync
  <2>1. CASE SubCpuFree /\ async_response.kind # None /\ ~(async_response.delay > elapsed)
    BY <1>7, <2>1, OrderlyAsync, Zenon DEF SyncAsync, SubCpuFree
  <2>2. CASE ~(SubCpuFree /\ async_response.kind # None /\ ~(async_response.delay > elapsed))
    <3>0. async_response \in [kind : AsyncKinds \cup {None}, delay : Nat]
      BY Zenon DEF IInv, TypeOK, SubOK
    <3>1. async_response'.kind = async_response.kind
      BY <1>7, <2>2, <3>0, Zenon DEF SyncAsync, sub
    <3>2. UNCHANGED <<command, host_params, sequence, params, irq_code, drive, panic>>
      BY <1>7, <2>2, Zenon DEF SyncAsync, sub, host
    <3> QED BY <3>1, <3>2, OrderlyElsewhere, Zenon
  <2> QED BY <2>1, <2>2, Zenon
<1>8. CASE SyncRead
  BY <1>8, OrderlyElsewhere, Zenon DEF SyncRead, Orderly, host, sub
<1>9. CASE SetParameter
  <2>1. command = None /\ host_params # Fifo
    BY <1>9, CdRomAssumption DEF SetParameter, IInv, TypeOK, HostOK, Fifo
  <2> QED BY <1>9, <2>1, Zenon DEF SetParameter, Return, Orderly,
             ProtocolNeverPanics, Waiting, InCommand, sub, drive, FirstSteps
<1>10. ASSUME NEW c \in Commands, SetCommand(c) PROVE Orderly'
  <2>1. /\ command = None /\ async_response.kind = None
        /\ host_params = NParams(c) /\ host_params \in Nat
        /\ c = "SeekL" => seek_target = "data"
        /\ c = "GetLocP" => position = "data"
        /\ ~(InCommand /\ irq_code = "AsyncOk")
        /\ c # None /\ c # "Read"
    BY <1>10, CdRomAssumption
    DEF SetCommand, MaySend, IInv, TypeOK, HostOK, AllCommands, None, Fifo
  <2>2. ~InCommand
    BY <2>1, Zenon DEF Orderly
  <2>3. command' = c /\ UNCHANGED <<host_params, drive, panic>>
    BY <1>10, <2>1, Zenon DEF SetCommand, Return
  <2>4. CASE SubCpuFree
    BY <1>10, <2>1, <2>3, <2>4, OrderlyCommand, Zenon DEF SetCommand
  <2>5. CASE ~SubCpuFree
    BY <1>10, <2>1, <2>2, <2>3, <2>5
    DEF SetCommand, Orderly, ProtocolNeverPanics, Waiting, InCommand, sub, drive, FirstSteps
  <2> QED BY <2>4, <2>5, Zenon
<1>11. ASSUME NEW v \in SUBSET {0, 1, 2}, NEW clr \in BOOLEAN, IrqAck(v, clr)
       PROVE  Orderly'
  <2>1. ~(~InCommand /\ command # None /\ async_response.kind # None)
    BY Zenon DEF Orderly, Waiting, InCommand
  <2>2. UNCHANGED <<command, host_params, panic>> /\ StartWaiting(irq_flags \ v)
    BY <1>11, <2>1, Zenon DEF IrqAck, Return
  <2>3. CASE ~InCommand /\ command # None /\ StartCommand /\ UNCHANGED drive
    <3>1. /\ Waiting /\ async_response.kind = None /\ host_params = NParams(command)
          /\ command # "Read" /\ host_params \in Nat
          /\ command = "SeekL" => seek_target = "data"
          /\ command = "GetLocP" => position = "data"
      BY <2>3 DEF Orderly, Waiting, InCommand, IInv, TypeOK, HostOK, Fifo
    <3> QED BY <2>2, <2>3, <3>1, OrderlyCommand, Zenon
  <2>4. CASE ~InCommand /\ async_response.kind # None /\ ProcessAsync
    BY <2>2, <2>4, OrderlyAsync, Zenon
  <2>5. CASE UNCHANGED <<sub, drive>>
    BY <2>2, <2>5, OrderlyElsewhere, Zenon DEF sub
  <2> QED BY <2>2, <2>3, <2>4, <2>5, Zenon DEF StartWaiting, Orderly
<1>12. CASE UNCHANGED vars
  BY <1>12, OrderlyElsewhere, Zenon DEF vars, host, sub
<1> QED BY <1>1, <1>2, <1>3, <1>4, <1>5, <1>6, <1>7, <1>8, <1>9, <1>10, <1>11,
           <1>12, Zenon DEF Next, Sync, SubCpuStep, Program

\* Nothing has been sent initially.
LEMMA OrderlyInit == Init => Orderly
  BY Zenon DEF Init, Orderly, ProtocolNeverPanics, InCommand, Waiting,
     FirstSteps, None

(***************************************************************************)
(* A program that follows the command protocol and does not read sectors   *)
(* never makes the emulator panic, whatever the delays; the parameter FIFO *)
(* must hold the parameters it pushes.                                     *)
(***************************************************************************)
THEOREM PoliteProgramsNeverPanic ==
  ASSUME "Read" \notin Commands, MaxParams <= Fifo
  PROVE  Spec => []ProtocolNeverPanics
<1>1. Spec => []IInv
  BY Invariance, Zenon
<1>2. Init => OrderlyInv
  BY OrderlyInit, Zenon DEF OrderlyInv
<1>3. IInv /\ OrderlyInv /\ [Next]_vars => OrderlyInv'
  BY OrderlyLemma, Zenon DEF OrderlyInv
<1>4. OrderlyInv => ProtocolNeverPanics
  BY Zenon DEF OrderlyInv, Orderly, ProtocolNeverPanics
<1> QED BY <1>1, <1>2, <1>3, <1>4, PTL DEF Spec
=============================================================================

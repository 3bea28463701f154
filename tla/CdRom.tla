------------------------------- MODULE CdRom -------------------------------
(***************************************************************************)
(* The CD-ROM controller of src/cdrom/mod.rs: the sub-CPU sequence that    *)
(* runs a command and delivers its response, the asynchronous responses    *)
(* and the sector notifications that share it, and the dates at which the  *)
(* controller asks the TimeKeeper to be synchronised.                      *)
(*                                                                         *)
(* CdRom::sync is a loop over the elapsed cycles.  `pc' walks through it:  *)
(*   "cpu"      the CPU is between two instructions                        *)
(*   "step"     head of the loop: advance the sub-CPU                      *)
(*   "async"    then the asynchronous response                             *)
(*   "read"     then the sector read, back to "step"                       *)
(*   "handler"  sync is over, the register access that called it goes on   *)
(* Nothing else runs while pc # "cpu".                                     *)
(*                                                                         *)
(* Dates are relative to the TimeKeeper's `now': `since' is now minus the  *)
(* last_sync of the controller's time sheet, `due' its next_sync minus     *)
(* now, and `gdue' the TimeKeeper's own next_sync minus now.               *)
(*                                                                         *)
(* Bytes are abstracted to their number; of the bytes in the response FIFO *)
(* the model tells the ones of the latest response from older ones.        *)
(* Parameter values are ones the emulator implements.  A panic of the      *)
(* emulator is recorded in `panic' and nothing happens after it.           *)
(***************************************************************************)
EXTENDS Integers

CONSTANTS
  Commands,     \* the commands the program uses
  HasDisc,      \* is a disc present?
  StepDelay,    \* the delays of cdrom::timings, by name
  AsyncDelay,   \* cycles from a command to its asynchronous response
  AsyncRxDelay, \* cycles from there to the first byte of that response
  SectorCycles, \* CPU cycles per sector at single speed
  Ticks,        \* numbers of cycles an instruction may take
  Others,       \* dates other peripherals may have asked for
  Never,        \* Cycles::max_value(): later than any date
  Polite,       \* does the program follow the command protocol?
  MaxParams,    \* bound: parameters the program pushes between two commands
  MaxSince      \* bound: the time since the last synchronisation saturates

AllCommands ==
  {"GetStat", "SetLoc", "Read", "Pause", "Init", "Mute", "Demute", "SetFilter",
   "SetMode", "GetParam", "GetLocP", "SeekL", "Test", "GetId", "ReadToc"}
AsyncKinds == {"pause", "init", "seek_l", "read_toc", "get_id"}
AsyncDelays == AsyncKinds \cup {"pause_reading"}
DelayNames == {"COMMAND_PENDING", "PARAM_PUSH", "EXECUTION", "RX_FLUSH",
               "RX_PUSH", "BUSY_DELAY", "IRQ_DELAY", "READ_RX_PUSH"}
Positive == Nat \ {0}

ASSUME CdRomAssumption ==
  /\ Commands \subseteq AllCommands
  /\ HasDisc \in BOOLEAN /\ Polite \in BOOLEAN
  /\ StepDelay \in [DelayNames -> Positive]
  /\ AsyncDelay \in [AsyncDelays -> Positive]
  /\ AsyncRxDelay \in [AsyncKinds -> Positive]
  /\ SectorCycles \in Nat /\ SectorCycles >= 2
  /\ Ticks \subseteq Positive /\ Others \subseteq Positive
  /\ Never \in Positive /\ MaxParams \in Nat /\ MaxSince \in Nat

\* Never is later than any delay, and a sector, at either speed, takes longer
\* than the steps of a sequence that come before the command is executed
ASSUME DelayAssumption ==
  /\ \A n \in DelayNames : StepDelay[n] + 1 < Never
  /\ \A k \in AsyncDelays : AsyncDelay[k] < Never
  /\ \A k \in AsyncKinds : AsyncRxDelay[k] < Never
  /\ SectorCycles < Never
  /\ StepDelay["COMMAND_PENDING"] < SectorCycles \div 2
  /\ StepDelay["PARAM_PUSH"] <= SectorCycles \div 2

VARIABLES
  command, host_params, host_response, irq_flags,      \* host interface
  sequence, timer, params, response, irq_code, async_response,  \* SubCpu
  read_state, read_pending, seek_target, seek_target_pending, position,
  double_speed,                                        \* drive
  since, due, gdue,                                    \* TimeKeeper
  pc, caller, remaining, elapsed,                      \* CdRom::sync
  panic

host  == <<command, host_params, host_response, irq_flags>>
sub   == <<sequence, timer, params, response, irq_code, async_response>>
drive == <<read_state, read_pending, seek_target, seek_target_pending,
           position, double_speed>>
time  == <<since, due, gdue>>
loop  == <<pc, caller, remaining, elapsed>>
vars  == <<host, sub, drive, time, loop, panic>>

None == "none"
NoAsync == [kind |-> None, delay |-> 0]
NotReading == -1

\* The program-visible value of an IrqCode: the set of its bits.
IrqBits(code) ==
  CASE code = "SectorReady" -> {0}
    [] code = "AsyncOk"     -> {1}
    [] code = "Ok"          -> {0, 1}
    [] code = "Error"       -> {0, 2}

Fifo == 16                          \* capacity of a Fifo
Push(len) == (len + 1) % 32         \* its length is kept modulo 32
Pop(len)  == (len + 31) % 32

HostLen(r) == r.old + r.new
PushResponse(r) == IF HostLen(r) = 31 THEN [old |-> 0, new |-> 0]
                                      ELSE [r EXCEPT !.new = @ + 1]
PopResponse(r) == IF r.old > 0 THEN [r EXCEPT !.old = @ - 1]
                               ELSE [r EXCEPT !.new = @ - 1]
Aged(r) == [old |-> HostLen(r), new |-> 0]

Earliest(a, b) == IF a <= b THEN a ELSE b

InCommand == sequence # "Idle"

HostOK ==
  /\ command \in AllCommands \cup {None}
  /\ host_params \in 0 .. Fifo
  /\ host_response \in [old : 0 .. 31, new : 0 .. 31]
  /\ irq_flags \in SUBSET {0, 1, 2}

SubOK ==
  /\ sequence \in {"Idle", "CommandPending", "ParamPush", "Execution",
                   "RxFlush", "RxPush", "BusyDelay", "IrqDelay", "AsyncRxPush"}
  /\ timer \in Nat
  /\ params \in 0 .. 31 /\ response \in 0 .. 31
  /\ irq_code \in {"SectorReady", "AsyncOk", "Ok", "Error"}
  /\ async_response \in [kind : AsyncKinds \cup {None}, delay : Nat]

DriveOK ==
  /\ read_state \in Nat \cup {NotReading}
  /\ read_pending \in BOOLEAN
  /\ seek_target \in {"pregap", "data"} /\ position \in {"pregap", "data"}
  /\ seek_target_pending \in BOOLEAN /\ double_speed \in BOOLEAN

TimeOK == since \in Nat /\ due \in Int /\ gdue \in Int

LoopOK ==
  /\ pc \in {"cpu", "step", "async", "read", "handler"}
  /\ caller \in {"cpu", "host"}
  /\ remaining \in Nat /\ elapsed \in Nat
  /\ pc \in {"async", "read"} => elapsed <= remaining
  /\ panic \in {None, "assertion", "unhandled"}

\* The type invariant: the state the code's types and FIFO sizes allow, and
\* no iteration of the loop of CdRom::sync consumes more than what is left.
TypeOK == HostOK /\ SubOK /\ DriveOK /\ TimeOK /\ LoopOK

Init ==
  /\ command = None /\ host_params = 0 /\ irq_flags = {}
  /\ host_response = [old |-> 0, new |-> 0]
  /\ sequence = "Idle" /\ timer = 0 /\ params = 0 /\ response = 0
  /\ irq_code = "Ok" /\ async_response = NoAsync
  /\ read_state = NotReading /\ read_pending = FALSE
  /\ seek_target = "pregap" /\ seek_target_pending = FALSE
  /\ position = "pregap" /\ double_speed = FALSE
  /\ since = 0 /\ due = 0 /\ gdue = 0
  /\ pc = "cpu" /\ caller = "cpu" /\ remaining = 0 /\ elapsed = 0
  /\ panic = None

Panic(reason) ==
  /\ panic' = reason
  /\ UNCHANGED <<host, sub, drive, time, loop>>

----------------------------------------------------------------------------
\* The TimeKeeper's side of the controller.

\* Mutant: the steps of the sequence are not scheduled
NextDeltaAsyncOnly(seq, tmr, flags, async) ==
  IF flags = {} /\ async.kind # None THEN async.delay ELSE Never

\* predict_next_sync: the delta given to set_next_sync_delta, if any, ...
NextDelta(seq, tmr, flags, async) ==
  IF seq # "Idle" THEN tmr
  ELSE IF flags = {} /\ async.kind # None THEN async.delay
  ELSE Never

\* ... and the sheet's date once maybe_set_next_sync_delta has lowered it.
SheetDate(delta, reading) ==
  IF reading # NotReading THEN Earliest(delta, reading) ELSE delta

\* set_next_sync_delta lowers the TimeKeeper's own date as well as the sheet,
\* maybe_set_next_sync_delta only the sheet.
PredictNextSync(seq, tmr, flags, async, reading) ==
  LET delta == NextDelta(seq, tmr, flags, async) IN
  /\ due' = SheetDate(delta, reading)
  /\ gdue' = Earliest(gdue, delta)

CyclesPerSector == IF double_speed THEN SectorCycles \div 2 ELSE SectorCycles

----------------------------------------------------------------------------
\* Events that wait for the sub-CPU and for the interrupts to be acknowledged.

\* Mutant: the parameters of the previous command are kept
StartCommandKeepsParams ==
  /\ sequence' = "CommandPending" /\ timer' = StepDelay["COMMAND_PENDING"]
  /\ response' = 0 /\ irq_code' = "Ok"
  /\ UNCHANGED <<params, async_response>>

\* SubCpu::start_command, with the pseudo-random pending delay
StartCommand ==
  /\ sequence' = "CommandPending"
  /\ \E extra \in {0, 1} : timer' = StepDelay["COMMAND_PENDING"] + extra
  /\ params' = 0 /\ response' = 0 /\ irq_code' = "Ok"
  /\ UNCHANGED async_response

AsyncLen(kind) == IF kind = "get_id" THEN 8 ELSE 1

\* The successful branch of maybe_process_async_response, with the effects of
\* the async_* callback it runs
ProcessAsync ==
  LET kind == async_response.kind IN
  /\ async_response' = NoAsync
  /\ response' = AsyncLen(kind)
  /\ irq_code' = "AsyncOk"
  /\ sequence' = "AsyncRxPush" /\ timer' = AsyncRxDelay[kind]
  /\ host_response' = Aged(host_response)
  /\ IF kind = "init"
       THEN /\ position' = "pregap" /\ seek_target' = "pregap"
            /\ read_state' = NotReading /\ double_speed' = FALSE
       ELSE UNCHANGED <<position, seek_target, read_state, double_speed>>
  /\ UNCHANGED <<params, read_pending, seek_target_pending>>

\* The successful branch of maybe_notify_read
NotifyRead ==
  /\ response' = 1 /\ irq_code' = "SectorReady"
  /\ sequence' = "AsyncRxPush" /\ timer' = StepDelay["READ_RX_PUSH"]
  /\ host_response' = Aged(host_response)
  /\ read_pending' = FALSE
  /\ UNCHANGED <<params, async_response>>

----------------------------------------------------------------------------
\* execute_command and the cmd_* handlers.

NParams(c) == CASE c = "SetLoc" -> 3
                [] c = "SetFilter" -> 2
                [] c \in {"SetMode", "Test"} -> 1
                [] OTHER -> 0

RespLen(c) == CASE c = "GetParam" -> 5
                [] c = "GetLocP" -> 8
                [] c = "Test" -> 4
                [] c = "GetId" /\ ~HasDisc -> 2
                [] OTHER -> 1

AsyncOf(c) == CASE c = "Pause" -> "pause"
                [] c = "Init" -> "init"
                [] c = "SeekL" -> "seek_l"
                [] c = "ReadToc" -> "read_toc"
                [] c = "GetId" /\ HasDisc -> "get_id"
                [] OTHER -> None

Seeks(c) == c = "SeekL" \/ (c = "Read" /\ seek_target_pending)

\* The unwrap() and the assert! that a command can meet ...
ExecuteAsserts(c) ==
  \/ c = None
  \/ AsyncOf(c) # None /\ async_response.kind # None

\* ... and the requests the handlers refuse with a panic!
ExecuteRefuses(c) ==
  \/ params # NParams(c)
  \/ Seeks(c) /\ seek_target = "pregap"
  \/ c = "GetLocP" /\ position = "pregap"

ReadStateAfter(c) == CASE c = "Read" -> CyclesPerSector
                       [] c \in {"Pause", "Init"} -> NotReading
                       [] OTHER -> read_state

\* cmd_pause chooses its delay after it has stopped the reads
DelayOf(c) == IF c = "Pause" /\ ReadStateAfter(c) # NotReading
                THEN AsyncDelay["pause_reading"]
                ELSE AsyncDelay[AsyncOf(c)]

ExecuteCommand(c) ==
  /\ response' = RespLen(c)
  /\ irq_code' = IF c = "GetId" /\ ~HasDisc THEN "Error" ELSE irq_code
  /\ read_state' = ReadStateAfter(c)
  /\ async_response' = IF AsyncOf(c) # None
                         THEN [kind |-> AsyncOf(c), delay |-> DelayOf(c)]
                         ELSE async_response
  /\ read_pending' = (read_pending /\ c # "Init")
  /\ IF c = "SetLoc"
       THEN \E t \in {"data"} \cup (IF Polite THEN {} ELSE {"pregap"}) :
              seek_target' = t
       ELSE UNCHANGED seek_target
  /\ seek_target_pending' = IF Seeks(c) THEN FALSE
                            ELSE seek_target_pending \/ c = "SetLoc"
  /\ position' = IF Seeks(c) THEN seek_target ELSE position
  /\ IF c = "SetMode" THEN double_speed' \in BOOLEAN ELSE UNCHANGED double_speed

----------------------------------------------------------------------------
\* next_sub_cpu_step, one action for each step of the sequence.

\* The head of the loop of CdRom::sync when the timer of the sequence expires
TimerExpires(seqs) ==
  /\ panic = None /\ pc = "step" /\ remaining > 0
  /\ sequence \in seqs /\ timer <= remaining

GoTo(seq, delay) ==
  /\ sequence' = seq /\ timer' = StepDelay[delay]
  /\ elapsed' = timer /\ pc' = "async"
  /\ UNCHANGED <<time, caller, remaining, panic>>

StepParam ==
  /\ TimerExpires({"CommandPending", "ParamPush"}) /\ host_params # 0
  /\ host_params' = Pop(host_params) /\ params' = Push(params)
  /\ GoTo("ParamPush", "PARAM_PUSH")
  /\ UNCHANGED <<command, host_response, irq_flags, response, irq_code,
                 async_response, drive>>

StepExecute ==
  /\ TimerExpires({"CommandPending", "ParamPush"}) /\ host_params = 0
  /\ IF ExecuteAsserts(command) THEN Panic("assertion")
     ELSE IF ExecuteRefuses(command) THEN Panic("unhandled")
     ELSE /\ ExecuteCommand(command)
          /\ GoTo("Execution", "EXECUTION")
          /\ UNCHANGED <<host, params>>

\* Mutant: the response FIFO is not cleared
StepFlushKeepsResponse ==
  /\ TimerExpires({"Execution"})
  /\ GoTo("RxFlush", "RX_FLUSH")
  /\ UNCHANGED <<host, params, response, irq_code, async_response, drive>>

StepFlush ==
  /\ TimerExpires({"Execution"})
  /\ host_response' = [old |-> 0, new |-> 0]
  /\ GoTo("RxFlush", "RX_FLUSH")
  /\ UNCHANGED <<command, host_params, irq_flags, params, response, irq_code,
                 async_response, drive>>

\* Transfer a response byte; the last one ends the transfer
PushByte(last, lastDelay, more) ==
  /\ host_response' = PushResponse(host_response)
  /\ response' = Pop(response)
  /\ IF response' = 0 THEN GoTo(last, lastDelay) ELSE GoTo(more, "RX_PUSH")
  /\ UNCHANGED <<command, host_params, irq_flags, params, irq_code,
                 async_response, drive>>

StepRx ==
  /\ TimerExpires({"RxFlush", "RxPush"})
  /\ PushByte("BusyDelay", "BUSY_DELAY", "RxPush")

StepAsyncRx ==
  /\ TimerExpires({"AsyncRxPush"})
  /\ PushByte("IrqDelay", "IRQ_DELAY", "AsyncRxPush")

StepBusy ==
  /\ TimerExpires({"BusyDelay"})
  /\ GoTo("IrqDelay", "IRQ_DELAY")
  /\ UNCHANGED <<host, params, response, irq_code, async_response, drive>>

\* The end of the sequence: trigger_irq asserts that no interrupt is pending
StepIrq ==
  /\ TimerExpires({"IrqDelay"})
  /\ IF irq_flags # {} THEN Panic("assertion")
     ELSE /\ command' = None
          /\ irq_flags' = IrqBits(irq_code)
          /\ sequence' = "Idle"
          /\ elapsed' = timer /\ pc' = "async"
          /\ UNCHANGED <<host_params, host_response, timer, params, response,
                         irq_code, async_response, drive, time, caller,
                         remaining, panic>>

----------------------------------------------------------------------------
\* The rest of the loop of CdRom::sync.

\* No step of the sequence ends in this iteration
StepNothing ==
  /\ panic = None /\ pc = "step" /\ remaining > 0
  /\ InCommand => timer > remaining
  /\ timer' = IF InCommand THEN timer - remaining ELSE timer
  /\ elapsed' = remaining /\ pc' = "async"
  /\ UNCHANGED <<host, sequence, params, response, irq_code, async_response,
                 drive, time, caller, remaining, panic>>

\* Mutant: a sequence starts over an interrupt that is not acknowledged
SubCpuFreeDespiteIrq == ~InCommand

\* maybe_start_command, maybe_process_async_response and maybe_notify_read all
\* wait for the interrupts to be acknowledged and for the sub-CPU
SubCpuFree == irq_flags = {} /\ ~InCommand

SyncAsync ==
  /\ panic = None /\ pc = "async" /\ pc' = "read"
  /\ IF async_response.kind = None
       THEN UNCHANGED <<host, sub, drive, gdue>>
     ELSE IF async_response.delay > elapsed
       THEN /\ async_response' = [async_response EXCEPT !.delay = @ - elapsed]
            /\ UNCHANGED <<host, sequence, timer, params, response, irq_code,
                           drive, gdue>>
     ELSE IF SubCpuFree
       THEN /\ ProcessAsync
            /\ gdue' = Earliest(gdue, timer')
            /\ UNCHANGED <<command, host_params, irq_flags>>
     ELSE /\ async_response' = [async_response EXCEPT !.delay = 0]
          /\ UNCHANGED <<host, sequence, timer, params, response, irq_code,
                         drive, gdue>>
  /\ UNCHANGED <<since, due, caller, remaining, elapsed, panic>>

\* A sector has been read: schedule the next one and tell the program
SectorRead ==
  /\ read_state' = CyclesPerSector - (elapsed - read_state)
  /\ position' \in {position, "data"}
  /\ IF SubCpuFree
       THEN /\ NotifyRead
            /\ gdue' = Earliest(gdue, timer')
            /\ UNCHANGED <<command, host_params, irq_flags>>
       ELSE /\ read_pending' = TRUE
            /\ UNCHANGED <<host, sub, gdue>>
  /\ UNCHANGED <<seek_target, seek_target_pending, double_speed>>

\* read_sector panics when the last sector has not been notified yet or
\* there is no disc; a sync later than the next sector underflows
SectorFails == read_pending \/ ~HasDisc \/ elapsed - read_state > CyclesPerSector

\* Mutant: an iteration consumes nothing
CyclesNotConsumed == remaining

CyclesLeft == remaining - elapsed

SyncRead ==
  /\ panic = None /\ pc = "read"
  /\ IF read_state # NotReading /\ read_state <= elapsed /\ SectorFails
       THEN Panic("unhandled")
       ELSE /\ IF read_state = NotReading
                 THEN UNCHANGED <<host, sub, drive, gdue>>
               ELSE IF read_state > elapsed
                 THEN /\ read_state' = read_state - elapsed
                      /\ UNCHANGED <<host, sub, read_pending, seek_target,
                                     seek_target_pending, position,
                                     double_speed, gdue>>
               ELSE SectorRead
            /\ pc' = "step" /\ remaining' = CyclesLeft
            /\ UNCHANGED <<since, due, caller, elapsed, panic>>

\* The end of CdRom::sync for a register access, which goes on after it
SyncEndAccess ==
  /\ panic = None /\ pc = "step" /\ remaining = 0 /\ caller = "host"
  /\ PredictNextSync(sequence, timer, irq_flags, async_response, read_state)
  /\ pc' = "handler"
  /\ UNCHANGED <<host, sub, drive, since, caller, remaining, elapsed, panic>>

\* The end of Interconnect::sync: update_sync_pending takes the earliest date
\* of all the sheets, those of the other peripherals included
SyncEndCpu ==
  /\ panic = None /\ pc = "step" /\ remaining = 0 /\ caller = "cpu"
  /\ due' = SheetDate(NextDelta(sequence, timer, irq_flags, async_response),
                      read_state)
  /\ \E other \in Others : gdue' = Earliest(due', other)
  /\ pc' = "cpu"
  /\ UNCHANGED <<host, sub, drive, since, caller, remaining, elapsed, panic>>

----------------------------------------------------------------------------
\* The CPU: run_next_instruction and the register accesses.

StartSync(who, cycles) ==
  /\ pc' = "step" /\ caller' = who
  /\ remaining' = cycles /\ since' = 0

\* sync_pending: the peripherals whose date has come are synchronised
CpuSync ==
  /\ panic = None /\ pc = "cpu" /\ gdue <= 0
  /\ IF due <= 0
       THEN /\ StartSync("cpu", since)
            /\ UNCHANGED <<due, gdue>>
       ELSE /\ \E other \in Others : gdue' = Earliest(due, other)
            /\ UNCHANGED <<pc, caller, remaining, since, due>>
  /\ UNCHANGED <<host, sub, drive, elapsed, panic>>

Later(date, n) == IF date = Never THEN Never ELSE date - n

\* An instruction that does not access the controller
Instruction ==
  /\ panic = None /\ pc = "cpu" /\ gdue > 0
  /\ \E n \in Ticks : /\ since' = Earliest(since + n, MaxSince)
                      /\ due' = Later(due, n) /\ gdue' = Later(gdue, n)
  /\ UNCHANGED <<host, sub, drive, loop, panic>>

\* A load or store of a register of the controller: it synchronises first
Access ==
  /\ panic = None /\ pc = "cpu" /\ gdue > 0
  /\ \E n \in Ticks : /\ StartSync("host", since + n)
                      /\ due' = Later(due, n) /\ gdue' = Later(gdue, n)
  /\ UNCHANGED <<host, sub, drive, elapsed, panic>>

Handler == panic = None /\ pc = "handler"
Return == pc' = "cpu" /\ UNCHANGED <<caller, remaining, elapsed, panic>>

\* A register whose access changes nothing modelled here
Poll ==
  /\ Handler /\ Return
  /\ UNCHANGED <<host, sub, drive, time>>

ReadResponse ==
  /\ Handler /\ (Polite => HostLen(host_response) > 0)
  /\ IF HostLen(host_response) = 0 THEN Panic("unhandled")
     ELSE /\ host_response' = PopResponse(host_response)
          /\ Return
          /\ UNCHANGED <<command, host_params, irq_flags, sub, drive, time>>

SetParameter ==
  /\ Handler /\ host_params < MaxParams
  /\ Polite => command = None
  /\ IF command # None \/ host_params = Fifo THEN Panic("unhandled")
     ELSE /\ host_params' = Push(host_params)
          /\ Return
          /\ UNCHANGED <<command, host_response, irq_flags, sub, drive, time>>

\* A polite program sends a command with its parameters, after the previous
\* command's responses, asynchronous one included, have arrived.
MaySend(c) ==
  Polite => /\ command = None /\ async_response.kind = None
            /\ ~(InCommand /\ irq_code = "AsyncOk")
            /\ host_params = NParams(c)
            /\ c = "SeekL" => seek_target = "data"
            /\ c = "GetLocP" => position = "data"

SetCommand(c) ==
  /\ Handler /\ MaySend(c)
  /\ IF command # None \/ (SubCpuFree /\ async_response.kind # None)
       THEN Panic("unhandled")
       ELSE /\ command' = c
            /\ IF SubCpuFree
                 THEN /\ StartCommand
                      /\ PredictNextSync(sequence', timer', irq_flags,
                                         async_response, read_state)
                 ELSE UNCHANGED <<sub, due, gdue>>
            /\ Return
            /\ UNCHANGED <<host_params, host_response, irq_flags, drive, since>>

\* Mutant: the acknowledgement only wakes a waiting command
StartWaitingCommandOnly(flags) ==
  \/ /\ flags = {} /\ ~InCommand /\ command # None
     /\ StartCommand
     /\ UNCHANGED <<host_response, drive>>
  \/ /\ ~(flags = {} /\ ~InCommand /\ command # None)
     /\ UNCHANGED <<sub, drive, host_response>>

\* maybe_start_command, maybe_process_async_response and maybe_notify_read, in
\* this order: the first that can start makes the others wait
StartWaiting(flags) ==
  LET free  == flags = {} /\ ~InCommand
      ready == async_response.kind # None /\ async_response.delay = 0
  IN
  \/ /\ free /\ command # None
     /\ StartCommand
     /\ UNCHANGED <<host_response, drive>>
  \/ /\ free /\ command = None /\ ready
     /\ ProcessAsync
  \/ /\ free /\ command = None /\ ~ready /\ read_pending
     /\ NotifyRead
     /\ UNCHANGED <<read_state, seek_target, seek_target_pending,
                    position, double_speed>>
  \/ /\ ~(free /\ (command # None \/ ready \/ read_pending))
     /\ UNCHANGED <<sub, drive, host_response>>

\* A write of the interrupt flag register: irq_ack, then the parameter FIFO is
\* cleared if asked.  What waited for the interrupt starts: the command first,
\* then the asynchronous response, then the sector.
IrqAck(v, clear) ==
  LET flags == irq_flags \ v IN
  /\ Handler /\ (Polite => ~clear)
  /\ IF /\ flags = {} /\ ~InCommand
        /\ command # None /\ async_response.kind # None
     THEN Panic("unhandled")
     ELSE /\ irq_flags' = flags
          /\ host_params' = IF clear THEN 0 ELSE host_params
          /\ StartWaiting(flags)
          /\ IF sequence' # sequence
               THEN PredictNextSync(sequence', timer', flags, async_response',
                                    read_state')
               ELSE UNCHANGED <<due, gdue>>
          /\ Return
          /\ UNCHANGED <<command, since>>

----------------------------------------------------------------------------
SubCpuStep == \/ StepParam \/ StepExecute \/ StepFlush \/ StepRx \/ StepAsyncRx
              \/ StepBusy \/ StepIrq \/ StepNothing

Sync == SubCpuStep \/ SyncAsync \/ SyncRead \/ SyncEndAccess \/ SyncEndCpu

Program == \/ Instruction \/ Access \/ Poll \/ ReadResponse \/ SetParameter
           \/ \E c \in Commands : SetCommand(c)
           \/ \E v \in SUBSET {0, 1, 2}, clear \in BOOLEAN : IrqAck(v, clear)

Next == Sync \/ CpuSync \/ Program

Spec == Init /\ [][Next]_vars

\* The emulator's main loop never stops running instructions.
FairSpec == Spec /\ WF_vars(Next)
----------------------------------------------------------------------------
(***************************************************************************)
(* The sequence and the interrupt flags exclude each other: a sequence     *)
(* only starts once every interrupt is acknowledged and raises one only    *)
(* when it ends, so the response of a sequence cannot be announced over    *)
(* an interrupt the program has not seen.                                  *)
(***************************************************************************)
InCommandNoIrq == InCommand => irq_flags = {}

(***************************************************************************)
(* The assert!s and unwrap()s of the controller hold whatever the program  *)
(* does: trigger_irq never overwrites an interrupt, there is a command to  *)
(* execute, no asynchronous response is scheduled over another one.        *)
(***************************************************************************)
AssertionsHold == panic # "assertion"

(***************************************************************************)
(* A program that follows the protocol (parameters first, one command at a *)
(* time, the next one after the asynchronous response of the last) and     *)
(* does not read sectors never makes the emulator panic.                   *)
(***************************************************************************)
ProtocolNeverPanics == Polite => panic = None

(***************************************************************************)
(* No lost wakeup: while the CPU runs, a command, a due asynchronous       *)
(* response or a sector only ever waits for a running sequence or for an   *)
(* interrupt to be acknowledged, the two things that will start it; and    *)
(* the date at which the CPU will synchronise the controller is no later   *)
(* than the next step of that sequence and the next sector, although       *)
(* maybe_set_next_sync_delta does not lower the TimeKeeper's own date.     *)
(***************************************************************************)
NoLostWakeup ==
  pc = "cpu" =>
    /\ SubCpuFree => /\ command = None /\ ~read_pending
                     /\ async_response.kind # None => async_response.delay > 0
    /\ gdue <= due
    /\ InCommand => due <= timer - since
    /\ read_state # NotReading => due <= read_state - since

(***************************************************************************)
(* When the interrupt of a command's first response is pending, the        *)
(* response FIFO holds no byte of an earlier response: the flush of the    *)
(* sequence comes before its bytes and nothing is pushed in between.       *)
(***************************************************************************)
ResponseIsFresh ==
  irq_flags # {} /\ irq_code \in {"Ok", "Error"} => host_response.old = 0

(***************************************************************************)
(* A sequence that started ends with its interrupt, even if the program    *)
(* never accesses the controller again.                                    *)
(***************************************************************************)
SequenceCompletes == InCommand ~> irq_flags # {}

(***************************************************************************)
(* The loop of CdRom::sync terminates: every iteration consumes cycles.    *)
(***************************************************************************)
SyncTerminates == pc # "cpu" ~> pc = "cpu"
----------------------------------------------------------------------------
(***************************************************************************)
(* irq_ack and maybe_start_command: a command written while the sub-CPU is *)
(* not ready waits for it.  A command is thus only taken from the host     *)
(* register by the sequence that ran it, which ends with Ok or Error; but  *)
(* the end of a sector notification drops a waiting command as well.       *)
(***************************************************************************)
CommandRetiredByItsIrq ==
  [][command # None /\ command' = None => irq_code \in {"Ok", "Error"}]_vars
=============================================================================

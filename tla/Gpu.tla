-------------------------------- MODULE Gpu ---------------------------------
(***************************************************************************)
(* The GPU of src/gpu/mod.rs: the video timings (GpuTiming) and the        *)
(* command port (Gp0), which meet in the stores to the two ports: every    *)
(* one of them brings the beam to the present first, and a soft reset      *)
(* restarts the beam and empties the port.                                 *)
(*                                                                         *)
(* What the port does depends on no date and what the beam does on no      *)
(* command, so a behaviour is about one of them, chosen once and for all   *)
(* by `side': either time passes and the video mode changes, or words are  *)
(* sent to the port; both sides do the stores and the resets as a whole.   *)
(***************************************************************************)
EXTENDS GpuTiming, FillRect

CONSTANTS Words, VramSize, MaxVertices

VARIABLES handler, cmd, len, remaining, image, prev, panic,
          sending, owed, pos, gen, side

Port == INSTANCE Gp0

ASSUME GpuAssumption ==
  /\ VramSize \in Nat \ {0} /\ VramSize % 2 = 0 /\ MaxVertices \in Nat
  /\ Words \subseteq [op : Port!Opcodes, marker : BOOLEAN, w : Nat, h : Nat]

port == <<handler, cmd, len, remaining, image, prev, panic,
          sending, owed, pos, gen>>
gpuVars == <<vars, port, side>>

GpuInit ==
  /\ Init /\ Port!Init
  /\ side \in {"beam", "port"}
  /\ side = "port" => <<gpu.start, gpu.end>> = ResetRange

----------------------------------------------------------------------------
\* Time passes, the program reads registers and acknowledges the interrupt
Beam == side = "beam" /\ Watch /\ UNCHANGED <<port, side>>

\* The main loop alone
Instruction == side = "beam" /\ Run /\ UNCHANGED <<port, side>>

\* GP1 stores that change the timings
ChangeRange(r) ==
  /\ side = "beam" /\ gp1_display_vertical_range(r)
  /\ UNCHANGED <<port, side>>
ChangeMode(m, i) ==
  /\ side = "beam" /\ gp1_display_mode(m, i)
  /\ UNCHANGED <<port, side>>

FirstSync == side = "port" /\ ForcedSync /\ UNCHANGED <<port, side>>

\* A store to GP0, by a program that has reset the GPU, and the reset of the
\* command buffer
StoreGp0(word) ==
  /\ side = "port" /\ ~panic /\ gpu.interlaced
  /\ Access /\ Port!gp0(word)
  /\ UNCHANGED side
ResetCommandBuffer ==
  /\ side = "port" /\ ~panic /\ gpu.interlaced
  /\ Access /\ Port!gp1_reset_command_buffer
  /\ UNCHANGED side

\* GP1(0x00)
SoftReset ==
  /\ ~panic
  /\ gp1_reset /\ Port!gp1_reset_command_buffer
  /\ UNCHANGED side

GpuNext ==
  \/ Beam \/ FirstSync \/ ResetCommandBuffer \/ SoftReset
  \/ \E r \in Ranges : ChangeRange(r)
  \/ \E m \in DOMAIN Timings, i \in BOOLEAN : ChangeMode(m, i)
  \/ \E word \in Words : StoreGp0(word)

GpuSpec == GpuInit /\ [][GpuNext]_gpuVars

\* The frontend keeps calling run_next_instruction
FairSpec == GpuSpec /\ WF_gpuVars(Instruction)

----------------------------------------------------------------------------
(* In an interlaced mode that the program leaves alone the fields of
   consecutive frames alternate: the lazily computed frame count (267-277)
   toggles the field exactly once between two ends of the blanking. *)
FieldsAlternate ==
  [][gpu'.frame # gpu.frame /\ shown # "none" /\ shown' # "none"
       => (shown' # shown) = gpu.interlaced]_gpuVars

(* What run_until_next_frame (cpu/mod.rs:104-115) waits for: the frame counter
   keeps changing as long as instructions run, once the program leaves the
   video mode and the range alone. *)
NextFrameComes ==
  side = "beam" /\ <>[][Beam]_gpuVars =>
    []<>(gpu.frame = 0) /\ []<>(gpu.frame = 1)

(* The GPU looks for a command exactly when the program sends one, and an
   image that is complete has all its pixels (Gp0). *)
CommandsInStep == Port!CommandsInStep

(* A segment of a polyline starts where the one before it ended, whatever
   command or reset came before (Gp0). *)
PolylineConnected == Port!PolylineConnected

(* No command, image or reset makes the port panic, and a savestate can be
   taken between any two words (Gp0). *)
NoPanic == Port!NoPanic

(* Whatever position and size the last words of a fill command carry, once it
   is in the command buffer the callback asks the renderer for an aligned
   rectangle inside of the VRAM (gp0_fill_rect, 703-741). *)
FillInsideVram == Port!CallbackOf(cmd) = "fill_rect" /\ len > 0 => FillsInside

----------------------------------------------------------------------------
\* The HSync signal as the timers take it, in 1/Frac CPU cycles

hsync_period(g) == (Ticks(g) * Frac * Frac) \div Ratio
hsync_phase(g) == ((g.tick * Frac + g.phase) * Ratio) \div Frac

(* The phase is what timers.rs:155 stores it as, the "current position within
   a period of a counter tick", and so within the period: predict_next_sync
   (timers.rs:323) takes it off the time to the next interrupt. *)
PhaseWithinPeriod == hsync_phase(gpu) < hsync_period(gpu)
=============================================================================

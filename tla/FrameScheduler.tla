--------------------------- MODULE FrameScheduler ---------------------------
(***************************************************************************)
(* Core::run_one_frame (core_impl.rs): one call emulates one frame, line   *)
(* by line, and on each line lets the CPU run until its clock passes the   *)
(* end of the line.  The CPU stops only between instructions and a DMA     *)
(* burst is part of one, so its clock may be ahead of the line by anything *)
(* up to several lines.  The timer interrupt, the vblank NMI, the joypad   *)
(* latch and the APU (bus.rs) are driven partly by the line and partly by  *)
(* that clock: this module is about what holds when the two disagree.      *)
(*                                                                         *)
(* The ROM is any program that touches the registers in Registers; an      *)
(* instruction is a fetch followed by at most one access with an effect.   *)
(***************************************************************************)
EXTENDS Joypad, Integers, FiniteSets

CONSTANTS
  Lines, LineClocks,          (* LINES_PER_FRAME, MCLK_PER_LINE.            *)
  VBlankLine, OverscanLine,   (* First vblank line, normal and overscan.    *)
  CropTop,                    (* Overscan lines cropped above the picture.  *)
  BusyLines,                  (* Lines an automatic joypad read takes.      *)
  Dots, DotClocks,            (* In-range HTIME values; clocks of a dot.    *)
  HDelay, VDelay,             (* Offsets of the H and of the V position.    *)
  FetchClocks,                (* What a fetch may cost: a set.              *)
  RegClocks, IdleClocks, EntryClocks, ResetClocks, DmaSetup, SlotClocks,
  Bursts,                     (* DMA lengths, in slots (channels + bytes).  *)
  Htimes, Vtimes,             (* Values the program gives the timer.        *)
  PowerOnTime,                (* What HTIME and VTIME hold before that.     *)
  Nmitimens,                  (* Values the program writes to NMITIMEN.     *)
  PadWords,                   (* Pad words the caller passes.               *)
  Registers,                  (* What the program uses (see Execute).       *)
  MaxFrames                   (* Frames the caller runs. Bounds the model.  *)

None == -1
FrameClocks == Lines * LineClocks

ASSUME FrameAssumption ==
  /\ Lines \in Nat /\ LineClocks \in Nat \ {0} /\ MaxFrames \in Nat
  /\ VBlankLine \in Nat \ {0} /\ OverscanLine \in Nat /\ CropTop \in Nat /\ BusyLines \in Nat \ {0}
  /\ VBlankLine + CropTop <= OverscanLine /\ OverscanLine + BusyLines < Lines
  /\ Dots \in Nat /\ DotClocks \in Nat /\ HDelay \in Nat /\ VDelay \in Nat
  /\ FetchClocks \subseteq Nat \ {0} /\ IdleClocks \in Nat \ {0} /\ EntryClocks \in Nat \ {0}
  /\ RegClocks \in Nat /\ ResetClocks \in Nat /\ ResetClocks < FrameClocks
  /\ DmaSetup \in Nat /\ SlotClocks \in Nat \ {0}
  /\ Bursts \subseteq Nat \ {0} /\ Htimes \subseteq Nat /\ Vtimes \subseteq Nat
  /\ PowerOnTime \in Nat /\ PowerOnTime >= Dots /\ PowerOnTime >= Lines
  /\ Nmitimens \subseteq [nmi : BOOLEAN, h : BOOLEAN, v : BOOLEAN, auto : BOOLEAN]

\* Only a burst takes long: an instruction without one is shorter than a frame.
ASSUME InstructionAssumption ==
  \A k \in FetchClocks : EntryClocks + k + IdleClocks <= FrameClocks

VARIABLES
  stage,   (* between calls, about to start a line, or running the CPU.     *)
  line,    (* The current scanline.                                         *)
  clock,   (* mclk_frame, mclk_total, irq_target_mclk, irq_flag.            *)
  apu,     (* apu_mclk_base: how far the APU has been advanced.             *)
  timer,   (* NMITIMEN bits 4 and 5, HTIME, VTIME.                          *)
  nmi,     (* NMITIMEN bit 7, nmi_flag, nmi_pending.                        *)
  auto,    (* NMITIMEN bit 0, auto_joy_busy, joy_prev.                      *)
  joypad,  (* The controller port.                                          *)
  cpu,     (* run, wait (WAI) or stopped (STP), and the I flag.             *)
  instr,   (* At an instruction boundary, inside one, or in its DMA burst.  *)
  burst,   (* DMA slots left.                                               *)
  screen,  (* SETINI overscan, its frame latch, the back and front buffers. *)
  frame,   (* Completed frames.                                             *)
  fault,   (* The first fault recorded, or "none".                          *)
  hist     (* History for the properties; no action reads it.               *)

vars == <<stage, line, clock, apu, timer, nmi, auto, joypad, cpu, instr, burst, screen,
          frame, fault, hist>>
devices == <<timer, nmi, auto, joypad, screen>>

-----------------------------------------------------------------------------
(* The clock and the H/V timer (add_mclk, recompute_irq_target).           *)

HOffset(t) == t.htime * DotClocks + HDelay
HOnly(t) == t.h /\ ~t.v
InRange(t) == (t.h => t.htime < Dots) /\ (t.v => t.vtime < Lines)

\* The position of a V or H+V interrupt in the frame.
VPosition(t) == t.vtime * LineClocks + (IF t.h THEN HOffset(t) ELSE VDelay)

NextHTarget(t, l) ==
  IF t.htime < Dots /\ l + 1 < Lines THEN (l + 1) * LineClocks + HOffset(t) ELSE None

\* Only a position strictly ahead of the clock is armed.
Recompute(c, t, l) ==
  [c EXCEPT !.target =
     IF ~(t.h \/ t.v) \/ ~InRange(t) THEN None
     ELSE IF t.v THEN (IF VPosition(t) > c.mclk THEN VPosition(t) ELSE None)
     ELSE IF l * LineClocks + HOffset(t) > c.mclk THEN l * LineClocks + HOffset(t)
     ELSE NextHTarget(t, l)]

CrossesLate(c, n) == c.mclk < c.target /\ c.target < c.mclk + n   \* Mutant: off by one.
Crosses(c, n) == c.mclk < c.target /\ c.target <= c.mclk + n

Tick(c, n) ==
  [mclk   |-> c.mclk + n,
   total  |-> c.total + n,
   irq    |-> c.irq \/ Crosses(c, n),
   target |-> IF ~Crosses(c, n) THEN c.target
              ELSE IF HOnly(timer) THEN NextHTarget(timer, line) ELSE None]

Advance(n) ==
  /\ clock' = Tick(clock, n)
  /\ hist' = [hist EXCEPT !.irqs = @ + (IF Crosses(clock, n) THEN 1 ELSE 0)]

-----------------------------------------------------------------------------
(* The frame (run_one_frame, start_line).                                  *)

VBlankStart == IF screen.overscan THEN OverscanLine ELSE VBlankLine
LineEnd == (line + 1) * LineClocks
Visible(l) == l >= 1 /\ l < VBlankStart

Rows == 1..(VBlankLine - 1)
SourceLineLive(row) == IF screen.setini THEN row + CropTop ELSE row   \* Mutant.
SourceLine(row) == IF screen.overscan THEN row + CropTop ELSE row

\* What DMA and HDMA may do to the screen registers on the B bus.
BBusWrites ==
  screen' \in {screen} \union
    {[screen EXCEPT !.setini = o] : o \in IF "setini" \in Registers THEN BOOLEAN ELSE {}}

StartFrameUnbalanced(p) ==   \* Mutant: the overrun is dropped.
  /\ stage = "between" /\ fault = "none" /\ frame < MaxFrames
  /\ joypad' = [joypad EXCEPT !.pad = p \cap PadBits]
  /\ screen' = [screen EXCEPT !.overscan = screen.setini]
  /\ line' = 0
  /\ clock' = Recompute([clock EXCEPT !.mclk = 0], timer, 0)
  /\ nmi' = [nmi EXCEPT !.flag = FALSE]
  /\ hist' = [hist EXCEPT !.entry = clock'.mclk, !.irqs = 0, !.touched = FALSE,
                          !.vblanks = 0, !.auto = FALSE]
  /\ stage' = "cpu"
  /\ UNCHANGED <<apu, timer, auto, cpu, instr, burst, frame, fault>>

\* The pad is latched for the whole frame, one frame is taken off the clock, line 0
\* starts: the overscan latch, the timer target, the end of vblank.
StartFrame(p) ==
  /\ stage = "between" /\ fault = "none" /\ frame < MaxFrames
  /\ joypad' = [joypad EXCEPT !.pad = p \cap PadBits]
  /\ screen' = [screen EXCEPT !.overscan = screen.setini]
  /\ line' = 0
  /\ LET m == IF clock.mclk >= FrameClocks THEN clock.mclk - FrameClocks ELSE clock.mclk
     IN  /\ clock' = Recompute([clock EXCEPT !.mclk = m], timer, 0)
         /\ hist' = [hist EXCEPT !.entry = m, !.irqs = 0, !.touched = FALSE,
                                 !.vblanks = 0, !.auto = FALSE]
  /\ nmi' = [nmi EXCEPT !.flag = FALSE]
  /\ stage' = "cpu"
  /\ UNCHANGED <<apu, timer, auto, cpu, instr, burst, frame, fault>>

\* start_line for the lines after line 0, then the HDMA of a visible line, which may
\* write anywhere on the B bus and so may fault and end the call.
StartLine ==
  /\ stage = "line"
  /\ line' = line + 1
  /\ \/ /\ line' = VBlankStart
        /\ nmi' = [nmi EXCEPT !.flag = TRUE, !.pending = @ \/ nmi.enabled]
        /\ IF auto.enabled
           THEN /\ auto' = [auto EXCEPT !.busy = TRUE, !.prev = joypad.joy1]
                /\ joypad' = AutoRead(joypad)
           ELSE UNCHANGED <<auto, joypad>>
        /\ hist' = [hist EXCEPT !.vblanks = @ + 1,
                                !.auto = auto.enabled,
                                !.serial = IF auto.enabled THEN <<>> ELSE @,
                                !.latched = IF auto.enabled THEN joypad.pad ELSE @]
     \/ /\ line' = VBlankStart + BusyLines
        /\ auto' = [auto EXCEPT !.busy = FALSE]
        /\ UNCHANGED <<nmi, joypad, hist>>
     \/ /\ line' \notin {VBlankStart, VBlankStart + BusyLines}
        /\ UNCHANGED <<nmi, auto, joypad, hist>>
  /\ IF Visible(line') THEN BBusWrites ELSE UNCHANGED screen
  /\ \/ stage' = "cpu" /\ UNCHANGED fault
     \/ Visible(line') /\ "fault" \in Registers /\ stage' = "between" /\ fault' = "Hdma"
  /\ UNCHANGED <<clock, apu, timer, cpu, instr, burst, frame>>

LastLine == line + 1 = Lines

\* The CPU has passed the end of the line: the APU catches up, and may halt; the line
\* is drawn; the last one completes the frame, which alone reaches the front buffer.
EndLine ==
  /\ stage = "cpu" /\ instr = "boundary" /\ fault = "none" /\ clock.mclk >= LineEnd
  /\ apu' = clock.total
  /\ \/ /\ "fault" \in Registers
        /\ fault' = "Apu" /\ stage' = "between"
        /\ UNCHANGED <<screen, frame>>
     \/ LET drawn == [r \in Rows |-> IF SourceLine(r) = line THEN frame + 1
                                     ELSE screen.back[r]]
        IN  /\ IF LastLine
               THEN /\ screen' = [screen EXCEPT !.back = drawn, !.front = drawn]
                    /\ stage' = "between"
                    /\ frame' = frame + 1
               ELSE /\ screen' = [screen EXCEPT !.back = drawn]
                    /\ stage' = "line"
                    /\ UNCHANGED frame
            /\ UNCHANGED fault
  /\ UNCHANGED <<line, clock, timer, nmi, auto, joypad, cpu, instr, burst, hist>>

\* A fault of the CPU's ends the call at the next instruction boundary.
Abort ==
  /\ stage = "cpu" /\ instr = "boundary" /\ fault # "none"
  /\ stage' = "between"
  /\ UNCHANGED <<line, clock, apu, devices, cpu, instr, burst, frame, fault, hist>>

-----------------------------------------------------------------------------
(* The CPU at an instruction boundary (run_cpu_until, Cpu::step).          *)

AtBoundaryThroughFaults ==   \* Mutant: the fault is only looked at when the line ends.
  stage = "cpu" /\ instr = "boundary" /\ clock.mclk < LineEnd

AtBoundary ==
  stage = "cpu" /\ instr = "boundary" /\ fault = "none" /\ clock.mclk < LineEnd

StopFaults ==
  /\ AtBoundary /\ cpu.mode = "stopped"
  /\ fault' = "CpuStopped"
  /\ UNCHANGED <<stage, line, clock, apu, devices, cpu, instr, burst, frame, hist>>

TakeNmi ==
  /\ AtBoundary /\ cpu.mode # "stopped" /\ nmi.pending
  /\ nmi' = [nmi EXCEPT !.pending = FALSE]
  /\ cpu' = [mode |-> "run", masked |-> TRUE]
  /\ Advance(EntryClocks)
  /\ UNCHANGED <<stage, line, apu, timer, auto, joypad, instr, burst, screen, frame, fault>>

TakeIrq ==
  /\ AtBoundary /\ cpu = [mode |-> "run", masked |-> FALSE] /\ ~nmi.pending /\ clock.irq
  /\ cpu' = [cpu EXCEPT !.masked = TRUE]
  /\ Advance(EntryClocks)
  /\ UNCHANGED <<stage, line, apu, devices, instr, burst, frame, fault>>

WaitIdle ==
  /\ AtBoundary /\ cpu.mode = "wait" /\ ~nmi.pending /\ ~clock.irq
  /\ Advance(IdleClocks)
  /\ UNCHANGED <<stage, line, apu, devices, cpu, instr, burst, frame, fault>>

\* The IRQ line ends a WAI even when IRQs are masked; either way the same step goes on
\* to the next instruction, past the end of the line or not.
WakeByIrq(k) ==
  /\ AtBoundary /\ cpu.mode = "wait" /\ ~nmi.pending /\ clock.irq
  /\ cpu' = [mode |-> "run", masked |-> TRUE]
  /\ instr' = "inside"
  /\ Advance(IF cpu.masked THEN k ELSE EntryClocks + k)
  /\ UNCHANGED <<stage, line, apu, devices, burst, frame, fault>>

Fetch(k) ==
  /\ AtBoundary /\ cpu.mode = "run" /\ ~nmi.pending /\ ~(clock.irq /\ ~cpu.masked)
  /\ instr' = "inside"
  /\ Advance(k)
  /\ UNCHANGED <<stage, line, apu, devices, cpu, burst, frame, fault>>

-----------------------------------------------------------------------------
(* What an instruction does after its fetch.                               *)

Inside == stage = "cpu" /\ instr = "inside"
Retire == instr' = "boundary" /\ UNCHANGED <<stage, line, burst, frame>>

Plain ==
  /\ Inside /\ Retire
  /\ UNCHANGED <<clock, apu, devices, cpu, fault, hist>>

\* SEI, CLI, PLP or RTI.
SetMask(m) ==
  /\ Inside /\ "mask" \in Registers /\ Retire
  /\ cpu' = [cpu EXCEPT !.masked = m]
  /\ UNCHANGED <<clock, apu, devices, fault, hist>>

\* WAI or STP.
Halt(mode) ==
  /\ Inside /\ mode \in Registers /\ Retire
  /\ cpu' = [cpu EXCEPT !.mode = mode]
  /\ clock' = Tick(clock, IdleClocks)
  /\ hist' = [hist EXCEPT !.irqs = @ + (IF Crosses(clock, IdleClocks) THEN 1 ELSE 0),
                          !.stop = frame]
  /\ UNCHANGED <<apu, devices, fault>>

\* A write that reprograms the timer: the access takes time, then the target is
\* computed afresh.
Reprogram(t) ==
  /\ timer' = t
  /\ clock' = Recompute(Tick(clock, RegClocks), t, line)
  /\ hist' = [hist EXCEPT !.touched = TRUE,
                          !.irqs = @ + (IF Crosses(clock, RegClocks) THEN 1 ELSE 0)]

\* $4200: enabling NMI while the vblank flag is up is an edge.
WriteNmitimen(w) ==
  /\ Inside /\ Retire
  /\ nmi' = [nmi EXCEPT !.enabled = w.nmi,
                        !.pending = @ \/ (w.nmi /\ ~nmi.enabled /\ nmi.flag)]
  /\ auto' = [auto EXCEPT !.enabled = w.auto]
  /\ Reprogram([timer EXCEPT !.h = w.h, !.v = w.v])
  /\ UNCHANGED <<apu, joypad, cpu, screen, fault>>

WriteHtime(x) ==
  /\ Inside /\ Retire
  /\ Reprogram([timer EXCEPT !.htime = x])
  /\ UNCHANGED <<apu, nmi, auto, joypad, cpu, screen, fault>>

WriteVtime(x) ==
  /\ Inside /\ Retire
  /\ Reprogram([timer EXCEPT !.vtime = x])
  /\ UNCHANGED <<apu, nmi, auto, joypad, cpu, screen, fault>>

\* $4210 and $4211 clear the flag they read, and not what is pending from it.
ReadRdnmi ==
  /\ Inside /\ "rdnmi" \in Registers /\ Retire
  /\ nmi' = [nmi EXCEPT !.flag = FALSE]
  /\ Advance(RegClocks)
  /\ UNCHANGED <<apu, timer, auto, joypad, cpu, screen, fault>>

ReadTimeup ==
  /\ Inside /\ "timeup" \in Registers /\ Retire
  /\ clock' = [Tick(clock, RegClocks) EXCEPT !.irq = FALSE]
  /\ hist' = [hist EXCEPT !.irqs = @ + (IF Crosses(clock, RegClocks) THEN 1 ELSE 0)]
  /\ UNCHANGED <<apu, devices, cpu, fault>>

WriteSetini(o) ==
  /\ Inside /\ "setini" \in Registers /\ Retire
  /\ screen' = [screen EXCEPT !.setini = o]
  /\ Advance(RegClocks)
  /\ UNCHANGED <<apu, timer, nmi, auto, joypad, cpu, fault>>

WriteJoyStrobe(high) ==
  /\ Inside /\ "strobe" \in Registers /\ Retire
  /\ joypad' = WriteStrobe(joypad, high)
  /\ clock' = Tick(clock, RegClocks)
  /\ LET edge == joypad.strobe /\ ~high
     IN  hist' = [hist EXCEPT !.irqs = @ + (IF Crosses(clock, RegClocks) THEN 1 ELSE 0),
                              !.serial = IF edge THEN <<>> ELSE @,
                              !.latched = IF edge THEN joypad.pad ELSE @]
  /\ UNCHANGED <<apu, timer, nmi, auto, cpu, screen, fault>>

ReadJoySerial ==
  /\ Inside /\ "serial" \in Registers /\ Retire
  /\ joypad' = ReadSerial(joypad)
  /\ clock' = Tick(clock, RegClocks)
  /\ hist' = [hist EXCEPT !.irqs = @ + (IF Crosses(clock, RegClocks) THEN 1 ELSE 0),
                          !.serial = IF joypad.strobe \/ Len(@) > WordBits THEN @
                                     ELSE Append(@, SerialBit(joypad))]
  /\ UNCHANGED <<apu, timer, nmi, auto, cpu, screen, fault>>

\* $2140-$2143: the APU catches up with the access, and may halt.
AccessApu ==
  /\ Inside /\ "apu" \in Registers /\ Retire
  /\ Advance(RegClocks)
  /\ apu' = clock'.total
  /\ fault' \in IF "fault" \in Registers THEN {fault, "Apu"} ELSE {fault}
  /\ UNCHANGED <<devices, cpu>>

\* A write nothing is mapped to, or a DMA kick of a channel that runs HDMA.
FaultingWrite ==
  /\ Inside /\ "fault" \in Registers /\ Retire
  /\ fault' \in {"UnmappedWrite", "HdmaDmaConflict"}
  /\ Advance(RegClocks)
  /\ UNCHANGED <<apu, devices, cpu>>

\* $420B: the whole burst happens inside the write.
KickDma(n) ==
  /\ Inside
  /\ instr' = "dma" /\ burst' = n
  /\ Advance(RegClocks + DmaSetup)
  /\ UNCHANGED <<stage, line, apu, devices, cpu, frame, fault>>

DmaSlot ==
  /\ stage = "cpu" /\ instr = "dma"
  /\ burst' = burst - 1
  /\ instr' = IF burst = 1 THEN "boundary" ELSE "dma"
  /\ Advance(SlotClocks)
  /\ IF fault = "none" THEN BBusWrites ELSE UNCHANGED screen
  /\ UNCHANGED <<stage, line, apu, timer, nmi, auto, joypad, cpu, frame, fault>>

\* A faulting byte ends its channel before its clocks; of the at most seven channels
\* after it each still takes its slot, and transfers nothing.
DmaFaults ==
  /\ stage = "cpu" /\ instr = "dma" /\ fault = "none" /\ "fault" \in Registers
  /\ fault' = "UnmappedWrite"
  /\ burst' \in {k \in 0..7 : k < burst}
  /\ instr' = IF burst' = 0 THEN "boundary" ELSE "dma"
  /\ UNCHANGED <<stage, line, clock, apu, devices, cpu, frame, hist>>

-----------------------------------------------------------------------------
Init ==
  /\ stage = "between" /\ line = 0 /\ frame = 0 /\ fault = "none"
  /\ clock = [mclk |-> ResetClocks, total |-> ResetClocks, target |-> None, irq |-> FALSE]
  /\ apu = 0
  /\ timer = [h |-> FALSE, v |-> FALSE, htime |-> PowerOnTime, vtime |-> PowerOnTime]
  /\ nmi = [enabled |-> FALSE, flag |-> FALSE, pending |-> FALSE]
  /\ auto = [enabled |-> FALSE, busy |-> FALSE, prev |-> {}]
  /\ joypad = NewJoypad
  /\ cpu = [mode |-> "run", masked |-> TRUE]
  /\ instr = "boundary" /\ burst = 0
  /\ screen = [setini |-> FALSE, overscan |-> FALSE,
               back |-> [r \in Rows |-> 0], front |-> [r \in Rows |-> 0]]
  /\ hist = [entry |-> 0, irqs |-> 0, touched |-> FALSE, vblanks |-> 0, auto |-> FALSE,
             serial |-> <<>>, latched |-> {}, stop |-> 0]

Boundary ==
  \/ StopFaults \/ TakeNmi \/ TakeIrq \/ WaitIdle
  \/ \E k \in FetchClocks : WakeByIrq(k) \/ Fetch(k)

Execute ==
  \/ Plain \/ (\E m \in BOOLEAN : SetMask(m)) \/ (\E mode \in {"wait", "stopped"} : Halt(mode))
  \/ \E w \in Nmitimens : WriteNmitimen(w)
  \/ \E x \in Htimes : WriteHtime(x)
  \/ \E x \in Vtimes : WriteVtime(x)
  \/ ReadRdnmi \/ ReadTimeup
  \/ \E o \in BOOLEAN : WriteSetini(o) \/ WriteJoyStrobe(o)
  \/ ReadJoySerial \/ AccessApu \/ FaultingWrite
  \/ (\E n \in Bursts : KickDma(n)) \/ DmaSlot \/ DmaFaults

Call == StartLine \/ EndLine \/ Abort \/ Boundary \/ Execute

Next == Call \/ \E p \in PadWords : StartFrame(p)

Spec == Init /\ [][Next]_vars

-----------------------------------------------------------------------------
(* Properties.                                                             *)

Clocks == [mclk : Nat, total : Nat, target : Nat \union {None}, irq : BOOLEAN]
Timers == [h : BOOLEAN, v : BOOLEAN, htime : Nat, vtime : Nat]
Faults == {"none", "Hdma", "Apu", "CpuStopped", "UnmappedWrite", "HdmaDmaConflict"}
Frames == [Rows -> Nat]

\* The shape of every variable.
TypeOK ==
  /\ stage \in {"between", "line", "cpu"}
  /\ line \in 0..(Lines - 1)
  /\ clock \in Clocks
  /\ apu \in Nat
  /\ timer \in Timers
  /\ nmi \in [enabled : BOOLEAN, flag : BOOLEAN, pending : BOOLEAN]
  /\ auto \in [enabled : BOOLEAN, busy : BOOLEAN, prev : Words]
  /\ joypad \in Joypads
  /\ cpu \in [mode : {"run", "wait", "stopped"}, masked : BOOLEAN]
  /\ instr \in {"boundary", "inside", "dma"}
  /\ burst \in Nat
  /\ screen \in [setini : BOOLEAN, overscan : BOOLEAN, back : Frames, front : Frames]
  /\ frame \in Nat
  /\ fault \in Faults

FrameDone == stage = "between" /\ fault = "none" /\ frame > 0

\* Time is conserved across frames: however far a burst ran past the end of a frame,
\* frame number k starts at exactly k frames of master clocks, so an overrun comes out
\* of the CPU's share of the following frames (run_one_frame's "single subtraction").
TimeConserved ==
  clock.total - clock.mclk = FrameClocks * (IF FrameDone THEN frame - 1 ELSE frame)

Armed(c, t) ==
  t.v => c.target = IF InRange(t) /\ VPosition(t) > c.mclk THEN VPosition(t) ELSE None

\* A V or H+V interrupt is armed exactly as long as its position in the current frame
\* is ahead of the clock, whatever the program rewrote in between: it is neither lost
\* once armed nor armed behind the clock (recompute_irq_target, add_mclk).
VArmed == Armed(clock, timer)

\* Left alone for a frame, it raises the flag once if the frame's clock passed its
\* position and not at all otherwise, also when a burst passed it on an earlier line.
VFiresOnce ==
  FrameDone /\ timer.v /\ InRange(timer) /\ ~hist.touched =>
    hist.irqs = IF hist.entry < VPosition(timer) /\ VPosition(timer) <= clock.mclk
                THEN 1 ELSE 0

\* Every completed frame has one vblank, and RDNMI shows the flag only in it, though
\* the program may rewrite the overscan bit at any time: the boundary is latched.
VBlankOncePerFrame ==
  /\ hist.vblanks <= 1
  /\ FrameDone => hist.vblanks = 1
  /\ nmi.flag => line >= VBlankStart

\* The front buffer is one whole frame, the last completed one, in every row, through
\* switches of the overscan projection ("the host never sees a torn frame").
FrontIsWholeFrame == \A r \in Rows : screen.front[r] = frame

\* STP does not go unnoticed: the frame it happens in may still complete, no other.
StopIsLoud == cpu.mode = "stopped" => frame <= hist.stop + 1

\* What a frame guarantees whatever the program does in it: its timer is armed while its
\* position is ahead and fires once, there is one vblank, and the CPU was not already
\* stopped when it began.
FrameContract == VArmed /\ VFiresOnce /\ VBlankOncePerFrame /\ StopIsLoud

\* What $4218/$4219 return.
JoyRegister == IF auto.busy THEN auto.prev ELSE joypad.joy1

\* Once the automatic read of a frame is over, the registers hold that frame's pad for
\* the rest of the frame, whatever the program does to the serial port.
PadVisibleAfterAutoRead ==
  hist.auto /\ ~auto.busy => JoyRegister = NativeWord(joypad.pad)

\* The bits a program has read from $4016 since the port was last latched, by the
\* strobe or by an automatic read in between, spell the pad of that latch, though
\* frames and pads may have gone by.
SerialSpellsLatchedPad ==
  \A n \in DOMAIN hist.serial : hist.serial[n] = ExpectedBit(hist.latched, n)

\* Both ways of reading a pad show the pad that was latched.
PadAsLatched == PadVisibleAfterAutoRead /\ SerialSpellsLatchedPad

\* A step of a call goes on to the next line, or within its line takes time, leaves the
\* fetch of an instruction behind or raises the one fault.
MovesOn ==
  \/ stage' = "between"
  \/ stage = "line" /\ line' = line + 1
  \/ /\ stage = "cpu" /\ line' = line
     /\ \/ stage' = "line"
        \/ fault = "none" /\ fault' # "none"
        \/ clock.total' > clock.total
        \/ instr = "inside" /\ instr' # "inside"

\* The CPU may not start another instruction on this line.
LineIsOver == stage = "cpu" /\ instr = "boundary" /\ (clock.mclk >= LineEnd \/ fault # "none")

\* Every call of run_one_frame returns, whatever the program does, also one that waits for
\* an interrupt that never comes or is stopped: no step of a call leaves it where it was,
\* and a line whose clocks are used up, or a fault, ends at the next instruction boundary.
FrameReturns ==
  [][stage # "between" => MovesOn /\ (LineIsOver => stage' # "cpu")]_vars

-----------------------------------------------------------------------------
(* What a comment in the code says, which the code does not do.            *)

\* "H-only: fires at htime dots on the current (and every subsequent) line": a program
\* that leaves the timer alone for a frame gets one interrupt for every H position that
\* the clock passed.
HIrqOnEveryLine ==
  FrameDone /\ HOnly(timer) /\ InRange(timer) /\ ~hist.touched =>
    hist.irqs = Cardinality({l \in 0..(Lines - 1) :
                               /\ hist.entry < l * LineClocks + HOffset(timer)
                               /\ l * LineClocks + HOffset(timer) <= clock.mclk})

=============================================================================

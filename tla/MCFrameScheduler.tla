-------------------------- MODULE MCFrameScheduler --------------------------
(***************************************************************************)
(* Small instances of FrameScheduler for TLC: a frame of 6 lines of 8      *)
(* clocks, laid out like the real one: the last in-range HTIME lies past   *)
(* the end of its line, a burst is longer than a line, and the two vblank  *)
(* lines differ by what the overscan projection crops.                     *)
(*                                                                         *)
(* A program is one of four kinds: each takes some of the steps any        *)
(* program may take, and the four together all of them.                    *)
(***************************************************************************)
EXTENDS FrameScheduler

Word(n, h, v, a) == [nmi |-> n, h |-> h, v |-> v, auto |-> a]
VModes == {Word(FALSE, FALSE, TRUE, FALSE), Word(FALSE, TRUE, TRUE, FALSE)}
NmiModes == {Word(TRUE, FALSE, FALSE, FALSE), Word(FALSE, FALSE, FALSE, FALSE)}
NmiAndHModes == {Word(TRUE, TRUE, FALSE, FALSE)}
AutoModes == {Word(FALSE, FALSE, FALSE, TRUE)}
\* B and A together, and Select: each appears at a different end of the word.
MCPads == {{0, 1}, {11}}

VARIABLE program

\* What happens whatever the program is, given how fast it runs.
Machine(speeds) ==
  \/ StartLine \/ EndLine \/ Abort \/ TakeNmi \/ TakeIrq \/ Plain \/ DmaSlot
  \/ \E k \in speeds : Fetch(k)

NoFault == fault' = fault
NoSetini == screen'.setini = screen.setini

\* It reprograms the V or H+V timer at any time, and bursts run over lines and frames.
TimerProgram ==
  /\ \/ Machine({1, 3}) \/ ReadTimeup
     \/ \E w \in VModes : WriteNmitimen(w)
     \/ WriteHtime(3)
     \/ \E x \in Vtimes : WriteVtime(x)
     \/ \E n \in Bursts : KickDma(n)
  /\ NoFault /\ NoSetini

\* It switches overscan at any time, by the CPU, DMA or HDMA, and may fault anywhere.
ScreenProgram ==
  \/ Machine({3}) \/ ReadRdnmi \/ AccessApu \/ FaultingWrite \/ DmaFaults
  \/ \E w \in NmiModes : WriteNmitimen(w)
  \/ \E o \in BOOLEAN : WriteSetini(o)
  \/ \E n \in Bursts : KickDma(n)

\* It reads changing pads by the automatic read, by strobe and serially, in any order.
JoypadProgram ==
  /\ \/ Machine({2}) \/ ReadJoySerial
     \/ \E w \in AutoModes : WriteNmitimen(w)
     \/ \E o \in BOOLEAN : WriteSetini(o) \/ WriteJoyStrobe(o)
  /\ NoFault

\* It waits for interrupts that may be masked, stops, kicks bursts and faults.
HaltingProgram ==
  /\ \/ Machine({3}) \/ StopFaults \/ WaitIdle \/ WakeByIrq(3)
     \/ (\E m \in BOOLEAN : SetMask(m)) \/ (\E mode \in {"wait", "stopped"} : Halt(mode))
     \/ \E w \in NmiAndHModes : WriteNmitimen(w)
     \/ WriteHtime(0)
     \/ FaultingWrite \/ (\E n \in Bursts : KickDma(n)) \/ DmaFaults
  /\ NoSetini

\* A step of the call under way.
Running ==
  /\ UNCHANGED program
  /\ \/ program = "timer" /\ TimerProgram
     \/ program = "screen" /\ ScreenProgram
     \/ program = "joypad" /\ JoypadProgram
     \/ program = "halting" /\ HaltingProgram

\* The host's next call; only the pads of the joypad program matter.
NextFrame ==
  /\ UNCHANGED program
  /\ \/ program = "joypad" /\ \E p \in MCPads : StartFrame(p) /\ NoFault
     \/ program # "joypad" /\ StartFrame({}) /\ (program = "timer" => NoFault /\ NoSetini)
                            /\ (program = "halting" => NoSetini)

MCInit == Init /\ program \in {"timer", "screen", "joypad", "halting"}
MCSpec == MCInit /\ [][Running \/ NextFrame]_<<vars, program>>
=============================================================================

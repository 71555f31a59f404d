--------------------------------- MODULE Apu ---------------------------------
(***************************************************************************)
(* The audio unit around its processor, apu/mod.rs, apu/timers.rs and      *)
(* apu/aram.rs: its memory with the registers at $F0-$FF and the boot ROM, *)
(* the timers, and what one turn of the catch-up loop does.                *)
(*                                                                         *)
(* An instruction sees the registers as bytes of the memory: they are      *)
(* copied in before it and acted upon after it, by the marks rd and wr     *)
(* that its reads and writes of $F0-$FF leave (SyncIn, Settled).           *)
(* Module ApuPort models the boot protocol and the clock; here the program *)
(* has been uploaded and started.                                          *)
(***************************************************************************)
EXTENDS Dsp

CONSTANTS Programs,  \* What may have been uploaded: the bytes, and two bounds: how many
                     \* instructions are followed, and how often the CPU writes to the ports.
          Start,     \* Where the upload ended with a jump to.
          PortValues \* What the CPU may write.

VARIABLES s,     \* The processor: registers, memory, marks, halt latch.
          io,    \* Control register, DSP address, ports, timers.
          d,     \* The sound generator.
          clock, \* Cycles since its last sample (dsp_cycle_accum).
          left   \* Bound: the instructions and the CPU's writes that may still come.

vars == <<s, io, d, clock, left>>

IPL_ROM ==
  <<\HE8, \HAA, \HC4, \HF4, \HE8, \HBB, \HC4, \HF5, \HE4, \HF4, \H68, \HCC, \HD0, \HFA, \HE4,
    \HF6, \HC4, \H02, \HC4, \H04, \HE4, \HF7, \HC4, \H03, \HC4, \H05, \HE8, \HCC, \HC4, \HF4,
    \HC4, \H00, \HE4, \HF4, \H64, \H00, \HF0, \HFA, \HC4, \H00, \HCD, \H00, \H3E, \H00, \HF0,
    \H0C, \HE4, \HF5, \HC7, \H02, \HAB, \H02, \HE4, \H00, \HC4, \HF4, \H2F, \HE6, \H1F, \H04,
    \H00, \H00, \HC0, \HFF>>
RomAt == \HFFC0

Timer0 == [accum |-> 0, target |-> 0, stage |-> 0, output |-> 0, enabled |-> FALSE]

\* The state the jump of the boot protocol leaves.
Init ==
  /\ \E program \in Programs :
       /\ s = [a |-> 0, x |-> 0, y |-> 0, sp |-> \HEF, psw |-> {"Z"}, pc |-> Start,
               mem |-> 0 :> Lo(Start) @@ 1 :> Hi(Start) @@ program.image
                       @@ [a \in RomAt..65535 |-> IPL_ROM[a - RomAt + 1]],
               rd |-> {}, wr |-> {}, halted |-> "no"]
       /\ left = [steps |-> program.steps, writes |-> program.writes]
  /\ io = [ctrl |-> \H80, dspAddr |-> 0,
           in |-> 0 :> 3 @@ 1 :> 0 @@ 2 :> Lo(Start) @@ 3 :> Hi(Start),
           out |-> 0 :> 3 @@ 1 :> \HBB @@ 2 :> 0 @@ 3 :> 0,
           timer |-> [i \in 0..2 |-> Timer0]]
  /\ d = WriteReg(PowerOn, FLG, \H20)
  /\ clock = 0

(***************************************************************************)
(* Timers.                                                                 *)
(***************************************************************************)
Divider(i) == IF i = 2 THEN 16 ELSE 128

AlwaysRestarts(t, on) ==   \* Mutant: no edge is needed.
  [t EXCEPT !.enabled = on, !.stage = 0, !.output = 0, !.accum = 0]
SetEnabled(t, on) ==
  IF on /\ ~t.enabled THEN [t EXCEPT !.enabled = TRUE, !.stage = 0, !.output = 0, !.accum = 0]
  ELSE [t EXCEPT !.enabled = on]

\* A target of 0 is reached when the 8-bit stage wraps.
StageUp(t) ==
  LET stage == W8(t.stage + 1)
      fired == IF t.target = 0 THEN stage = 0 ELSE stage >= t.target
  IN IF fired THEN [t EXCEPT !.stage = 0, !.output = (@ + 1) % 16]
     ELSE [t EXCEPT !.stage = stage]

Advance(t, i, ticks) ==
  LET total == t.accum + ticks
      after[n \in 0..3] == IF n = 0 THEN [t EXCEPT !.accum = total % Divider(i)]
                           ELSE StageUp(after[n - 1])
  IN IF t.enabled THEN after[total \div Divider(i)] ELSE t

(***************************************************************************)
(* The registers around an instruction.                                    *)
(***************************************************************************)
IoPage == \HF0..\HFF

\* The memory an instruction sees; fetching an opcode from a timer's output clears it.
SyncIn(pc) ==
  LET output(i) == IF pc = \HFD + i THEN 0 ELSE io.timer[i].output
  IN (\HF1 :> io.ctrl @@ \HF2 :> io.dspAddr @@ \HF3 :> ReadReg(d, io.dspAddr)
      @@ \HF4 :> io.in[0] @@ \HF5 :> io.in[1] @@ \HF6 :> io.in[2] @@ \HF7 :> io.in[3]
      @@ \HFD :> output(0) @@ \HFE :> output(1) @@ \HFF :> output(2)) @@ s.mem

MemRead(a) ==
  CASE a >= RomAt /\ Bit(io.ctrl, 7) -> IPL_ROM[a - RomAt + 1]
    [] a = \HF1 -> 0
    [] a \in IoPage \ {\HF1} -> Peek(SyncIn(-1), a)
    [] OTHER -> Peek(s.mem, a)

Opcode == MemRead(s.pc)
Runs(opcodes) == left.steps > 0 /\ s.halted = "no" /\ Opcode \in opcodes
Begin == [s EXCEPT !.pc = W16(@ + 1), !.mem = SyncIn(s.pc), !.wr = {},
                    !.rd = {s.pc} \cap (\HFD..\HFF)]

Written(n, a) == a \in n.wr
Value(n, a) == Peek(n.mem, a)

SettledTimer(n, i) ==
  LET enabled == IF Written(n, \HF1) THEN SetEnabled(io.timer[i], Bit(Value(n, \HF1), i))
                 ELSE io.timer[i]
      aimed == IF Written(n, \HFA + i) THEN [enabled EXCEPT !.target = Value(n, \HFA + i)]
               ELSE enabled
  IN IF \HFD + i \in n.rd THEN [aimed EXCEPT !.output = 0] ELSE aimed

Settled(n) ==
  LET Clears(i) == Written(n, \HF1) /\ Bit(Value(n, \HF1), 4 + (i \div 2))
  IN [ctrl |-> IF Written(n, \HF1) THEN Value(n, \HF1) ELSE io.ctrl,
      dspAddr |-> IF Written(n, \HF2) THEN Value(n, \HF2) ELSE io.dspAddr,
      in |-> [i \in 0..3 |-> IF Clears(i) THEN 0 ELSE io.in[i]],
      out |-> [i \in 0..3 |-> IF Written(n, \HF4 + i) THEN Value(n, \HF4 + i) ELSE io.out[i]],
      timer |-> [i \in 0..2 |-> SettledTimer(n, i)]]

SettledDsp(n) ==
  LET addr == Settled(n).dspAddr
  IN IF Written(n, \HF3) /\ addr < 128 THEN WriteReg(d, addr, Value(n, \HF3)) ELSE d

SettledHalt(n) ==
  IF n.halted = "no" /\ Written(n, \HF0) /\ Value(n, \HF0) # 0 THEN "TestTrigger" ELSE n.halted

\* The samples that fall due.
Samples(from, mem, count) ==
  LET after[k \in 0..count] ==
        IF k = 0 THEN [d |-> from, mem |-> mem]
        ELSE LET before == after[k - 1] IN StepSample(before.d, before.mem)
  IN after[count]

\* A turn of the loop: n is what the instruction has made of the processor.
Turn(n, cycles) ==
  \E settled \in {Settled(n)}, played \in {Samples(SettledDsp(n), n.mem, (clock + cycles) \div 32)} :
     /\ s' = [n EXCEPT !.mem = played.mem, !.halted = SettledHalt(n)]
     /\ io' = [settled EXCEPT !.timer = [i \in 0..2 |-> Advance(@[i], i, cycles)]]
     /\ d' = played.d
     /\ clock' = (clock + cycles) % 32
     /\ left' = [left EXCEPT !.steps = @ - 1]

\* The CPU writes one of the ports between two instructions.
CpuWritesPort(i, v) ==
  /\ left.writes > 0
  /\ io' = [io EXCEPT !.in[i] = v]
  /\ left' = [left EXCEPT !.writes = @ - 1]
  /\ UNCHANGED <<s, d, clock>>
=============================================================================

---------------------------- MODULE FrameProofs ----------------------------
(***************************************************************************)
(* Proofs about FrameScheduler, for every frame layout, every instruction  *)
(* timing and every program.                                               *)
(*                                                                         *)
(* Almost every action happens while the CPU runs and is "quiet": it       *)
(* leaves the place in the frame and the picture alone and at most adds    *)
(* clocks or reprograms the timer.  StepKinds says so once; the theorems   *)
(* then have four real cases each: a frame starts, a line starts, a line   *)
(* ends, a faulted call ends.                                              *)
(***************************************************************************)
EXTENDS FrameScheduler, SequenceTheorems, TLAPS

\* Clocks are added while the timer's programming stays.
Ticks ==
  /\ timer' = timer
  /\ \E n \in Nat : /\ clock'.mclk = Tick(clock, n).mclk
                    /\ clock'.total = Tick(clock, n).total
                    /\ clock'.target = Tick(clock, n).target

Reprograms ==
  /\ clock' = Recompute(Tick(clock, RegClocks), timer', line)

SamePicture ==
  /\ screen'.overscan = screen.overscan
  /\ screen'.back = screen.back
  /\ screen'.front = screen.front

Quiet ==
  /\ stage = "cpu"
  /\ UNCHANGED <<stage, line, frame>>
  /\ SamePicture
  /\ (UNCHANGED <<clock, timer>>) \/ Ticks \/ Reprograms

-----------------------------------------------------------------------------
(* Types.                                                                  *)

\* Positions are natural numbers.
LEMMA PositionType ==
  ASSUME NEW t \in Timers, NEW l \in Nat
  PROVE  /\ HOffset(t) \in Nat
         /\ VPosition(t) \in Nat
         /\ l * LineClocks \in Nat
         /\ NextHTarget(t, l) \in Nat \union {None}
<1>1. /\ t.htime \in Nat /\ t.vtime \in Nat /\ t.h \in BOOLEAN
  BY DEF Timers
<1>2. /\ DotClocks \in Nat /\ HDelay \in Nat /\ VDelay \in Nat /\ LineClocks \in Nat
      /\ Dots \in Nat /\ Lines \in Nat
  BY FrameAssumption
<1>3. HOffset(t) \in Nat
  BY <1>1, <1>2 DEF HOffset
<1>4. VPosition(t) \in Nat
  BY <1>1, <1>2, <1>3 DEF VPosition
<1>5. l * LineClocks \in Nat /\ (l + 1) * LineClocks \in Nat
  BY <1>2
<1>6. NextHTarget(t, l) \in Nat \union {None}
  BY <1>3, <1>5 DEF NextHTarget
<1> QED
  BY <1>3, <1>4, <1>5, <1>6

\* Adding clocks gives a clock.
LEMMA TickType ==
  ASSUME clock \in Clocks, timer \in Timers, line \in Nat, NEW n \in Nat
  PROVE  /\ Tick(clock, n) \in Clocks
         /\ Tick(clock, n).mclk = clock.mclk + n
         /\ Tick(clock, n).total = clock.total + n
<1>1. NextHTarget(timer, line) \in Nat \union {None}
  BY PositionType
<1>2. Crosses(clock, n) \in BOOLEAN
  BY DEF Crosses
<1> QED
  BY <1>1, <1>2 DEF Tick, Clocks

\* Computing the target changes nothing else.
LEMMA RecomputeType ==
  ASSUME NEW c \in Clocks, NEW t \in Timers, NEW l \in Nat
  PROVE  /\ Recompute(c, t, l) \in Clocks
         /\ Recompute(c, t, l).mclk = c.mclk
         /\ Recompute(c, t, l).total = c.total
<1>1. /\ NextHTarget(t, l) \in Nat \union {None}
      /\ VPosition(t) \in Nat
      /\ l * LineClocks + HOffset(t) \in Nat
  BY PositionType
<1> DEFINE T == IF ~(t.h \/ t.v) \/ ~InRange(t) THEN None
                ELSE IF t.v THEN (IF VPosition(t) > c.mclk THEN VPosition(t) ELSE None)
                ELSE IF l * LineClocks + HOffset(t) > c.mclk
                     THEN l * LineClocks + HOffset(t)
                ELSE NextHTarget(t, l)
<1>2. T \in Nat \union {None}
  BY <1>1
<1>3. Recompute(c, t, l) = [c EXCEPT !.target = T]
  BY DEF Recompute
<1> HIDE DEF T
<1> QED
  BY <1>2, <1>3 DEF Clocks

\* A record with two fields replaced, for any sets of fields.
LEMMA PutWord ==
  ASSUME NEW P, NEW W, NEW B, NEW S, NEW w \in W, NEW n \in S,
         NEW j \in [pad : P, joy1 : W, strobe : B, shift : S]
  PROVE  [j EXCEPT !.joy1 = w, !.shift = n] \in [pad : P, joy1 : W, strobe : B, shift : S]
  OBVIOUS

\* The port stays a port.
LEMMA JoypadType ==
  ASSUME NEW j \in Joypads, NEW high \in BOOLEAN
  PROVE  /\ AutoRead(j) \in Joypads
         /\ WriteStrobe(j, high) \in Joypads
         /\ ReadSerial(j) \in Joypads
         /\ NewJoypad \in Joypads
<1>1. \A b \in PadBits : NativeBit[b + 1] \in 0..15
  BY DEF PadBits, NativeBit
<1>2. NativeWord(j.pad) \in Words
  BY <1>1 DEF NativeWord, Words
<1>3. Latch(j) \in Joypads
  <2> DEFINE w == NativeWord(j.pad)
  <2>1. w \in Words /\ 0 \in 0..WordBits
    BY <1>2 DEF WordBits
  <2>2. Latch(j) = [j EXCEPT !.joy1 = w, !.shift = 0]
    BY DEF Latch
  <2> DEFINE P == SUBSET PadBits
             B == BOOLEAN
             S == 0..WordBits
  <2>3. j \in [pad : P, joy1 : Words, strobe : B, shift : S]
    BY DEF Joypads
  <2>4. w \in Words /\ 0 \in S
    BY <2>1
  <2> HIDE DEF w, P, B, S
  <2>5. [j EXCEPT !.joy1 = w, !.shift = 0] \in [pad : P, joy1 : Words, strobe : B, shift : S]
    BY <2>3, <2>4, PutWord
  <2> QED
    BY <2>2, <2>5 DEF Joypads, P, B, S
<1>4. WriteStrobe(j, high) \in Joypads
  BY <1>3 DEF WriteStrobe, Joypads
<1>7. AutoRead(j) \in Joypads
  BY <1>3 DEF AutoRead
<1>5. ReadSerial(j) \in Joypads
  BY DEF ReadSerial, Joypads, WordBits
<1>6. NewJoypad \in Joypads
  BY DEF NewJoypad, Joypads, WordBits, Words
<1> QED
  BY <1>4, <1>5, <1>6, <1>7

Nmis == [enabled : BOOLEAN, flag : BOOLEAN, pending : BOOLEAN]
Autos == [enabled : BOOLEAN, busy : BOOLEAN, prev : Words]
Cpus == [mode : {"run", "wait", "stopped"}, masked : BOOLEAN]
Screens == [setini : BOOLEAN, overscan : BOOLEAN, back : Frames, front : Frames]
Stages == {"between", "line", "cpu"}
Instrs == {"boundary", "inside", "dma"}

\* The parts of TypeOK, named.
LEMMA TypeParts ==
  TypeOK <=> /\ stage \in Stages /\ line \in 0..(Lines - 1) /\ clock \in Clocks
             /\ apu \in Nat /\ timer \in Timers /\ nmi \in Nmis /\ auto \in Autos
             /\ joypad \in Joypads /\ cpu \in Cpus /\ instr \in Instrs /\ burst \in Nat
             /\ screen \in Screens /\ frame \in Nat /\ fault \in Faults
  BY DEF TypeOK, Stages, Nmis, Autos, Cpus, Instrs, Screens

\* The same for the next state.
LEMMA TypePartsNext ==
  TypeOK' <=> /\ stage' \in Stages /\ line' \in 0..(Lines - 1) /\ clock' \in Clocks
              /\ apu' \in Nat /\ timer' \in Timers /\ nmi' \in Nmis /\ auto' \in Autos
              /\ joypad' \in Joypads /\ cpu' \in Cpus /\ instr' \in Instrs /\ burst' \in Nat
              /\ screen' \in Screens /\ frame' \in Nat /\ fault' \in Faults
  BY DEF TypeOK, Stages, Nmis, Autos, Cpus, Instrs, Screens

\* Costs and programmed values are natural numbers.
LEMMA CostTypes ==
  /\ FetchClocks \subseteq Nat /\ Bursts \subseteq Nat \ {0}
  /\ IdleClocks \in Nat /\ EntryClocks \in Nat /\ RegClocks \in Nat
  /\ DmaSetup \in Nat /\ SlotClocks \in Nat /\ ResetClocks \in Nat /\ PowerOnTime \in Nat
  /\ Htimes \subseteq Nat /\ Vtimes \subseteq Nat /\ Lines \in Nat /\ Lines > 0
  /\ LineClocks \in Nat /\ FrameClocks \in Nat
<1>1. Lines \in Nat /\ LineClocks \in Nat
  BY FrameAssumption
<1>2. FrameClocks \in Nat
  BY <1>1 DEF FrameClocks
<1> QED
  BY <1>1, <1>2, FrameAssumption

-----------------------------------------------------------------------------
(* Steps.                                                                  *)

\* Adding clocks, by what it leaves of the types.
LEMMA AdvanceType ==
  ASSUME TypeOK, NEW n \in Nat, Advance(n)
  PROVE  /\ clock' \in Clocks
         /\ clock' = Tick(clock, n)
  BY TypeParts, TickType DEF Advance

\* Reprogramming the timer, likewise.
LEMMA ReprogramType ==
  ASSUME TypeOK, NEW t \in Timers, Reprogram(t)
  PROVE  /\ clock' \in Clocks
         /\ timer' \in Timers
         /\ Reprograms
<1>1. line \in Nat
  BY TypeParts
<1>2. Tick(clock, RegClocks) \in Clocks
  BY <1>1, TypeParts, TickType, CostTypes
<1> QED
  BY <1>1, <1>2, RecomputeType DEF Reprogram, Reprograms

\* What the B bus can reach of the screen keeps the picture.
LEMMA BBusType ==
  ASSUME TypeOK, BBusWrites
  PROVE  screen' \in Screens /\ SamePicture
<1>1. screen \in Screens
  BY TypeParts
<1>2. CASE screen' = screen
  BY <1>1, <1>2 DEF SamePicture
<1>3. ASSUME NEW o \in BOOLEAN, screen' = [screen EXCEPT !.setini = o]
      PROVE  screen' \in Screens /\ SamePicture
  BY <1>1, <1>3 DEF Screens, SamePicture
<1> QED
  BY <1>2, <1>3 DEF BBusWrites

\* The boundary actions keep types and are quiet.
LEMMA BoundarySteps ==
  ASSUME TypeOK, Boundary
  PROVE  TypeOK' /\ Quiet
<1>1. CASE StopFaults
  BY <1>1, TypeParts, TypePartsNext DEF StopFaults, AtBoundary, Quiet, SamePicture, Faults, devices
<1>2. CASE TakeNmi
  <2>1. clock' \in Clocks /\ clock' = Tick(clock, EntryClocks)
    BY <1>2, CostTypes, AdvanceType DEF TakeNmi
  <2>2. nmi' \in Nmis
    BY <1>2, TypeParts DEF TakeNmi, Nmis
  <2>3. cpu' \in Cpus
    BY <1>2 DEF TakeNmi, Cpus
  <2>4. TypeOK'
    BY <1>2, <2>1, <2>2, <2>3, TypeParts, TypePartsNext DEF TakeNmi
  <2> QED
    BY <1>2, <2>1, <2>4, CostTypes DEF TakeNmi, AtBoundary, Quiet, SamePicture, Ticks
<1>3. CASE TakeIrq
  <2>1. clock' \in Clocks /\ clock' = Tick(clock, EntryClocks)
    BY <1>3, CostTypes, AdvanceType DEF TakeIrq
  <2>2. cpu' \in Cpus
    BY <1>3, TypeParts DEF TakeIrq, Cpus
  <2>3. TypeOK'
    BY <1>3, <2>1, <2>2, TypeParts, TypePartsNext DEF TakeIrq, devices
  <2> QED
    BY <1>3, <2>1, <2>3, CostTypes
    DEF TakeIrq, AtBoundary, Quiet, SamePicture, Ticks, devices
<1>4. CASE WaitIdle
  <2>1. clock' \in Clocks /\ clock' = Tick(clock, IdleClocks)
    BY <1>4, CostTypes, AdvanceType DEF WaitIdle
  <2>2. TypeOK'
    BY <1>4, <2>1, TypeParts, TypePartsNext DEF WaitIdle, devices
  <2> QED
    BY <1>4, <2>1, <2>2, CostTypes
    DEF WaitIdle, AtBoundary, Quiet, SamePicture, Ticks, devices
<1>5. ASSUME NEW k \in FetchClocks, WakeByIrq(k)
      PROVE  TypeOK' /\ Quiet
  <2> DEFINE n == IF cpu.masked THEN k ELSE EntryClocks + k
  <2>1. n \in Nat
    BY CostTypes
  <2>2. clock' \in Clocks /\ clock' = Tick(clock, n)
    BY <1>5, <2>1, AdvanceType DEF WakeByIrq
  <2> HIDE DEF n
  <2>3. TypeOK'
    BY <1>5, <2>2, TypeParts, TypePartsNext DEF WakeByIrq, devices, Cpus, Instrs
  <2> QED
    BY <1>5, <2>1, <2>2, <2>3
    DEF WakeByIrq, AtBoundary, Quiet, SamePicture, Ticks, devices
<1>6. ASSUME NEW k \in FetchClocks, Fetch(k)
      PROVE  TypeOK' /\ Quiet
  <2>1. clock' \in Clocks /\ clock' = Tick(clock, k)
    BY <1>6, CostTypes, AdvanceType DEF Fetch
  <2>2. TypeOK'
    BY <1>6, <2>1, TypeParts, TypePartsNext DEF Fetch, devices, Instrs
  <2> QED
    BY <1>6, <2>1, <2>2, CostTypes
    DEF Fetch, AtBoundary, Quiet, SamePicture, Ticks, devices
<1> QED
  BY <1>1, <1>2, <1>3, <1>4, <1>5, <1>6 DEF Boundary

\* An instruction's access that takes RegClocks and touches one device: its clock part.
LEMMA RegAccess ==
  ASSUME TypeOK, clock' = Tick(clock, RegClocks), timer' = timer
  PROVE  clock' \in Clocks /\ Ticks
<1>1. Tick(clock, RegClocks) \in Clocks
  BY TypeParts, TickType, CostTypes
<1> QED
  BY <1>1, CostTypes DEF Ticks

\* The accesses that reprogram the timer keep types and are quiet.
LEMMA ReprogramSteps ==
  ASSUME TypeOK,
         \/ \E w \in Nmitimens : WriteNmitimen(w)
         \/ \E x \in Htimes : WriteHtime(x)
         \/ \E x \in Vtimes : WriteVtime(x)
  PROVE  TypeOK' /\ Quiet
<1> USE DEF Inside, Retire
<1>1. ASSUME NEW w \in Nmitimens, WriteNmitimen(w)
      PROVE  TypeOK' /\ Quiet
  <2>1. w \in [nmi : BOOLEAN, h : BOOLEAN, v : BOOLEAN, auto : BOOLEAN]
    BY FrameAssumption
  <2>2. [timer EXCEPT !.h = w.h, !.v = w.v] \in Timers
    BY <2>1, TypeParts DEF Timers
  <2>3. clock' \in Clocks /\ timer' \in Timers /\ Reprograms
    BY <1>1, <2>2, ReprogramType DEF WriteNmitimen
  <2>4. nmi' \in Nmis
    BY <1>1, <2>1, TypeParts DEF WriteNmitimen, Nmis
  <2>5. auto' \in Autos
    BY <1>1, <2>1, TypeParts DEF WriteNmitimen, Autos
  <2>6. TypeOK'
    BY <1>1, <2>3, <2>4, <2>5, TypeParts, TypePartsNext DEF WriteNmitimen, Instrs
  <2> QED
    BY <1>1, <2>3, <2>6 DEF WriteNmitimen, Quiet, SamePicture
<1>2. ASSUME NEW x \in Htimes, WriteHtime(x)
      PROVE  TypeOK' /\ Quiet
  <2>1. [timer EXCEPT !.htime = x] \in Timers
    BY CostTypes, TypeParts DEF Timers
  <2>2. clock' \in Clocks /\ timer' \in Timers /\ Reprograms
    BY <1>2, <2>1, ReprogramType DEF WriteHtime
  <2>3. TypeOK'
    BY <1>2, <2>2, TypeParts, TypePartsNext DEF WriteHtime, Instrs
  <2> QED
    BY <1>2, <2>2, <2>3 DEF WriteHtime, Quiet, SamePicture
<1>3. ASSUME NEW x \in Vtimes, WriteVtime(x)
      PROVE  TypeOK' /\ Quiet
  <2>1. [timer EXCEPT !.vtime = x] \in Timers
    BY CostTypes, TypeParts DEF Timers
  <2>2. clock' \in Clocks /\ timer' \in Timers /\ Reprograms
    BY <1>3, <2>1, ReprogramType DEF WriteVtime
  <2>3. TypeOK'
    BY <1>3, <2>2, TypeParts, TypePartsNext DEF WriteVtime, Instrs
  <2> QED
    BY <1>3, <2>2, <2>3 DEF WriteVtime, Quiet, SamePicture
<1> QED
  BY <1>1, <1>2, <1>3

\* So do the instructions that change only the CPU.
LEMMA CpuSteps ==
  ASSUME TypeOK,
         Plain \/ (\E m \in BOOLEAN : SetMask(m)) \/ (\E h \in {"wait", "stopped"} : Halt(h))
  PROVE  TypeOK' /\ Quiet
<1> USE DEF Inside, Retire, devices, Instrs
<1>1. CASE Plain
  BY <1>1, TypeParts, TypePartsNext DEF Plain, Quiet, SamePicture
<1>2. ASSUME NEW m \in BOOLEAN, SetMask(m)
      PROVE  TypeOK' /\ Quiet
  <2>1. cpu' \in Cpus
    BY <1>2, TypeParts DEF SetMask, Cpus
  <2> QED
    BY <1>2, <2>1, TypeParts, TypePartsNext DEF SetMask, Quiet, SamePicture
<1>3. ASSUME NEW h \in {"wait", "stopped"}, Halt(h)
      PROVE  TypeOK' /\ Quiet
  <2>1. cpu' \in Cpus
    BY <1>3, TypeParts DEF Halt, Cpus
  <2>2. clock' \in Clocks /\ clock' = Tick(clock, IdleClocks)
    BY <1>3, TypeParts, TickType, CostTypes DEF Halt
  <2>3. TypeOK'
    BY <1>3, <2>1, <2>2, TypeParts, TypePartsNext DEF Halt
  <2> QED
    BY <1>3, <2>2, <2>3, CostTypes DEF Halt, Quiet, SamePicture, Ticks
<1> QED
  BY <1>1, <1>2, <1>3

\* So do the reads and writes of one device register.
LEMMA RegisterSteps ==
  ASSUME TypeOK, 
         \/ ReadRdnmi \/ ReadTimeup
         \/ \E o \in BOOLEAN : WriteSetini(o) \/ WriteJoyStrobe(o)
         \/ ReadJoySerial \/ AccessApu \/ FaultingWrite
  PROVE  TypeOK' /\ Quiet
<1> USE DEF Inside, Retire, Instrs
<1>1. CASE ReadRdnmi
  <2>1. clock' \in Clocks /\ Ticks
    BY <1>1, RegAccess DEF ReadRdnmi, Advance
  <2>2. nmi' \in Nmis
    BY <1>1, TypeParts DEF ReadRdnmi, Nmis
  <2>3. TypeOK'
    BY <1>1, <2>1, <2>2, TypeParts, TypePartsNext DEF ReadRdnmi
  <2> QED
    BY <1>1, <2>1, <2>3 DEF ReadRdnmi, Quiet, SamePicture
<1>2. CASE ReadTimeup
  <2>1. Tick(clock, RegClocks) \in Clocks
    BY TypeParts, TickType, CostTypes
  <2>2. /\ clock' \in Clocks
        /\ clock'.mclk = Tick(clock, RegClocks).mclk
        /\ clock'.total = Tick(clock, RegClocks).total
        /\ clock'.target = Tick(clock, RegClocks).target
    BY <1>2, <2>1 DEF ReadTimeup, Clocks
  <2>3. TypeOK'
    BY <1>2, <2>2, TypeParts, TypePartsNext DEF ReadTimeup, devices
  <2> QED
    BY <1>2, <2>2, <2>3, CostTypes DEF ReadTimeup, Quiet, SamePicture, Ticks, devices
<1>3. ASSUME NEW o \in BOOLEAN, WriteSetini(o)
      PROVE  TypeOK' /\ Quiet
  <2>1. clock' \in Clocks /\ Ticks
    BY <1>3, RegAccess DEF WriteSetini, Advance
  <2>2. screen' \in Screens /\ SamePicture
    BY <1>3, TypeParts DEF WriteSetini, Screens, SamePicture
  <2>3. TypeOK'
    BY <1>3, <2>1, <2>2, TypeParts, TypePartsNext DEF WriteSetini
  <2> QED
    BY <1>3, <2>1, <2>2, <2>3 DEF WriteSetini, Quiet
<1>4. ASSUME NEW o \in BOOLEAN, WriteJoyStrobe(o)
      PROVE  TypeOK' /\ Quiet
  <2>1. clock' \in Clocks /\ Ticks
    BY <1>4, RegAccess DEF WriteJoyStrobe
  <2>2. joypad' \in Joypads
    BY <1>4, JoypadType, TypeParts DEF WriteJoyStrobe
  <2>3. TypeOK'
    BY <1>4, <2>1, <2>2, TypeParts, TypePartsNext DEF WriteJoyStrobe
  <2> QED
    BY <1>4, <2>1, <2>3 DEF WriteJoyStrobe, Quiet, SamePicture
<1>5. CASE ReadJoySerial
  <2>1. clock' \in Clocks /\ Ticks
    BY <1>5, RegAccess DEF ReadJoySerial
  <2>2. joypad' \in Joypads
    BY <1>5, JoypadType, TypeParts DEF ReadJoySerial
  <2>3. TypeOK'
    BY <1>5, <2>1, <2>2, TypeParts, TypePartsNext DEF ReadJoySerial
  <2> QED
    BY <1>5, <2>1, <2>3 DEF ReadJoySerial, Quiet, SamePicture
<1>6. CASE AccessApu
  <2>1. clock' \in Clocks /\ Ticks
    BY <1>6, RegAccess DEF AccessApu, Advance, devices
  <2>2. apu' \in Nat /\ fault' \in Faults
    BY <1>6, <2>1, TypeParts DEF AccessApu, Clocks, Faults
  <2>3. TypeOK'
    BY <1>6, <2>1, <2>2, TypeParts, TypePartsNext DEF AccessApu, devices
  <2> QED
    BY <1>6, <2>1, <2>3 DEF AccessApu, Quiet, SamePicture, devices
<1>7. CASE FaultingWrite
  <2>1. clock' \in Clocks /\ Ticks
    BY <1>7, RegAccess DEF FaultingWrite, Advance, devices
  <2>2. TypeOK'
    BY <1>7, <2>1, TypeParts, TypePartsNext DEF FaultingWrite, devices, Faults
  <2> QED
    BY <1>7, <2>1, <2>2 DEF FaultingWrite, Quiet, SamePicture, devices
<1> QED
  BY <1>1, <1>2, <1>3, <1>4, <1>5, <1>6, <1>7

\* So does a DMA burst, slot by slot.
LEMMA DmaSteps ==
  ASSUME TypeOK, burst \in Nat \ {0} \/ instr # "dma",
         (\E n \in Bursts : KickDma(n)) \/ DmaSlot \/ DmaFaults
  PROVE  TypeOK' /\ Quiet
<1> USE DEF Inside, Instrs
<1>1. ASSUME NEW n \in Bursts, KickDma(n)
      PROVE  TypeOK' /\ Quiet
  <2>1. RegClocks + DmaSetup \in Nat /\ n \in Nat
    BY CostTypes
  <2>2. clock' \in Clocks /\ clock' = Tick(clock, RegClocks + DmaSetup)
    BY <1>1, <2>1, AdvanceType DEF KickDma
  <2>3. TypeOK'
    BY <1>1, <2>1, <2>2, TypeParts, TypePartsNext DEF KickDma, devices
  <2> QED
    BY <1>1, <2>1, <2>2, <2>3 DEF KickDma, Quiet, SamePicture, Ticks, devices
<1>2. CASE DmaSlot
  <2>1. clock' \in Clocks /\ clock' = Tick(clock, SlotClocks)
    BY <1>2, CostTypes, AdvanceType DEF DmaSlot
  <2>2. screen' \in Screens /\ SamePicture
    <3>1. CASE BBusWrites
      BY <1>2, <3>1, BBusType DEF DmaSlot
    <3>2. CASE UNCHANGED screen
      BY <1>2, <3>2, TypeParts DEF DmaSlot, SamePicture
    <3> QED
      BY <1>2, <3>1, <3>2 DEF DmaSlot
  <2>3. burst' \in Nat
    BY <1>2 DEF DmaSlot
  <2>4. TypeOK'
    BY <1>2, <2>1, <2>2, <2>3, TypeParts, TypePartsNext DEF DmaSlot
  <2> QED
    BY <1>2, <2>1, <2>2, <2>4, CostTypes DEF DmaSlot, Quiet, Ticks
<1>3. CASE DmaFaults
  <2>1. burst' \in Nat /\ fault' \in Faults /\ instr' \in Instrs
    BY <1>3 DEF DmaFaults, Faults
  <2>2. TypeOK'
    BY <1>3, <2>1, TypeParts, TypePartsNext DEF DmaFaults, devices
  <2> QED
    BY <1>3, <2>2 DEF DmaFaults, Quiet, SamePicture, devices
<1> QED
  BY <1>1, <1>2, <1>3

-----------------------------------------------------------------------------
(* The frame's own steps.                                                  *)

\* Inductive companion of TypeOK: a line is started only if there is one, and a burst
\* in progress has slots left.
PlaceOK ==
  /\ stage = "line" => line + 1 < Lines
  /\ instr = "dma" => burst # 0

\* Every step of a call that is not the frame's own is quiet.
LEMMA QuietSteps ==
  ASSUME TypeOK, PlaceOK, Boundary \/ Execute
  PROVE  TypeOK' /\ PlaceOK' /\ Quiet
<1>1. CASE Boundary
  <2>1. TypeOK' /\ Quiet
    BY <1>1, BoundarySteps
  <2>2. instr' = "dma" => instr = "dma" /\ burst' = burst
    BY <1>1 DEF Boundary, StopFaults, TakeNmi, TakeIrq, WaitIdle, WakeByIrq, Fetch
  <2> QED
    BY <2>1, <2>2 DEF PlaceOK, Quiet
<1>2. CASE Execute
  <2>1. burst \in Nat \ {0} \/ instr # "dma"
    BY TypeParts DEF PlaceOK
  <2>2. TypeOK' /\ Quiet
    BY <1>2, <2>1, CpuSteps, ReprogramSteps, RegisterSteps, DmaSteps DEF Execute
  <2>3. instr' = "dma" => burst' # 0
    <3>1. ASSUME NEW n \in Bursts, KickDma(n)
          PROVE  burst' # 0
      BY <3>1, CostTypes DEF KickDma
    <3>2. CASE DmaSlot
      BY <3>2, <2>1, TypeParts DEF DmaSlot
    <3>3. CASE DmaFaults
      BY <3>3 DEF DmaFaults
    <3>4. CASE /\ ~(\E n \in Bursts : KickDma(n))
               /\ ~DmaSlot
               /\ ~DmaFaults
      BY <1>2, <3>4
      DEF Execute, Plain, SetMask, Halt, WriteNmitimen, WriteHtime, WriteVtime, ReadRdnmi,
          ReadTimeup, WriteSetini, WriteJoyStrobe, ReadJoySerial, AccessApu, FaultingWrite,
          Retire
    <3> QED
      BY <3>1, <3>2, <3>3, <3>4
  <2> QED
    BY <2>2, <2>3 DEF PlaceOK, Quiet
<1> QED
  BY <1>1, <1>2

\* A frame starts: what it does to the clock, and types.
LEMMA StartFrameStep ==
  ASSUME TypeOK, PlaceOK, NEW p \in PadWords, StartFrame(p)
  PROVE  /\ TypeOK' /\ PlaceOK'
         /\ clock'.mclk = IF clock.mclk >= FrameClocks THEN clock.mclk - FrameClocks
                          ELSE clock.mclk
         /\ clock'.total = clock.total
         /\ timer' = timer
         /\ \E c \in Clocks : clock' = Recompute(c, timer, 0)
<1> DEFINE m == IF clock.mclk >= FrameClocks THEN clock.mclk - FrameClocks ELSE clock.mclk
           c == [clock EXCEPT !.mclk = m]
<1>1. clock.mclk \in Nat /\ clock.mclk = clock.mclk /\ FrameClocks \in Nat
  BY TypeParts, CostTypes DEF Clocks
<1>2. m \in Nat
  BY <1>1
<1>3. clock' = Recompute(c, timer, 0)
  BY DEF StartFrame
<1> HIDE DEF m
<1>4. c \in Clocks /\ c.mclk = m /\ c.total = clock.total
  BY <1>2, TypeParts DEF Clocks
<1> HIDE DEF c
<1>5. clock' \in Clocks /\ clock'.mclk = m /\ clock'.total = clock.total
  <2>1. timer \in Timers /\ 0 \in Nat
    BY TypeParts
  <2>2. /\ Recompute(c, timer, 0) \in Clocks
        /\ Recompute(c, timer, 0).mclk = c.mclk
        /\ Recompute(c, timer, 0).total = c.total
    BY <1>4, <2>1, RecomputeType, Zenon
  <2>3. QED
    BY <1>3, <1>4, <2>2, Zenon
<1>6. joypad' \in Joypads
  BY TypeParts DEF StartFrame, Joypads
<1>7. screen' \in Screens
  BY TypeParts DEF StartFrame, Screens
<1>8. nmi' \in Nmis
  BY TypeParts DEF StartFrame, Nmis
<1>9. line' \in 0..(Lines - 1)
  BY CostTypes DEF StartFrame
<1>10. TypeOK'
  BY <1>5, <1>6, <1>7, <1>8, <1>9, TypeParts, TypePartsNext DEF StartFrame, Stages
<1>11. PlaceOK'
  BY DEF StartFrame, PlaceOK
<1>12. timer' = timer
  BY DEF StartFrame
<1>13. \E d \in Clocks : clock' = Recompute(d, timer, 0)
  BY <1>3, <1>4
<1>14. clock'.mclk = IF clock.mclk >= FrameClocks THEN clock.mclk - FrameClocks
                     ELSE clock.mclk
  BY <1>5 DEF m
<1> QED
  BY <1>5, <1>10, <1>11, <1>12, <1>13, <1>14

\* A line starts.
LEMMA StartLineStep ==
  ASSUME TypeOK, PlaceOK, StartLine
  PROVE  TypeOK' /\ PlaceOK' /\ SamePicture
<1>1. line' \in 0..(Lines - 1)
  BY TypeParts, CostTypes DEF StartLine, PlaceOK
<1>2. screen' \in Screens /\ SamePicture
  BY TypeParts, BBusType DEF StartLine, SamePicture
<1>3. nmi' \in Nmis
  <2>1. nmi \in Nmis
    BY TypeParts
  <2>2. [nmi EXCEPT !.flag = TRUE, !.pending = @ \/ nmi.enabled] \in Nmis
    BY <2>1 DEF Nmis
  <2> QED
    BY <2>1, <2>2 DEF StartLine
<1>4. auto' \in Autos
  <2>1. auto \in Autos /\ joypad.joy1 \in Words
    BY TypeParts DEF Joypads
  <2>2. /\ [auto EXCEPT !.busy = TRUE, !.prev = joypad.joy1] \in Autos
        /\ [auto EXCEPT !.busy = FALSE] \in Autos
    BY <2>1 DEF Autos
  <2> QED
    BY <2>1, <2>2 DEF StartLine
<1>5. joypad' \in Joypads
  BY TypeParts, JoypadType DEF StartLine
<1>6. fault' \in Faults /\ stage' \in {"cpu", "between"}
  BY TypeParts DEF StartLine, Faults
<1>7. TypeOK'
  BY <1>1, <1>2, <1>3, <1>4, <1>5, <1>6, TypeParts, TypePartsNext DEF StartLine, Stages
<1>8. PlaceOK'
  BY <1>6 DEF StartLine, PlaceOK
<1> QED
  BY <1>2, <1>7, <1>8

\* The rows after a line is drawn.
Drawn == [r \in Rows |-> IF SourceLine(r) = line THEN frame + 1 ELSE screen.back[r]]

\* A line ends.
LEMMA EndLineStep ==
  ASSUME TypeOK, PlaceOK, EndLine
  PROVE  TypeOK' /\ PlaceOK' /\ UNCHANGED <<line, clock, timer>>
<1>1. apu' \in Nat
  BY TypeParts DEF EndLine, Clocks
<1>2. screen' \in Screens
  <2>1. screen \in Screens /\ frame + 1 \in Nat
    BY TypeParts
  <2>2. screen.back \in Frames
    BY <2>1 DEF Screens
  <2>3. Drawn \in Frames
    BY <2>1, <2>2 DEF Drawn, Frames
  <2>4. \/ screen' = screen
        \/ screen' = [screen EXCEPT !.back = Drawn]
        \/ screen' = [screen EXCEPT !.back = Drawn, !.front = Drawn]
    BY DEF EndLine, Drawn
  <2> HIDE DEF Drawn
  <2> QED
    BY <2>1, <2>3, <2>4 DEF Screens
<1>3. stage' \in Stages /\ frame' \in Nat /\ fault' \in Faults
  BY TypeParts DEF EndLine, Stages, Faults
<1>4. TypeOK'
  BY <1>1, <1>2, <1>3, TypeParts, TypePartsNext DEF EndLine
<1>5. PlaceOK'
  <2>1. stage' = "line" => line # Lines - 1
    BY CostTypes DEF EndLine, LastLine
  <2> QED
    BY <2>1, TypeParts, CostTypes DEF EndLine, PlaceOK
<1> QED
  BY <1>4, <1>5 DEF EndLine

\* A faulted call ends.
LEMMA AbortStep ==
  ASSUME TypeOK, PlaceOK, Abort
  PROVE  TypeOK' /\ PlaceOK'
  BY TypeParts, TypePartsNext DEF Abort, PlaceOK, devices, Stages

\* Nothing changes: neither do the types.
LEMMA StutterStep ==
  ASSUME TypeOK, PlaceOK, UNCHANGED vars
  PROVE  TypeOK' /\ PlaceOK'
  BY TypeParts, TypePartsNext DEF vars, PlaceOK

\* The initial state.
LEMMA InitType == Init => TypeOK /\ PlaceOK
<1> SUFFICES ASSUME Init PROVE TypeOK /\ PlaceOK
  OBVIOUS
<1>1. clock \in Clocks
  BY CostTypes DEF Init, Clocks, None
<1>2. timer \in Timers
  BY CostTypes DEF Init, Timers
<1>3. nmi \in Nmis /\ cpu \in Cpus
  BY DEF Init, Nmis, Cpus
<1>4. auto \in Autos
  BY DEF Init, Autos, Words
<1>5. joypad \in Joypads
  BY DEF Init, NewJoypad, Joypads, WordBits, Words
<1>6. screen \in Screens
  BY DEF Init, Screens, Frames
<1>7. line \in 0..(Lines - 1)
  BY CostTypes DEF Init
<1> QED
  BY <1>1, <1>2, <1>3, <1>4, <1>5, <1>6, <1>7, TypeParts
  DEF Init, PlaceOK, Stages, Instrs, Faults

\* Every step preserves them.
LEMMA TypeStep ==
  ASSUME TypeOK, PlaceOK, [Next]_vars
  PROVE  TypeOK' /\ PlaceOK'
  BY QuietSteps, StartFrameStep, StartLineStep, EndLineStep, AbortStep, StutterStep
  DEF Next, Call

\* Every variable of the scheduler keeps its shape, for every layout and program.
THEOREM TypeInvariant == Spec => []TypeOK
<1>1. Init => TypeOK /\ PlaceOK
  BY InitType
<1>2. TypeOK /\ PlaceOK /\ [Next]_vars => TypeOK' /\ PlaceOK'
  BY TypeStep
<1> QED
  BY <1>1, <1>2, PTL DEF Spec

\* With the companion, for the theorems below.
LEMMA TypeAndPlace == Spec => [](TypeOK /\ PlaceOK)
<1>1. Init => TypeOK /\ PlaceOK
  BY InitType
<1>2. TypeOK /\ PlaceOK /\ [Next]_vars => TypeOK' /\ PlaceOK'
  BY TypeStep
<1> QED
  BY <1>1, <1>2, PTL DEF Spec

-----------------------------------------------------------------------------
(* The vertical interrupt.                                                 *)

\* The target is armed right after it is computed, whatever it was before.
LEMMA RecomputeArms ==
  ASSUME NEW c \in Clocks, NEW t \in Timers, NEW l \in Nat
  PROVE  Armed(Recompute(c, t, l), t)
<1>1. Recompute(c, t, l).mclk = c.mclk
  BY RecomputeType
<1>2. t.v => Recompute(c, t, l).target
               = IF InRange(t) /\ VPosition(t) > c.mclk THEN VPosition(t) ELSE None
  BY DEF Recompute, Clocks
<1> QED
  BY <1>1, <1>2 DEF Armed

\* It stays armed until the clock reaches it, and is disarmed by reaching it.
LEMMA TickArmed ==
  ASSUME TypeOK, Armed(clock, timer), Ticks
  PROVE  Armed(clock', timer')
<1>1. PICK n \in Nat : /\ clock'.mclk = Tick(clock, n).mclk
                       /\ clock'.target = Tick(clock, n).target
  BY DEF Ticks
<1>2. timer' = timer /\ clock \in Clocks /\ timer \in Timers /\ line \in Nat
  BY TypeParts DEF Ticks
<1>3. clock.mclk \in Nat /\ clock'.mclk = clock.mclk + n
  BY <1>1, <1>2, TickType DEF Clocks
<1>4. clock'.target = IF ~Crosses(clock, n) THEN clock.target
                      ELSE IF HOnly(timer) THEN NextHTarget(timer, line) ELSE None
  BY <1>1 DEF Tick
<1>5. VPosition(timer) \in Nat
  BY <1>2, PositionType
<1>6. ASSUME timer.v
      PROVE  clock'.target = IF InRange(timer) /\ VPosition(timer) > clock'.mclk
                             THEN VPosition(timer) ELSE None
  <2>1. ~HOnly(timer)
    BY <1>6 DEF HOnly
  <2>2. CASE InRange(timer) /\ VPosition(timer) > clock.mclk
    BY <1>3, <1>4, <1>5, <1>6, <2>1, <2>2 DEF Armed, Crosses
  <2>3. CASE ~(InRange(timer) /\ VPosition(timer) > clock.mclk)
    <3>1. clock.target = None
      BY <1>6, <2>3 DEF Armed
    <3>2. clock'.target = None
      BY <1>3, <1>4, <3>1 DEF Crosses, None
    <3> QED
      BY <1>3, <1>5, <2>3, <3>2
  <2> QED
    BY <2>2, <2>3
<1> QED
  BY <1>2, <1>6 DEF Armed

\* A V or H+V interrupt is armed exactly while its position is ahead of the clock.
THEOREM VInterruptArmed == Spec => []VArmed
<1>1. Init => VArmed
  BY DEF Init, VArmed, Armed
<1>2. TypeOK /\ PlaceOK /\ VArmed /\ [Next]_vars => VArmed'
  <2> SUFFICES ASSUME TypeOK, PlaceOK, VArmed, [Next]_vars
               PROVE  Armed(clock', timer')
    BY DEF VArmed, Armed
  <2>1. Armed(clock, timer) /\ line \in Nat
    BY TypeParts DEF VArmed
  <2>2. CASE UNCHANGED <<clock, timer>>
    BY <2>1, <2>2
  <2>3. CASE Quiet
    <3>1. CASE Ticks
      BY <2>1, <3>1, TickArmed
    <3>2. CASE Reprograms /\ timer' \in Timers
      <4>1. Tick(clock, RegClocks) \in Clocks
        BY <2>1, TypeParts, TickType, CostTypes
      <4> QED
        BY <2>1, <3>2, <4>1, RecomputeArms DEF Reprograms
    <3>3. timer' \in Timers
      BY TypeStep, TypePartsNext
    <3> QED
      BY <2>2, <2>3, <3>1, <3>2, <3>3 DEF Quiet
  <2>4. ASSUME NEW p \in PadWords, StartFrame(p)
        PROVE  Armed(clock', timer')
    <3>1. timer' = timer /\ \E c \in Clocks : clock' = Recompute(c, timer, 0)
      BY <2>4, StartFrameStep
    <3> QED
      BY <3>1, RecomputeArms, TypeParts
  <2>5. CASE StartLine
    BY <2>2, <2>5 DEF StartLine
  <2>6. CASE EndLine
    BY <2>2, <2>6, EndLineStep
  <2>7. CASE Abort
    BY <2>2, <2>7 DEF Abort, devices
  <2>8. CASE UNCHANGED vars
    BY <2>2, <2>8 DEF vars
  <2> QED
    BY <2>3, <2>4, <2>5, <2>6, <2>7, <2>8, QuietSteps DEF Next, Call
<1> QED
  BY <1>1, <1>2, TypeAndPlace, PTL DEF Spec

-----------------------------------------------------------------------------
(* Conservation of time.                                                   *)

\* Inductive companion: a completed frame has used up its clocks, and only a
\* completed frame is taken off.
TimeInv ==
  /\ TimeConserved
  /\ FrameDone => clock.mclk >= FrameClocks
  /\ stage = "between" /\ fault = "none" /\ frame = 0 => clock.mclk < FrameClocks

\* Adding clocks and reprogramming the timer leave the distance of the two clocks.
LEMMA QuietClock ==
  ASSUME TypeOK, Quiet
  PROVE  clock'.total - clock'.mclk = clock.total - clock.mclk
<1>1. /\ clock \in Clocks /\ timer \in Timers /\ line \in Nat
      /\ clock.total \in Nat /\ clock.mclk \in Nat
  BY TypeParts DEF Clocks
<1>2. CASE UNCHANGED <<clock, timer>>
  BY <1>1, <1>2
<1>3. CASE Ticks
  BY <1>1, <1>3, TickType DEF Ticks
<1>4. CASE Reprograms
  <2>1. /\ Tick(clock, RegClocks) \in Clocks
        /\ Tick(clock, RegClocks).mclk = clock.mclk + RegClocks
        /\ Tick(clock, RegClocks).total = clock.total + RegClocks
    BY <1>1, TickType, CostTypes
  <2>2. /\ Recompute(Tick(clock, RegClocks), timer', line).mclk
             = Tick(clock, RegClocks).mclk
        /\ Recompute(Tick(clock, RegClocks), timer', line).total
             = Tick(clock, RegClocks).total
    BY <2>1 DEF Recompute, Clocks
  <2> QED
    BY <1>1, <1>4, <2>1, <2>2, CostTypes DEF Reprograms
<1> QED
  BY <1>2, <1>3, <1>4 DEF Quiet

\* Frame number k starts at exactly k frames of master clocks.
THEOREM TimeIsConserved == Spec => []TimeConserved
<1>1. Init => TimeInv
  BY FrameAssumption, CostTypes DEF Init, TimeInv, TimeConserved, FrameDone
<1>2. TypeOK /\ PlaceOK /\ TimeInv /\ [Next]_vars => TimeInv'
  <2> SUFFICES ASSUME TypeOK, PlaceOK, TimeInv, [Next]_vars
               PROVE  TimeInv'
    OBVIOUS
  <2>1. /\ clock.mclk \in Nat /\ clock.total \in Nat /\ frame \in Nat /\ FrameClocks \in Nat
        /\ FrameClocks * frame \in Nat
    BY TypeParts, CostTypes DEF Clocks
  <2>2. FrameClocks * (frame + 1) = FrameClocks * frame + FrameClocks
    BY <2>1
  <2>3. frame > 0 => FrameClocks * frame = FrameClocks * (frame - 1) + FrameClocks
    BY <2>1
  <2>4. CASE Quiet
    <3>1. clock'.total - clock'.mclk = clock.total - clock.mclk
      BY <2>4, QuietClock
    <3> QED
      BY <2>4, <3>1 DEF Quiet, TimeInv, TimeConserved, FrameDone
  <2>5. ASSUME NEW p \in PadWords, StartFrame(p)
        PROVE  TimeInv'
    <3>1. /\ stage = "between" /\ fault = "none" /\ stage' = "cpu" /\ frame' = frame
          /\ clock'.mclk = IF clock.mclk >= FrameClocks THEN clock.mclk - FrameClocks
                           ELSE clock.mclk
          /\ clock'.total = clock.total
      BY <2>5, StartFrameStep DEF StartFrame
    <3>2. CASE frame = 0
      BY <2>1, <3>1, <3>2 DEF TimeInv, TimeConserved, FrameDone
    <3>3. CASE frame > 0
      <4> DEFINE a == FrameClocks * (frame - 1)
                 b == FrameClocks * frame
      <4>1. clock.mclk >= FrameClocks /\ clock.total - clock.mclk = a
        BY <3>1, <3>3 DEF TimeInv, TimeConserved, FrameDone
      <4>2. b = a + FrameClocks /\ a \in Nat /\ b \in Nat
        BY <2>1, <2>3, <3>3
      <4> HIDE DEF a, b
      <4>3. clock'.total - clock'.mclk = b
        BY <2>1, <3>1, <4>1, <4>2
      <4> QED
        BY <3>1, <3>3, <4>3 DEF TimeInv, TimeConserved, FrameDone, b
    <3> QED
      BY <2>1, <3>2, <3>3
  <2>6. CASE StartLine
    <3>1. clock' = clock /\ frame' = frame /\ stage = "line"
          /\ (stage' = "between" => fault' # "none")
      BY <2>6 DEF StartLine
    <3> QED
      BY <3>1 DEF TimeInv, TimeConserved, FrameDone
  <2>7. CASE EndLine
    <3>1. clock' = clock /\ stage = "cpu" /\ fault = "none"
      BY <2>7 DEF EndLine
    <3>2. CASE fault' = "Apu" /\ frame' = frame
      BY <3>1, <3>2 DEF TimeInv, TimeConserved, FrameDone
    <3>3. CASE stage' = "line" /\ frame' = frame
      BY <3>1, <3>3 DEF TimeInv, TimeConserved, FrameDone
    <3>4. CASE LastLine /\ stage' = "between" /\ frame' = frame + 1 /\ fault' = fault
      <4>1. clock.mclk >= FrameClocks
        BY <2>7, <3>4 DEF EndLine, LastLine, LineEnd, FrameClocks
      <4> QED
        BY <2>1, <3>1, <3>4, <4>1 DEF TimeInv, TimeConserved, FrameDone
    <3> QED
      BY <2>7, <3>2, <3>3, <3>4 DEF EndLine
  <2>8. CASE Abort
    BY <2>8 DEF Abort, TimeInv, TimeConserved, FrameDone
  <2>9. CASE UNCHANGED vars
    BY <2>9 DEF vars, TimeInv, TimeConserved, FrameDone
  <2> QED
    BY <2>4, <2>5, <2>6, <2>7, <2>8, <2>9, QuietSteps DEF Next, Call
<1>3. TimeInv => TimeConserved
  BY DEF TimeInv
<1> QED
  BY <1>1, <1>2, <1>3, TypeAndPlace, PTL DEF Spec

-----------------------------------------------------------------------------
(* The picture.                                                            *)

\* Inductive companion: while a frame is emulated, the back buffer holds its rows down
\* to the line reached.
PictureInv ==
  /\ FrontIsWholeFrame
  /\ \A r \in Rows :
       \/ stage = "cpu" /\ SourceLine(r) < line
       \/ stage = "line" /\ SourceLine(r) <= line
       => screen.back[r] = frame + 1

\* Every row comes from a line before the last.
LEMMA SourceLines ==
  ASSUME TypeOK, NEW r \in Rows
  PROVE  /\ SourceLine(r) \in Nat
         /\ SourceLine(r) > 0
         /\ SourceLine(r) < Lines - 1
  BY FrameAssumption DEF Rows, SourceLine

\* The front buffer is always one whole frame, the last completed one.
THEOREM FrontIsWhole == Spec => []FrontIsWholeFrame
<1>1. Init => PictureInv
  BY DEF Init, PictureInv, FrontIsWholeFrame
<1>2. TypeOK /\ PlaceOK /\ PictureInv /\ [Next]_vars => PictureInv'
  <2> SUFFICES ASSUME TypeOK, PlaceOK, PictureInv, [Next]_vars
               PROVE  PictureInv'
    OBVIOUS
  <2>1. /\ line \in Nat /\ frame \in Nat
        /\ \A r \in Rows : /\ SourceLine(r) \in Nat
                           /\ SourceLine(r) > 0
                           /\ SourceLine(r) < Lines - 1
    BY SourceLines, TypeParts
  <2>2. SamePicture => \A r \in Rows : SourceLine(r)' = SourceLine(r)
    BY DEF SamePicture, SourceLine
  <2>3. CASE Quiet
    BY <2>2, <2>3 DEF Quiet, SamePicture, PictureInv, FrontIsWholeFrame
  <2>4. ASSUME NEW p \in PadWords, StartFrame(p)
        PROVE  PictureInv'
    <3>1. screen'.front = screen.front /\ frame' = frame /\ line' = 0 /\ stage' = "cpu"
      BY <2>4, TypeParts DEF StartFrame, Screens
    <3>2. \A r \in Rows : ~(SourceLine(r)' < 0)
      BY <2>4, StartFrameStep, FrameAssumption DEF SourceLine, Rows
    <3> QED
      BY <3>1, <3>2 DEF PictureInv, FrontIsWholeFrame
  <2>5. CASE StartLine
    <3>1. SamePicture
      BY <2>5, StartLineStep
    <3>2. /\ stage = "line" /\ line' = line + 1 /\ frame' = frame
          /\ stage' \in {"cpu", "between"}
      BY <2>5 DEF StartLine
    <3> QED
      BY <2>1, <2>2, <3>1, <3>2 DEF SamePicture, PictureInv, FrontIsWholeFrame
  <2>6. CASE EndLine
    <3>1. /\ stage = "cpu" /\ line' = line
          /\ screen \in Screens
      BY <2>6, TypeParts DEF EndLine
    <3>2. CASE UNCHANGED <<screen, frame>> /\ stage' = "between"
      BY <3>2 DEF PictureInv, FrontIsWholeFrame
    <3>3. CASE /\ screen' = [screen EXCEPT !.back = Drawn]
               /\ stage' = "line" /\ frame' = frame
      <4>1. /\ screen'.front = screen.front /\ screen'.overscan = screen.overscan
            /\ screen'.back = Drawn
        BY <3>1, <3>3 DEF Screens
      <4>2. \A r \in Rows : SourceLine(r)' = SourceLine(r)
        BY <4>1 DEF SourceLine
      <4>3. \A r \in Rows : SourceLine(r) <= line => Drawn[r] = frame + 1
        BY <2>1, <3>1 DEF Drawn, PictureInv
      <4> QED
        BY <3>1, <3>3, <4>1, <4>2, <4>3 DEF PictureInv, FrontIsWholeFrame
    <3>4. CASE /\ screen' = [screen EXCEPT !.back = Drawn, !.front = Drawn]
               /\ LastLine /\ stage' = "between" /\ frame' = frame + 1
      <4>1. screen'.front = Drawn
        BY <3>1, <3>4 DEF Screens
      <4>2. \A r \in Rows : Drawn[r] = frame + 1
        BY <2>1, <3>1, <3>4, CostTypes DEF Drawn, PictureInv, LastLine
      <4> QED
        BY <3>4, <4>1, <4>2 DEF PictureInv, FrontIsWholeFrame
    <3> QED
      BY <2>6, <3>2, <3>3, <3>4 DEF EndLine, Drawn
  <2>7. CASE Abort
    BY <2>7 DEF Abort, PictureInv, FrontIsWholeFrame, devices, SourceLine
  <2>8. CASE UNCHANGED vars
    BY <2>8 DEF vars, PictureInv, FrontIsWholeFrame, SourceLine
  <2> QED
    BY <2>3, <2>4, <2>5, <2>6, <2>7, <2>8, QuietSteps DEF Next, Call
<1>3. PictureInv => FrontIsWholeFrame
  BY DEF PictureInv
<1> QED
  BY <1>1, <1>2, <1>3, TypeAndPlace, PTL DEF Spec

-----------------------------------------------------------------------------
(* Every call returns.                                                     *)

\* At an instruction boundary with clocks left, whatever happens takes time or is a fault.
LEMMA BoundaryMovesOn ==
  ASSUME TypeOK, Boundary
  PROVE  /\ stage = "cpu" /\ line' = line /\ ~LineIsOver
         /\ (fault = "none" /\ fault' # "none") \/ clock'.total > clock.total
<1>1. /\ EntryClocks \in Nat \ {0} /\ IdleClocks \in Nat \ {0} /\ FetchClocks \subseteq Nat \ {0}
  BY FrameAssumption
<1>2. LineEnd \in Nat /\ clock.mclk \in Nat /\ clock.total \in Nat
  BY TypeParts, CostTypes DEF LineEnd, Clocks
<1>3. AtBoundary /\ line' = line
  BY DEF Boundary, StopFaults, TakeNmi, TakeIrq, WaitIdle, WakeByIrq, Fetch
<1>4. stage = "cpu" /\ ~LineIsOver
  BY <1>2, <1>3 DEF AtBoundary, LineIsOver
<1>5. ASSUME NEW n \in Nat \ {0}, Advance(n)
      PROVE  clock'.total > clock.total
  BY <1>2, <1>5 DEF Advance, Tick
<1>6. CASE StopFaults
  BY <1>3, <1>4, <1>6 DEF StopFaults, AtBoundary
<1>7. CASE TakeNmi \/ TakeIrq \/ WaitIdle
  BY <1>1, <1>3, <1>4, <1>5, <1>7 DEF TakeNmi, TakeIrq, WaitIdle
<1>8. ASSUME NEW k \in FetchClocks, WakeByIrq(k) \/ Fetch(k)
      PROVE  clock'.total > clock.total
  <2>1. k \in Nat \ {0} /\ EntryClocks + k \in Nat \ {0}
    BY <1>1
  <2> QED
    BY <1>5, <1>8, <2>1 DEF WakeByIrq, Fetch
<1> QED
  BY <1>3, <1>4, <1>6, <1>7, <1>8 DEF Boundary

\* An instruction that has been fetched ends, or goes through its burst slot by slot.
LEMMA ExecuteMovesOn ==
  ASSUME TypeOK, Execute
  PROVE  /\ stage = "cpu" /\ line' = line /\ ~LineIsOver
         /\ \/ fault = "none" /\ fault' # "none"
            \/ clock'.total > clock.total
            \/ instr = "inside" /\ instr' # "inside"
<1>1. SlotClocks \in Nat \ {0} /\ clock.total \in Nat
  BY FrameAssumption, TypeParts DEF Clocks
<1>2. CASE DmaSlot
  BY <1>1, <1>2 DEF DmaSlot, Advance, Tick, LineIsOver
<1>3. CASE DmaFaults
  BY <1>3 DEF DmaFaults, LineIsOver
<1>4. CASE ~DmaSlot /\ ~DmaFaults
  <2>1. Inside /\ instr' \in {"boundary", "dma"} /\ line' = line
    BY <1>4 DEF Execute, Plain, SetMask, Halt, WriteNmitimen, WriteHtime, WriteVtime,
       ReadRdnmi, ReadTimeup, WriteSetini, WriteJoyStrobe, ReadJoySerial, AccessApu,
       FaultingWrite, KickDma, Retire
  <2> QED
    BY <2>1 DEF Inside, LineIsOver
<1> QED
  BY <1>2, <1>3, <1>4

\* run_one_frame returns whatever the program does: no step of a call leaves it where it
\* was, and a line that is over, or a fault, ends at the next instruction boundary.
THEOREM CallsReturn == Spec => FrameReturns
<1>1. ASSUME TypeOK, [Next]_vars
      PROVE  [stage # "between" => MovesOn /\ (LineIsOver => stage' # "cpu")]_vars
  <2>1. CASE UNCHANGED vars
    BY <2>1
  <2>2. ASSUME NEW p \in PadWords, StartFrame(p)
        PROVE  stage = "between"
    BY <2>2 DEF StartFrame
  <2>3. CASE StartLine
    BY <2>3 DEF StartLine, MovesOn, LineIsOver
  <2>4. CASE EndLine
    BY <2>4 DEF EndLine, MovesOn
  <2>5. CASE Abort
    BY <2>5 DEF Abort, MovesOn
  <2>6. CASE Boundary
    BY <1>1, <2>6, BoundaryMovesOn DEF MovesOn
  <2>7. CASE Execute
    BY <1>1, <2>7, ExecuteMovesOn DEF MovesOn
  <2> QED
    BY <1>1, <2>1, <2>2, <2>3, <2>4, <2>5, <2>6, <2>7 DEF Next, Call
<1> QED
  BY <1>1, TypeInvariant, PTL DEF Spec, FrameReturns

-----------------------------------------------------------------------------
(* The frame's contract: what the history says of a frame.                 *)

HistFields == {"entry", "irqs", "touched", "vblanks", "auto", "serial", "latched", "stop"}
HistOK ==
  /\ DOMAIN hist = HistFields
  /\ hist.entry \in Nat /\ hist.irqs \in Nat /\ hist.vblanks \in Nat /\ hist.stop \in Nat

\* The history of a step that takes n clocks and leaves the timer alone.
KeepsFrame ==
  /\ DOMAIN hist' = HistFields
  /\ UNCHANGED <<hist.entry, hist.vblanks>>
  /\ hist'.stop \in Nat
Hears(n) ==
  /\ timer' = timer
  /\ clock'.mclk = clock.mclk + n
  /\ hist'.irqs = hist.irqs + (IF Crosses(clock, n) THEN 1 ELSE 0)
  /\ hist'.touched = hist.touched

\* What a step of the CPU does to the history.
Heard ==
  /\ KeepsFrame
  /\ hist'.irqs \in Nat
  /\ nmi'.flag => nmi.flag
  /\ \/ UNCHANGED <<clock, timer>> /\ UNCHANGED <<hist.irqs, hist.touched>>
     \/ \E n \in Nat : Hears(n)
     \/ hist'.touched

\* Advancing the clock tells the history.
LEMMA AdvanceHeard ==
  ASSUME TypeOK, HistOK, NEW n \in Nat, timer' = timer,
         clock'.mclk = Tick(clock, n).mclk,
         DOMAIN hist' = HistFields, UNCHANGED <<hist.entry, hist.vblanks, hist.touched>>,
         hist'.stop \in {hist.stop, frame},
         hist'.irqs = hist.irqs + (IF Crosses(clock, n) THEN 1 ELSE 0),
         nmi'.flag => nmi.flag
  PROVE  Heard
<1>1. frame \in Nat /\ clock'.mclk = clock.mclk + n
  BY TypeParts, TickType
<1>2. Hears(n)
  BY <1>1 DEF Hears
<1>3. KeepsFrame /\ hist'.irqs \in Nat
  BY <1>1 DEF KeepsFrame, HistOK
<1> QED
  BY <1>2, <1>3 DEF Heard

\* The same of the operator.
LEMMA AdvancedHeard ==
  ASSUME TypeOK, HistOK, NEW n \in Nat, Advance(n), timer' = timer, nmi'.flag => nmi.flag
  PROVE  Heard
<1>1. /\ DOMAIN hist' = HistFields /\ UNCHANGED <<hist.entry, hist.vblanks, hist.touched>>
      /\ hist'.stop = hist.stop
      /\ hist'.irqs = hist.irqs + (IF Crosses(clock, n) THEN 1 ELSE 0)
  BY DEF Advance, HistOK, HistFields
<1>2. clock'.mclk = Tick(clock, n).mclk
  BY DEF Advance
<1> QED
  BY <1>1, <1>2, AdvanceHeard

LEMMA ReprogramHeard ==
  ASSUME HistOK, NEW t, Reprogram(t), nmi'.flag => nmi.flag
  PROVE  Heard
<1>1. /\ DOMAIN hist' = HistFields /\ UNCHANGED <<hist.entry, hist.vblanks, hist.stop>>
      /\ hist'.touched
      /\ hist'.irqs = hist.irqs + (IF Crosses(clock, RegClocks) THEN 1 ELSE 0)
  BY DEF Reprogram, HistOK, HistFields
<1>2. hist'.irqs \in Nat
  BY <1>1 DEF HistOK
<1> QED
  BY <1>1, <1>2 DEF Heard, KeepsFrame, HistOK

\* A step that takes no time and leaves the history.
LEMMA StillHeard ==
  ASSUME HistOK, UNCHANGED <<clock, timer, nmi, hist>>
  PROVE  Heard
  BY DEF Heard, KeepsFrame, HistOK

LEMMA BoundaryHeard == TypeOK /\ HistOK /\ Boundary => Heard
<1> SUFFICES ASSUME TypeOK, HistOK, Boundary PROVE Heard
  OBVIOUS
<1> USE DEF devices
<1>0. nmi \in Nmis
  BY TypeParts
<1>1. CASE StopFaults
  BY <1>1, StillHeard DEF StopFaults
<1>2. CASE TakeNmi
  BY <1>0, <1>2, CostTypes, AdvancedHeard DEF TakeNmi, Nmis
<1>3. CASE TakeIrq
  BY <1>3, CostTypes, AdvancedHeard DEF TakeIrq
<1>4. CASE WaitIdle
  BY <1>4, CostTypes, AdvancedHeard DEF WaitIdle
<1>5. ASSUME NEW k \in FetchClocks, WakeByIrq(k)
      PROVE  Heard
  <2>1. k \in Nat /\ EntryClocks + k \in Nat
    BY CostTypes
  <2> QED
    BY <1>5, <2>1, AdvancedHeard DEF WakeByIrq
<1>6. ASSUME NEW k \in FetchClocks, Fetch(k)
      PROVE  Heard
  <2>1. k \in Nat
    BY CostTypes
  <2> QED
    BY <1>6, <2>1, AdvancedHeard DEF Fetch
<1> QED
  BY <1>1, <1>2, <1>3, <1>4, <1>5, <1>6 DEF Boundary

LEMMA ExecuteHeard == TypeOK /\ HistOK /\ Execute => Heard
<1> SUFFICES ASSUME TypeOK, HistOK, Execute PROVE Heard
  OBVIOUS
<1> USE DEF devices
<1>0. nmi \in Nmis /\ RegClocks \in Nat /\ IdleClocks \in Nat
  BY TypeParts, CostTypes
<1>1. CASE Plain \/ (\E m \in BOOLEAN : SetMask(m)) \/ DmaFaults
  BY <1>1, StillHeard DEF Plain, SetMask, DmaFaults
<1>2. ASSUME NEW mode \in {"wait", "stopped"}, Halt(mode)
      PROVE  Heard
  <2>1. /\ DOMAIN hist' = HistFields /\ UNCHANGED <<hist.entry, hist.vblanks, hist.touched>>
        /\ hist'.stop = frame
        /\ hist'.irqs = hist.irqs + (IF Crosses(clock, IdleClocks) THEN 1 ELSE 0)
    BY <1>2 DEF Halt, HistOK, HistFields
  <2>2. clock' = Tick(clock, IdleClocks) /\ timer' = timer /\ nmi' = nmi
    BY <1>2 DEF Halt
  <2> QED
    BY <1>0, <2>1, <2>2, AdvanceHeard
<1>3. ASSUME NEW w \in Nmitimens, WriteNmitimen(w)
      PROVE  Heard
  <2>1. nmi'.flag = nmi.flag
    BY <1>0, <1>3 DEF WriteNmitimen, Nmis
  <2> QED
    BY <1>3, <2>1, ReprogramHeard DEF WriteNmitimen
<1>4. CASE \/ \E x \in Htimes : WriteHtime(x)
           \/ \E x \in Vtimes : WriteVtime(x)
  BY <1>4, ReprogramHeard DEF WriteHtime, WriteVtime
<1>5. CASE ReadRdnmi
  BY <1>0, <1>5, AdvancedHeard DEF ReadRdnmi, Nmis
<1>6. CASE ReadTimeup
  <2>1. /\ DOMAIN hist' = HistFields /\ UNCHANGED <<hist.entry, hist.vblanks, hist.touched>>
        /\ hist'.stop = hist.stop
        /\ hist'.irqs = hist.irqs + (IF Crosses(clock, RegClocks) THEN 1 ELSE 0)
    BY <1>6 DEF ReadTimeup, HistOK, HistFields
  <2>2. clock'.mclk = Tick(clock, RegClocks).mclk /\ timer' = timer /\ nmi' = nmi
    BY <1>6 DEF ReadTimeup, Tick
  <2> QED
    BY <1>0, <2>1, <2>2, AdvanceHeard
<1>7. CASE \E o \in BOOLEAN : WriteSetini(o)
  BY <1>0, <1>7, AdvancedHeard DEF WriteSetini
<1>8. ASSUME NEW o \in BOOLEAN, WriteJoyStrobe(o)
      PROVE  Heard
  <2>1. /\ DOMAIN hist' = HistFields /\ UNCHANGED <<hist.entry, hist.vblanks, hist.touched>>
        /\ hist'.stop = hist.stop
        /\ hist'.irqs = hist.irqs + (IF Crosses(clock, RegClocks) THEN 1 ELSE 0)
    BY <1>8 DEF WriteJoyStrobe, HistOK, HistFields
  <2>2. clock' = Tick(clock, RegClocks) /\ timer' = timer /\ nmi' = nmi
    BY <1>8 DEF WriteJoyStrobe
  <2> QED
    BY <1>0, <2>1, <2>2, AdvanceHeard
<1>9. CASE ReadJoySerial
  <2>1. /\ DOMAIN hist' = HistFields /\ UNCHANGED <<hist.entry, hist.vblanks, hist.touched>>
        /\ hist'.stop = hist.stop
        /\ hist'.irqs = hist.irqs + (IF Crosses(clock, RegClocks) THEN 1 ELSE 0)
    BY <1>9 DEF ReadJoySerial, HistOK, HistFields
  <2>2. clock' = Tick(clock, RegClocks) /\ timer' = timer /\ nmi' = nmi
    BY <1>9 DEF ReadJoySerial
  <2> QED
    BY <1>0, <2>1, <2>2, AdvanceHeard
<1>10. CASE AccessApu \/ FaultingWrite
  BY <1>0, <1>10, AdvancedHeard DEF AccessApu, FaultingWrite
<1>11. ASSUME NEW n \in Bursts, KickDma(n)
       PROVE  Heard
  <2>1. RegClocks + DmaSetup \in Nat
    BY CostTypes
  <2> QED
    BY <1>11, <2>1, AdvancedHeard DEF KickDma
<1>12. CASE DmaSlot
  BY <1>12, CostTypes, AdvancedHeard DEF DmaSlot
<1> QED
  BY <1>1, <1>2, <1>3, <1>4, <1>5, <1>6, <1>7, <1>8, <1>9, <1>10, <1>11, <1>12 DEF Execute

\* The timer's history: what VFiresOnce says at the end of a frame holds all through it.
CountInv ==
  timer.v /\ InRange(timer) /\ ~hist.touched =>
    /\ hist.entry <= clock.mclk
    /\ hist.irqs = IF hist.entry < VPosition(timer) /\ VPosition(timer) <= clock.mclk
                   THEN 1 ELSE 0

\* The vertical blank's: it has begun when its line has.
VBlankInv ==
  /\ hist.vblanks = IF line >= VBlankStart THEN 1 ELSE 0
  /\ nmi.flag => line >= VBlankStart
  /\ FrameDone => line = Lines - 1

\* A stopped CPU adds no clocks, and had less than two frames of them when it stopped:
\* at the start of the next frame there is less than one left, and that frame cannot end.
StopInv ==
  /\ stage # "cpu" => instr = "boundary"
  /\ instr = "inside" => cpu.mode = "run" /\ clock.mclk + IdleClocks < 2 * FrameClocks
  /\ instr = "dma" => cpu.mode = "run"
  /\ cpu.mode = "stopped" =>
       /\ instr = "boundary"
       /\ hist.stop <= frame /\ frame <= hist.stop + 1
       /\ fault = "none" =>
            /\ frame = hist.stop => stage # "between"
            /\ clock.mclk < 2 * FrameClocks
            /\ frame = hist.stop + 1 /\ stage # "between" => clock.mclk < FrameClocks

\* While the timer is left alone it fires when the clock passes its position.
LEMMA CountStep ==
  ASSUME TypeOK, HistOK, VArmed, CountInv, Heard
  PROVE  CountInv'
<1>1. /\ clock.mclk \in Nat /\ VPosition(timer) \in Nat
      /\ hist.entry \in Nat /\ hist.irqs \in Nat
  BY TypeParts, PositionType DEF Clocks, HistOK
<1>2. CASE UNCHANGED <<clock, timer>> /\ UNCHANGED <<hist.irqs, hist.touched>>
  BY <1>2 DEF Heard, KeepsFrame, CountInv
<1>3. ASSUME NEW n \in Nat, Hears(n)
      PROVE  CountInv'
  <2> SUFFICES ASSUME timer.v, InRange(timer), ~hist.touched
               PROVE  /\ hist.entry <= clock'.mclk
                      /\ hist'.irqs = IF hist.entry < VPosition(timer)
                                           /\ VPosition(timer) <= clock'.mclk
                                      THEN 1 ELSE 0
    BY <1>3 DEF Heard, KeepsFrame, CountInv, Hears
  <2> DEFINE v == VPosition(timer)
  <2>1. /\ clock'.mclk = clock.mclk + n /\ hist.entry <= clock.mclk
        /\ hist'.irqs = hist.irqs + (IF Crosses(clock, n) THEN 1 ELSE 0)
        /\ hist.irqs = IF hist.entry < v /\ v <= clock.mclk THEN 1 ELSE 0
    BY <1>3 DEF Hears, CountInv
  <2>2. clock.target = IF v > clock.mclk THEN v ELSE None
    BY DEF VArmed, Armed
  <2>3. Crosses(clock, n) <=> v > clock.mclk /\ v <= clock.mclk + n
    BY <1>1, <2>2 DEF Crosses, None
  <2>4. v \in Nat
    BY <1>1
  <2> HIDE DEF v
  <2>5. hist'.irqs = IF hist.entry < v /\ v <= clock'.mclk THEN 1 ELSE 0
    BY <1>1, <2>1, <2>3, <2>4
  <2> QED
    BY <1>1, <2>1, <2>5 DEF v
<1>4. CASE hist'.touched
  BY <1>4 DEF CountInv
<1> QED
  BY <1>2, <1>3, <1>4 DEF Heard

\* The line a CPU step is on ends within the frame.
LEMMA LineInFrame ==
  ASSUME TypeOK
  PROVE  /\ LineEnd \in Nat /\ LineEnd <= FrameClocks
         /\ LastLine => LineEnd = FrameClocks
<1>1. line \in Nat /\ line + 1 <= Lines /\ LineClocks \in Nat /\ Lines \in Nat
  BY TypeParts, CostTypes
<1>2. PICK d \in Nat : Lines = (line + 1) + d
  <2>1. Lines - (line + 1) \in Nat /\ Lines = (line + 1) + (Lines - (line + 1))
    BY <1>1
  <2> QED
    BY <2>1
<1>3. Lines * LineClocks = (line + 1) * LineClocks + d * LineClocks
  BY <1>1, <1>2
<1>4. d * LineClocks \in Nat /\ (line + 1) * LineClocks \in Nat
  BY <1>1
<1>5. FrameClocks = LineEnd + d * LineClocks
  BY <1>3 DEF FrameClocks, LineEnd
<1>6. LineEnd \in Nat
  BY <1>4 DEF LineEnd
<1> QED
  BY <1>4, <1>5, <1>6 DEF LastLine, LineEnd, FrameClocks

\* An instruction is fetched within a line, and is short.
LEMMA BoundaryStops ==
  ASSUME TypeOK, StopInv, Boundary
  PROVE  StopInv'
<1>1. /\ clock.mclk \in Nat /\ clock.mclk < FrameClocks /\ FrameClocks \in Nat
      /\ cpu \in Cpus /\ AtBoundary
  <2>1. AtBoundary
    BY DEF Boundary, StopFaults, TakeNmi, TakeIrq, WaitIdle, WakeByIrq, Fetch
  <2> QED
    BY <2>1, LineInFrame, TypeParts, CostTypes DEF AtBoundary, Clocks
<1>2. CASE StopFaults
  BY <1>1, <1>2 DEF StopFaults, AtBoundary, StopInv, devices
<1>3. CASE TakeNmi
  BY <1>1, <1>3 DEF TakeNmi, AtBoundary, StopInv
<1>4. CASE TakeIrq \/ WaitIdle
  BY <1>1, <1>4 DEF TakeIrq, WaitIdle, AtBoundary, StopInv, Cpus
<1>5. ASSUME NEW k \in FetchClocks, WakeByIrq(k) \/ Fetch(k)
      PROVE  StopInv'
  <2>1. /\ k \in Nat /\ EntryClocks \in Nat /\ IdleClocks \in Nat
        /\ EntryClocks + k + IdleClocks <= FrameClocks
    BY CostTypes, InstructionAssumption
  <2>2. \E n \in Nat : n <= EntryClocks + k /\ clock' = Tick(clock, n)
    <3>1. k \in Nat /\ EntryClocks + k \in Nat /\ k <= EntryClocks + k
      BY <2>1
    <3> QED
      BY <1>5, <3>1 DEF WakeByIrq, Fetch, Advance
  <2>3. clock'.mclk + IdleClocks < 2 * FrameClocks
    BY <1>1, <2>1, <2>2 DEF Tick
  <2>4. instr' = "inside" /\ cpu'.mode = "run" /\ stage' = "cpu"
    BY <1>1, <1>5 DEF WakeByIrq, Fetch, AtBoundary
  <2> QED
    BY <2>3, <2>4 DEF StopInv
<1> QED
  BY <1>2, <1>3, <1>4, <1>5 DEF Boundary

\* What an instruction does to the CPU and to the loop, whichever it is.
LEMMA ExecutePlaces ==
  ASSUME Execute
  PROVE  \/ Inside /\ \E m \in BOOLEAN : SetMask(m)
         \/ Inside /\ \E mode \in {"wait", "stopped"} : Halt(mode)
         \/ Inside /\ \E n \in Bursts : KickDma(n)
         \/ DmaSlot \/ DmaFaults
         \/ Inside /\ UNCHANGED stage /\ cpu' = cpu /\ instr' = "boundary"
<1> DEFINE Ends == Inside /\ UNCHANGED stage /\ cpu' = cpu /\ instr' = "boundary"
<1>1. ASSUME Plain
      PROVE  Ends
  BY <1>1 DEF Plain, Retire
<1>2. ASSUME NEW m \in BOOLEAN, SetMask(m)
      PROVE  Inside
  BY <1>2 DEF SetMask
<1>3. ASSUME NEW mode \in {"wait", "stopped"}, Halt(mode)
      PROVE  Inside
  BY <1>3 DEF Halt
<1>4. ASSUME NEW n \in Bursts, KickDma(n)
      PROVE  Inside
  BY <1>4 DEF KickDma
<1>5. ASSUME NEW w \in Nmitimens, WriteNmitimen(w)
      PROVE  Ends
  BY <1>5 DEF WriteNmitimen, Retire
<1>6. ASSUME NEW x \in Htimes, WriteHtime(x)
      PROVE  Ends
  BY <1>6 DEF WriteHtime, Retire
<1>7. ASSUME NEW x \in Vtimes, WriteVtime(x)
      PROVE  Ends
  BY <1>7 DEF WriteVtime, Retire
<1>8. ASSUME ReadRdnmi \/ ReadTimeup
      PROVE  Ends
  BY <1>8 DEF ReadRdnmi, ReadTimeup, Retire
<1>9. ASSUME NEW o \in BOOLEAN, WriteSetini(o) \/ WriteJoyStrobe(o)
      PROVE  Ends
  BY <1>9 DEF WriteSetini, WriteJoyStrobe, Retire
<1>10. ASSUME ReadJoySerial \/ AccessApu
      PROVE  Ends
  BY <1>10 DEF ReadJoySerial, AccessApu, Retire
<1>11. ASSUME FaultingWrite
      PROVE  Ends
  BY <1>11 DEF FaultingWrite, Retire
<1> HIDE DEF Ends
<1>12. \/ Ends \/ DmaSlot \/ DmaFaults
       \/ Inside /\ \E m \in BOOLEAN : SetMask(m)
       \/ Inside /\ \E mode \in {"wait", "stopped"} : Halt(mode)
       \/ Inside /\ \E n \in Bursts : KickDma(n)
  BY <1>1, <1>2, <1>3, <1>4, <1>5, <1>6, <1>7, <1>8, <1>9, <1>10, <1>11 DEF Execute
<1> QED
  BY <1>12 DEF Ends

\* It ends, a burst goes on, or the CPU stops.
LEMMA ExecuteStops ==
  ASSUME TypeOK, HistOK, StopInv, Execute
  PROVE  StopInv'
<1>1. /\ clock.mclk \in Nat /\ FrameClocks \in Nat /\ cpu \in Cpus /\ frame \in Nat
      /\ IdleClocks \in Nat /\ instr \in {"inside", "dma"} /\ cpu.mode = "run" /\ stage = "cpu"
  <2>1. Inside \/ DmaSlot \/ DmaFaults
    BY ExecutePlaces
  <2> QED
    BY <2>1, TypeParts, CostTypes DEF Inside, DmaSlot, DmaFaults, StopInv, Clocks
<1>2. ASSUME NEW mode \in {"wait", "stopped"}, Halt(mode)
      PROVE  StopInv'
  <2>1. /\ instr' = "boundary" /\ UNCHANGED <<stage, frame, fault>> /\ instr = "inside"
        /\ hist'.stop = frame
        /\ clock'.mclk = clock.mclk + IdleClocks
    BY <1>2 DEF Halt, Inside, Retire, HistOK, HistFields, Tick
  <2>2. clock'.mclk < 2 * FrameClocks
    BY <2>1 DEF StopInv
  <2> QED
    BY <1>1, <2>1, <2>2 DEF StopInv
<1>3. CASE /\ UNCHANGED stage /\ cpu'.mode = cpu.mode /\ instr' \in {"boundary", "dma"}
  BY <1>1, <1>3 DEF StopInv
<1>4. ASSUME NEW m \in BOOLEAN, SetMask(m)
      PROVE  UNCHANGED stage /\ cpu'.mode = cpu.mode /\ instr' = "boundary"
  BY <1>1, <1>4 DEF SetMask, Retire, Cpus
<1>5. CASE \/ DmaSlot \/ DmaFaults \/ \E n \in Bursts : KickDma(n)
  <2>1. UNCHANGED stage /\ cpu' = cpu /\ instr' \in {"boundary", "dma"}
    BY <1>5 DEF KickDma, DmaSlot, DmaFaults
  <2> QED
    BY <1>3, <2>1
<1>6. CASE UNCHANGED stage /\ cpu' = cpu /\ instr' = "boundary"
  BY <1>3, <1>6
<1> QED
  BY <1>2, <1>3, <1>4, <1>5, <1>6, ExecutePlaces

ContractInv == HistOK /\ CountInv /\ VBlankInv /\ StopInv

LEMMA StartFrameContract ==
  ASSUME TypeOK, PlaceOK, ContractInv, NEW p \in PadWords, StartFrame(p)
  PROVE  ContractInv'
<1>1. /\ clock.mclk \in Nat /\ FrameClocks \in Nat /\ frame \in Nat /\ HistOK /\ StopInv
      /\ timer' = timer
      /\ clock'.mclk = IF clock.mclk >= FrameClocks THEN clock.mclk - FrameClocks
                       ELSE clock.mclk
  BY StartFrameStep, TypeParts, CostTypes DEF Clocks, ContractInv
<1>2. /\ DOMAIN hist' = HistFields /\ hist'.entry = clock'.mclk /\ hist'.irqs = 0
      /\ hist'.vblanks = 0 /\ hist'.stop = hist.stop
  BY <1>1 DEF StartFrame, HistOK, HistFields
<1>3. HistOK'
  BY <1>1, <1>2 DEF HistOK
<1>4. CountInv'
  <2>1. VPosition(timer)' = VPosition(timer) /\ VPosition(timer) \in Nat
    BY <1>1, TypeParts, PositionType DEF VPosition, HOffset
  <2> QED
    BY <1>1, <1>2, <2>1 DEF CountInv
<1>5. VBlankInv'
  <2>1. line' = 0 /\ nmi'.flag = FALSE /\ stage' = "cpu"
    BY TypeParts DEF StartFrame, Nmis
  <2>2. VBlankStart' > 0
    BY FrameAssumption DEF VBlankStart
  <2>3. VBlankStart' \in Nat
    BY FrameAssumption DEF VBlankStart
  <2> QED
    BY <1>2, <2>1, <2>2, <2>3 DEF VBlankInv, FrameDone
<1>6. StopInv'
  <2>1. /\ stage = "between" /\ fault = "none" /\ stage' = "cpu"
        /\ UNCHANGED <<cpu, instr, frame, fault>>
    BY DEF StartFrame
  <2>2. instr = "boundary"
    BY <1>1, <2>1 DEF StopInv
  <2>3. ASSUME cpu.mode = "stopped"
        PROVE  frame = hist.stop + 1 /\ clock'.mclk < FrameClocks
    BY <1>1, <2>1, <2>3 DEF StopInv, HistOK
  <2> QED
    BY <1>1, <1>2, <2>1, <2>2, <2>3 DEF StopInv, HistOK
<1> QED
  BY <1>3, <1>4, <1>5, <1>6 DEF ContractInv

LEMMA StartLineContract ==
  ASSUME TypeOK, PlaceOK, ContractInv, StartLine
  PROVE  ContractInv'
<1>1. /\ stage = "line" /\ line' = line + 1 /\ line \in Nat /\ HistOK /\ nmi \in Nmis
      /\ UNCHANGED <<clock, timer, cpu, instr, frame>>
      /\ \/ stage' = "cpu" /\ fault' = fault
         \/ stage' = "between" /\ fault' = "Hdma"
  BY TypeParts DEF StartLine, ContractInv
<1>2. VBlankStart' = VBlankStart /\ VBlankStart \in Nat
  BY StartLineStep, FrameAssumption DEF SamePicture, VBlankStart
<1>3. /\ DOMAIN hist' = HistFields
      /\ UNCHANGED <<hist.entry, hist.irqs, hist.touched, hist.stop>>
      /\ hist'.vblanks = IF line' = VBlankStart THEN hist.vblanks + 1 ELSE hist.vblanks
  <2>1. CASE line' = VBlankStart /\ hist' = [hist EXCEPT !.vblanks = @ + 1,
                                 !.auto = auto.enabled,
                                 !.serial = IF auto.enabled THEN <<>> ELSE @,
                                 !.latched = IF auto.enabled THEN joypad.pad ELSE @]
    BY <1>1, <2>1 DEF HistOK, HistFields
  <2>2. CASE line' # VBlankStart /\ hist' = hist
    BY <1>1, <2>2 DEF HistOK
  <2>3. VBlankStart + BusyLines # VBlankStart
    BY <1>2, FrameAssumption
  <2> QED
    BY <2>1, <2>2, <2>3 DEF StartLine
<1>4. hist'.vblanks \in Nat /\ HistOK'
  BY <1>1, <1>3 DEF HistOK
<1>5. CountInv'
  <2>1. VPosition(timer)' = VPosition(timer)
    BY <1>1 DEF VPosition, HOffset
  <2> QED
    BY <1>1, <1>3, <2>1 DEF ContractInv, CountInv, InRange
<1>6. VBlankInv'
  <2>1. hist'.vblanks = IF line' >= VBlankStart THEN 1 ELSE 0
    BY <1>1, <1>2, <1>3 DEF ContractInv, VBlankInv
  <2>2. nmi'.flag => nmi.flag \/ line' = VBlankStart
    BY <1>1 DEF StartLine
  <2>3. ~FrameDone'
    BY <1>1 DEF FrameDone
  <2> QED
    BY <1>1, <1>2, <2>1, <2>2, <2>3 DEF ContractInv, VBlankInv
<1>7. StopInv'
  BY <1>1, <1>3 DEF ContractInv, StopInv
<1> QED
  BY <1>4, <1>5, <1>6, <1>7 DEF ContractInv

LEMMA EndLineContract ==
  ASSUME TypeOK, PlaceOK, ContractInv, EndLine
  PROVE  ContractInv'
<1>1. /\ stage = "cpu" /\ instr = "boundary" /\ fault = "none" /\ clock.mclk >= LineEnd
      /\ UNCHANGED <<line, clock, timer, nmi, cpu, instr, hist>>
      /\ line \in Nat /\ frame \in Nat /\ clock.mclk \in Nat /\ FrameClocks \in Nat
      /\ screen \in Screens
  BY TypeParts, CostTypes DEF EndLine, Clocks
<1>2. HistOK' /\ CountInv'
  BY <1>1 DEF ContractInv, HistOK, CountInv, InRange, VPosition, HOffset
<1>3. screen'.overscan = screen.overscan
  BY <1>1 DEF EndLine, Screens
<1>4. \/ stage' = "between" /\ fault' = "Apu" /\ frame' = frame
      \/ stage' = "line" /\ fault' = "none" /\ frame' = frame
      \/ LastLine /\ stage' = "between" /\ fault' = "none" /\ frame' = frame + 1
  BY <1>1 DEF EndLine
<1>5. VBlankInv'
  BY <1>1, <1>3, <1>4, CostTypes DEF ContractInv, VBlankInv, FrameDone, VBlankStart, LastLine
<1>6. StopInv'
  <2>1. LastLine => clock.mclk >= FrameClocks
    BY <1>1, LineInFrame
  <2> QED
    BY <1>1, <1>4, <2>1 DEF ContractInv, HistOK, StopInv
<1> QED
  BY <1>2, <1>5, <1>6 DEF ContractInv

LEMMA CpuContract ==
  ASSUME TypeOK, PlaceOK, VArmed, ContractInv, Boundary \/ Execute
  PROVE  ContractInv'
<1>1. Heard /\ Quiet
  BY BoundaryHeard, ExecuteHeard, QuietSteps DEF ContractInv
<1>2. HistOK'
  BY <1>1 DEF ContractInv, HistOK, Heard, KeepsFrame
<1>3. CountInv'
  BY <1>1, CountStep DEF ContractInv
<1>4. VBlankInv'
  BY <1>1 DEF ContractInv, Heard, KeepsFrame, Quiet, SamePicture, VBlankInv, VBlankStart,
     FrameDone
<1>5. StopInv'
  BY BoundaryStops, ExecuteStops DEF ContractInv
<1> QED
  BY <1>2, <1>3, <1>4, <1>5 DEF ContractInv

LEMMA ContractStep ==
  ASSUME TypeOK, PlaceOK, VArmed, ContractInv, [Next]_vars
  PROVE  ContractInv'
<1>1. CASE Abort
  BY <1>1 DEF Abort, devices, ContractInv, HistOK, CountInv, InRange, VPosition, HOffset,
     VBlankInv, VBlankStart, FrameDone, StopInv
<1>2. CASE UNCHANGED vars
  BY <1>2 DEF vars, ContractInv, HistOK, CountInv, InRange, VPosition, HOffset,
     VBlankInv, VBlankStart, FrameDone, StopInv
<1> QED
  BY <1>1, <1>2, StartFrameContract, StartLineContract, EndLineContract, CpuContract
  DEF Next, Call

LEMMA InitContract == Init => ContractInv
<1> SUFFICES ASSUME Init PROVE ContractInv
  OBVIOUS
<1>1. HistOK
  BY DEF Init, HistOK, HistFields
<1>2. CountInv
  BY DEF Init, CountInv
<1>3. VBlankInv
  BY FrameAssumption DEF Init, VBlankInv, VBlankStart, FrameDone
<1>4. StopInv
  BY DEF Init, StopInv
<1> QED
  BY <1>1, <1>2, <1>3, <1>4 DEF ContractInv

\* What a frame guarantees whatever the program does in it: the timer fires once if its
\* position is passed and not otherwise, there is one vblank, whose flag is up only in it,
\* and a CPU that stops is noticed in the next frame.
THEOREM FrameContractHolds == Spec => []FrameContract
<1>1. Init => ContractInv
  BY InitContract
<1>2. (TypeOK /\ PlaceOK) /\ VArmed /\ ContractInv /\ [Next]_vars => ContractInv'
  BY ContractStep
<1>3. TypeOK /\ VArmed /\ ContractInv => FrameContract
  <2> SUFFICES ASSUME TypeOK, VArmed, ContractInv PROVE FrameContract
    OBVIOUS
  <2>1. VFiresOnce
    BY DEF ContractInv, CountInv, VFiresOnce
  <2>2. VBlankOncePerFrame
    <3>1. VBlankStart <= Lines - 1 /\ VBlankStart \in Nat /\ Lines \in Nat
      BY FrameAssumption DEF VBlankStart
    <3> QED
      BY <3>1, TypeParts DEF ContractInv, VBlankInv, VBlankOncePerFrame
  <2>3. StopIsLoud
    BY DEF ContractInv, StopInv, StopIsLoud
  <2> QED
    BY <2>1, <2>2, <2>3 DEF FrameContract
<1> QED
  BY <1>1, <1>2, <1>3, TypeAndPlace, VInterruptArmed, PTL DEF Spec

-----------------------------------------------------------------------------
(* The pads: what a program reads from the registers and the serial port.  *)

PadHist ==
  /\ hist.latched \in SUBSET PadBits
  /\ hist.serial \in Seq(BOOLEAN) /\ Len(hist.serial) <= WordBits + 1
  /\ joypad.joy1 = NativeWord(hist.latched)
  /\ hist.auto => hist.latched = joypad.pad
  /\ joypad.shift = IF Len(hist.serial) <= WordBits THEN Len(hist.serial) ELSE WordBits
  /\ SerialSpellsLatchedPad

\* What the history of the pads is: the fields, in this order.
PadStays == UNCHANGED <<hist.latched, hist.serial, joypad.joy1, joypad.shift>>
SamePad == UNCHANGED <<joypad.pad, hist.auto>>
Strobes == PadStays /\ SamePad
NewPad == PadStays /\ hist'.auto = FALSE
Latches ==
  /\ joypad'.pad = joypad.pad /\ joypad'.joy1 = NativeWord(joypad.pad) /\ joypad'.shift = 0
  /\ hist'.serial = <<>> /\ hist'.latched = joypad.pad
Reads ==
  /\ SamePad /\ UNCHANGED <<hist.latched, joypad.joy1>>
  /\ ~joypad.strobe
  /\ joypad'.shift = IF joypad.shift = WordBits THEN joypad.shift ELSE joypad.shift + 1
  /\ hist'.serial = IF Len(hist.serial) > WordBits THEN hist.serial
                    ELSE Append(hist.serial, SerialBit(joypad))

\* The bits of a word, seen from the buttons: bit 16 - n of the console's word is the
\* n-th button of the serial order, and no other bit is ever one.
LEMMA WordSpellsPad ==
  ASSUME NEW p \in SUBSET PadBits, NEW n \in 1..16
  PROVE  16 - n \in NativeWord(p) <=> n <= 12 /\ SerialButton[n] \in p
<1>1. NativeWord(p) = {NativeBit[b + 1] : b \in p}
  <2>1. p \cap PadBits = p
    OBVIOUS
  <2>2. QED
    BY <2>1 DEF NativeWord
<1>2. \A b \in PadBits : b \in 0..11
  BY DEF PadBits
<1>3. CASE n <= 12
  <2>1. SerialButton[n] \in PadBits /\ NativeBit[SerialButton[n] + 1] = 16 - n
    BY <1>3 DEF SerialButton, NativeBit, PadBits
  <2>2. ASSUME NEW b \in PadBits, NativeBit[b + 1] = 16 - n PROVE b = SerialButton[n]
    BY <1>3, <1>2, <2>2 DEF SerialButton, NativeBit
  <2>3. QED
    BY <1>1, <1>3, <2>1, <2>2
<1>4. CASE n > 12
  <2>1. \A b \in PadBits : NativeBit[b + 1] > 3
    BY DEF NativeBit, PadBits
  <2>2. QED
    BY <1>1, <1>4, <2>1
<1>5. QED
  BY <1>3, <1>4

\* A read that the port answers from its register returns the bit that is due.
LEMMA ReadSpells ==
  ASSUME PadHist, ~joypad.strobe, Len(hist.serial) <= WordBits
  PROVE  /\ SerialBit(joypad) \in BOOLEAN
         /\ SerialBit(joypad) = ExpectedBit(hist.latched, Len(hist.serial) + 1)
<1> DEFINE k == Len(hist.serial)
<1>1. k \in Nat /\ k <= 16 /\ joypad.shift = k
  BY DEF PadHist, WordBits
<1>2. SerialBit(joypad) <=> (k = 16 \/ 15 - k \in NativeWord(hist.latched))
  BY <1>1 DEF PadHist, SerialBit, WordBits
<1>3. ExpectedBit(hist.latched, k + 1)
        <=> (k + 1 <= 12 /\ SerialButton[k + 1] \in hist.latched) \/ k + 1 > 16
  BY DEF ExpectedBit, SerialButton, WordBits
<1>4. SerialBit(joypad) \in BOOLEAN /\ ExpectedBit(hist.latched, k + 1) \in BOOLEAN
  BY DEF SerialBit, ExpectedBit
<1> HIDE DEF k
<1>5. ASSUME k = 16 PROVE SerialBit(joypad) = ExpectedBit(hist.latched, k + 1)
  <2>1. SerialBit(joypad) /\ ExpectedBit(hist.latched, k + 1)
    BY <1>2, <1>3, <1>5
  <2>2. QED
    BY <1>4, <2>1
<1>6. ASSUME k < 16 PROVE SerialBit(joypad) = ExpectedBit(hist.latched, k + 1)
  <2>1. k + 1 \in 1..16 /\ 16 - (k + 1) = 15 - k
    BY <1>1, <1>6
  <2>2. 15 - k \in NativeWord(hist.latched)
          <=> k + 1 <= 12 /\ SerialButton[k + 1] \in hist.latched
    BY <2>1, WordSpellsPad DEF PadHist
  <2>3. SerialBit(joypad) <=> ExpectedBit(hist.latched, k + 1)
    BY <1>1, <1>2, <1>3, <1>6, <2>2
  <2>4. QED
    BY <1>4, <2>3
<1>7. SerialBit(joypad) = ExpectedBit(hist.latched, k + 1)
  BY <1>1, <1>5, <1>6
<1>8. QED
  BY <1>4, <1>7 DEF k

LEMMA PadKept ==
  ASSUME PadHist, joypad.pad \in SUBSET PadBits, Strobes \/ NewPad \/ Latches \/ Reads
  PROVE  PadHist'
<1>1. CASE Strobes \/ NewPad
  BY <1>1 DEF Strobes, NewPad, PadStays, SamePad, PadHist, SerialSpellsLatchedPad
<1>2. CASE Latches
  <2>1. /\ hist'.latched \in SUBSET PadBits
        /\ hist'.serial \in Seq(BOOLEAN) /\ Len(hist'.serial) = 0
        /\ joypad'.joy1 = NativeWord(hist'.latched) /\ hist'.latched = joypad'.pad
        /\ DOMAIN hist'.serial = {}
    BY <1>2 DEF Latches
  <2>2. joypad'.shift = 0
    BY <1>2 DEF Latches
  <2>3. QED
    BY <2>1, <2>2 DEF PadHist, SerialSpellsLatchedPad, WordBits
<1>3. CASE Reads
  <2>1. CASE Len(hist.serial) > WordBits
    <3>1. UNCHANGED <<hist.serial, joypad.shift>>
      BY <1>3, <2>1 DEF Reads, PadHist, WordBits
    <3>2. QED
      BY <1>3, <3>1 DEF Reads, SamePad, PadHist, SerialSpellsLatchedPad
  <2>2. CASE Len(hist.serial) <= WordBits
    <3> DEFINE s == hist.serial
               b == SerialBit(joypad)
    <3>1. /\ b \in BOOLEAN /\ b = ExpectedBit(hist.latched, Len(s) + 1)
          /\ s \in Seq(BOOLEAN) /\ Len(s) \in Nat /\ Len(s) <= 16
          /\ joypad.shift = Len(s)
      BY <1>3, <2>2, ReadSpells DEF Reads, PadHist, WordBits
    <3>2. hist'.serial = Append(s, b)
      BY <1>3, <2>2, <3>1 DEF Reads, WordBits
    <3> HIDE DEF s, b
    <3>3. /\ hist'.serial \in Seq(BOOLEAN) /\ Len(hist'.serial) = Len(s) + 1
          /\ hist'.serial[Len(s) + 1] = b /\ \A n \in 1..Len(s) : hist'.serial[n] = s[n]
          /\ DOMAIN hist'.serial = 1..(Len(s) + 1) /\ DOMAIN s = 1..Len(s)
      BY <3>1, <3>2, AppendProperties, LenProperties
    <3>4. SerialSpellsLatchedPad'
      <4> SUFFICES ASSUME NEW n \in 1..(Len(s) + 1)
                   PROVE  hist'.serial[n] = ExpectedBit(hist.latched, n)
        BY <1>3, <3>3 DEF SerialSpellsLatchedPad, Reads
      <4>1. CASE n = Len(s) + 1
        BY <3>1, <3>3, <4>1
      <4>2. CASE n \in 1..Len(s)
        BY <3>3, <4>2 DEF PadHist, SerialSpellsLatchedPad, s
      <4>3. QED
        BY <3>1, <4>1, <4>2
    <3>5. joypad'.shift = IF Len(s) = 16 THEN 16 ELSE Len(s) + 1
      BY <1>3, <3>1 DEF Reads, WordBits
    <3>6. /\ hist'.latched \in SUBSET PadBits /\ joypad'.joy1 = NativeWord(hist'.latched)
          /\ hist'.auto => hist'.latched = joypad'.pad
      BY <1>3 DEF Reads, SamePad, PadHist
    <3>7. /\ Len(hist'.serial) <= WordBits + 1
          /\ joypad'.shift = IF Len(hist'.serial) <= WordBits THEN Len(hist'.serial)
                             ELSE WordBits
      <4> DEFINE k == Len(s)
                 len == Len(hist'.serial)
      <4>1. k \in Nat /\ k <= 16 /\ len = k + 1
        BY <3>1, <3>3
      <4>2. joypad'.shift = IF k = 16 THEN 16 ELSE k + 1
        BY <3>5
      <4> HIDE DEF k, len
      <4>3. len <= 17 /\ joypad'.shift = IF len <= 16 THEN len ELSE 16
        BY <4>1, <4>2
      <4>4. QED
        BY <4>3 DEF len, WordBits
    <3>8. QED
      BY <3>3, <3>4, <3>6, <3>7 DEF PadHist
  <2>3. QED
    BY <2>1, <2>2 DEF PadHist, WordBits
<1>4. QED
  BY <1>1, <1>2, <1>3

\* What the steps of the scheduler do to the pads.
LEMMA HistStays ==
  ASSUME HistOK, NEW h, hist' = [hist EXCEPT !.irqs = h]
  PROVE  UNCHANGED <<hist.latched, hist.serial, hist.auto>>
  BY DEF HistOK, HistFields

LEMMA ReprogramPads ==
  ASSUME HistOK, NEW t, Reprogram(t)
  PROVE  UNCHANGED <<hist.latched, hist.serial, hist.auto>>
  BY DEF HistOK, HistFields, Reprogram

LEMMA StrobesWhen ==
  ASSUME UNCHANGED <<joypad, hist.latched, hist.serial, hist.auto>> PROVE Strobes
  BY DEF Strobes, PadStays, SamePad

LEMMA BoundaryPads == HistOK /\ Boundary => Strobes
<1> SUFFICES ASSUME HistOK, Boundary PROVE Strobes
  OBVIOUS
<1>1. CASE StopFaults
  BY <1>1, StrobesWhen DEF StopFaults, devices
<1>2. CASE TakeNmi \/ TakeIrq \/ WaitIdle
  BY <1>2, HistStays, StrobesWhen DEF TakeNmi, TakeIrq, WaitIdle, Advance, devices
<1>3. CASE \E k \in FetchClocks : WakeByIrq(k) \/ Fetch(k)
  BY <1>3, HistStays, StrobesWhen DEF WakeByIrq, Fetch, Advance, devices
<1>4. QED
  BY <1>1, <1>2, <1>3 DEF Boundary

LEMMA ExecutePads == HistOK /\ TypeOK /\ Execute => Strobes \/ Latches \/ Reads
<1> SUFFICES ASSUME HistOK, TypeOK, Execute PROVE Strobes \/ Latches \/ Reads
  OBVIOUS
<1> USE DEF devices
<1>0. joypad \in Joypads
  BY DEF TypeOK
<1>1. CASE Plain \/ (\E m \in BOOLEAN : SetMask(m)) \/ DmaFaults
  BY <1>1, StrobesWhen DEF Plain, SetMask, DmaFaults
<1>2. CASE \E mode \in {"wait", "stopped"} : Halt(mode)
  BY <1>2, StrobesWhen DEF Halt, HistOK, HistFields
<1>3. CASE \/ \E w \in Nmitimens : WriteNmitimen(w)
           \/ \E x \in Htimes : WriteHtime(x)
           \/ \E x \in Vtimes : WriteVtime(x)
  <2>1. PICK n : hist' = [hist EXCEPT !.touched = TRUE, !.irqs = n]
    <3>1. CASE \E w \in Nmitimens : WriteNmitimen(w)
      BY <3>1, Zenon DEF WriteNmitimen, Reprogram
    <3>2. CASE \E x \in Htimes : WriteHtime(x)
      BY <3>2, Zenon DEF WriteHtime, Reprogram
    <3>3. CASE \E x \in Vtimes : WriteVtime(x)
      BY <3>3, Zenon DEF WriteVtime, Reprogram
    <3>4. QED
      BY <1>3, <3>1, <3>2, <3>3, Zenon
  <2>2. joypad' = joypad
    BY <1>3, Zenon DEF WriteNmitimen, WriteHtime, WriteVtime
  <2>3. UNCHANGED <<hist.latched, hist.serial, hist.auto>>
    BY <2>1 DEF HistOK, HistFields
  <2>4. QED
    BY <2>2, <2>3, StrobesWhen
<1>4. CASE ReadRdnmi \/ ReadTimeup \/ AccessApu \/ FaultingWrite \/ DmaSlot
  BY <1>4, HistStays, StrobesWhen DEF ReadRdnmi, ReadTimeup, AccessApu, FaultingWrite,
     DmaSlot, Advance
<1>5. CASE \E o \in BOOLEAN : WriteSetini(o)
  BY <1>5, HistStays, StrobesWhen DEF WriteSetini, Advance
<1>6. CASE \E n \in Bursts : KickDma(n)
  BY <1>6, HistStays, StrobesWhen DEF KickDma, Advance
<1>7. ASSUME NEW o \in BOOLEAN, WriteJoyStrobe(o)
      PROVE  Strobes \/ Latches \/ Reads
  <2>1. CASE joypad.strobe /\ ~o
    <3>1. joypad' = [Latch(joypad) EXCEPT !.strobe = FALSE]
      BY <1>7, <2>1 DEF WriteJoyStrobe, WriteStrobe
    <3>2. /\ joypad'.pad = joypad.pad /\ joypad'.joy1 = NativeWord(joypad.pad)
          /\ joypad'.shift = 0
      BY <1>0, <3>1 DEF Latch, Joypads
    <3>3. hist'.serial = <<>> /\ hist'.latched = joypad.pad /\ hist'.auto = hist.auto
      BY <1>7, <2>1 DEF WriteJoyStrobe, HistOK, HistFields
    <3>4. QED
      BY <3>2, <3>3 DEF Latches
  <2>2. CASE ~(joypad.strobe /\ ~o)
    <3>1. joypad' = [joypad EXCEPT !.strobe = o]
      BY <1>7, <2>2 DEF WriteJoyStrobe, WriteStrobe
    <3>2. UNCHANGED <<joypad.pad, joypad.joy1, joypad.shift>>
      BY <1>0, <3>1 DEF Joypads
    <3>3. UNCHANGED <<hist.serial, hist.latched, hist.auto>>
      BY <1>7, <2>2 DEF WriteJoyStrobe, HistOK, HistFields
    <3>4. QED
      BY <3>2, <3>3 DEF Strobes, PadStays, SamePad
  <2>3. QED
    BY <2>1, <2>2
<1>8. CASE ReadJoySerial
  <2>1. /\ UNCHANGED <<hist.latched, hist.auto>>
        /\ hist'.serial = IF joypad.strobe \/ Len(hist.serial) > WordBits THEN hist.serial
                          ELSE Append(hist.serial, SerialBit(joypad))
        /\ joypad' = ReadSerial(joypad)
    BY <1>8 DEF ReadJoySerial, HistOK, HistFields
  <2>2. CASE joypad.strobe
    BY <2>1, <2>2, StrobesWhen DEF ReadSerial
  <2>3. CASE ~joypad.strobe
    <3>1. /\ UNCHANGED <<joypad.pad, joypad.joy1>>
          /\ joypad'.shift = IF joypad.shift = WordBits THEN joypad.shift
                             ELSE joypad.shift + 1
      BY <1>0, <2>1, <2>3 DEF ReadSerial, Joypads
    <3>2. QED
      BY <2>1, <2>3, <3>1 DEF Reads, SamePad
  <2>4. QED
    BY <2>2, <2>3
<1>9. QED
  BY <1>1, <1>2, <1>3, <1>4, <1>5, <1>6, <1>7, <1>8 DEF Execute

LEMMA PadStep == HistOK /\ TypeOK /\ PadHist /\ [Next]_vars => PadHist'
<1> SUFFICES ASSUME HistOK, TypeOK, PadHist, [Next]_vars PROVE PadHist'
  OBVIOUS
<1>0. joypad \in Joypads /\ joypad.pad \in SUBSET PadBits
  BY DEF TypeOK, Joypads
<1>1. ASSUME NEW p \in PadWords, StartFrame(p) PROVE NewPad
  <2>1. /\ joypad' = [joypad EXCEPT !.pad = p \cap PadBits]
        /\ UNCHANGED <<hist.latched, hist.serial>> /\ hist'.auto = FALSE
    BY <1>1 DEF StartFrame, HistOK, HistFields
  <2>2. UNCHANGED <<joypad.joy1, joypad.shift>>
    BY <1>0, <2>1 DEF Joypads
  <2>3. QED
    BY <2>1, <2>2 DEF NewPad, PadStays
<1>2. CASE StartLine
  <2>1. CASE line' = VBlankStart /\ auto.enabled
    <3>0. line' # VBlankStart + BusyLines
      BY <2>1, FrameAssumption DEF VBlankStart
    <3>1. joypad' = Latch(joypad)
      <4>1. joypad' = AutoRead(joypad)
        BY <1>2, <2>1, <3>0 DEF StartLine
      <4>2. QED
        BY <4>1 DEF AutoRead
    <3>2. /\ joypad'.pad = joypad.pad /\ joypad'.joy1 = NativeWord(joypad.pad)
          /\ joypad'.shift = 0
      BY <1>0, <3>1 DEF Latch, Joypads
    <3>3. hist'.serial = <<>> /\ hist'.latched = joypad.pad
      <4>1. hist' = [hist EXCEPT !.vblanks = @ + 1,
                                 !.auto = auto.enabled,
                                 !.serial = IF auto.enabled THEN <<>> ELSE @,
                                 !.latched = IF auto.enabled THEN joypad.pad ELSE @]
        BY <1>2, <2>1, <3>0 DEF StartLine
      <4>2. QED
        BY <2>1, <4>1 DEF HistOK, HistFields
    <3>4. QED
      BY <1>0, <3>2, <3>3, PadKept DEF Latches
  <2>2. CASE line' = VBlankStart /\ ~auto.enabled
    <3>0. line' # VBlankStart + BusyLines
      BY <2>2, FrameAssumption DEF VBlankStart
    <3>1. /\ joypad' = joypad /\ UNCHANGED <<hist.latched, hist.serial>>
          /\ hist'.auto = FALSE
      <4>1. auto.enabled = FALSE
        BY <2>2, TypeParts DEF Autos
      <4>2. joypad' = joypad
        BY <1>2, <2>2, <3>0 DEF StartLine
      <4>3. hist' = [hist EXCEPT !.vblanks = @ + 1,
                                 !.auto = auto.enabled,
                                 !.serial = IF auto.enabled THEN <<>> ELSE @,
                                 !.latched = IF auto.enabled THEN joypad.pad ELSE @]
        BY <1>2, <2>2, <3>0 DEF StartLine
      <4>4. QED
        BY <4>1, <4>2, <4>3 DEF HistOK, HistFields
    <3>2. QED
      BY <1>0, <3>1, PadKept DEF NewPad, PadStays
  <2>3. CASE line' # VBlankStart
    BY <1>0, <1>2, <2>3, StrobesWhen, PadKept DEF StartLine
  <2>4. QED
    BY <2>1, <2>2, <2>3
<1>3. CASE EndLine \/ Abort \/ UNCHANGED vars
  BY <1>0, <1>3, StrobesWhen, PadKept DEF EndLine, Abort, devices, vars
<1>4. QED
  BY <1>0, <1>1, <1>2, <1>3, BoundaryPads, ExecutePads, PadKept DEF Next, Call

\* Whatever the program does with the strobe, and however its serial reads fall between
\* the automatic ones and over frames, both ways to the pad show the pad that was latched.
THEOREM PadAsLatchedHolds == Spec => []PadAsLatched
<1>1. Init => ContractInv /\ PadHist
  <2> SUFFICES ASSUME Init PROVE ContractInv /\ PadHist
    OBVIOUS
  <2>1. ContractInv
    BY InitContract
  <2>2. NativeWord({}) = {}
    BY DEF NativeWord
  <2>3. Len(<<>>) = 0 /\ <<>> \in Seq(BOOLEAN) /\ DOMAIN <<>> = {}
    OBVIOUS
  <2>4. PadHist
    BY <2>2, <2>3 DEF Init, NewJoypad, PadHist, SerialSpellsLatchedPad, WordBits
  <2>5. QED
    BY <2>1, <2>4
<1>2. (TypeOK /\ PlaceOK) /\ VArmed /\ ContractInv /\ PadHist /\ [Next]_vars
        => ContractInv' /\ PadHist'
  BY ContractStep, PadStep DEF ContractInv
<1>3. PadHist => PadAsLatched
  BY DEF PadHist, PadAsLatched, PadVisibleAfterAutoRead, JoyRegister
<1>4. QED
  BY <1>1, <1>2, <1>3, TypeAndPlace, VInterruptArmed, PTL DEF Spec
=============================================================================

--------------------------------- MODULE Bus ---------------------------------
(***************************************************************************)
(* The system bus as a map of memories and registers: the two decoders of  *)
(* addresses, the processor's and that of the DMA channels, the cartridge, *)
(* the port into work memory, the arithmetic unit, the channels' registers *)
(* and the bytes a general transfer moves.  The picture unit's registers   *)
(* are those of PpuPorts; those of the timers, the pads and the audio unit *)
(* (FrameScheduler, Joypad, ApuPort) only give and take a byte here.       *)
(***************************************************************************)
EXTENDS PpuPorts, Sequences, SequencesExt

CONSTANTS
  Rom,        \* The cartridge's bytes that are not 0.
  RomSize, SramSize,
  Loaded,     \* What programs have written to work memory,
  Channels,   \* and to the registers of channels 0 and 1.
  Operations, \* What the processor does: reads and writes at addresses.
  Others,     \* Bytes the registers modelled elsewhere may show.
  MaxSteps,   \* How many operations there are (a bound),
  MaxBytes    \* and the bytes of a channel's transfer (a bound, unless a fault ends it).

PowersOf2 == {2^i : i \in 0..30}
ASSUME CartridgeAssumption ==
  /\ RomSize \in PowersOf2 /\ RomSize >= 32768
  /\ Word(Peek(Rom, \H7FFC), Peek(Rom, \H7FFD)) >= 32768
  /\ SramSize = 0 \/ (SramSize \in PowersOf2 /\ SramSize \in 2048..524288)

VARIABLES bus,  \* Memories, registers, the byte last on the bus, and the fault.
          did,  \* The last operation.
          steps

vars == <<bus, did, steps>>

NoFault == [kind |-> "none"]
UnmappedWrite(addr, v) == [kind |-> "UnmappedWrite", addr |-> addr, value |-> v]
Conflict(channels) == [kind |-> "HdmaDmaConflict", channels |-> channels]
File0 == [dmap |-> 0, bbad |-> 0, a1t |-> 0, a1b |-> 0, das |-> 0, dasb |-> 0, a2a |-> 0, ntrl |-> 0]
NewBus ==
  [wram |-> <<>>, sram |-> <<>>, ppu |-> NewPpu, mdr |-> 0, wmadd |-> 0, ch |-> [i \in 0..7 |-> File0],
   hdmaen |-> 0, fastRom |-> FALSE, wrio |-> 255, wrmpya |-> 255, wrdiv |-> 65535, rddiv |-> 0, rdmpy |-> 0,
   fault |-> NoFault, clock |-> 0]

Fault(b, f) == IF b.fault = NoFault THEN [b EXCEPT !.fault = f] ELSE b
Pay(b, clocks) == [b EXCEPT !.clock = @ + clocks]

(***************************************************************************)
(* Addresses.                                                              *)
(***************************************************************************)
Bank(addr) == addr \div 65536
Off(addr) == addr % 65536
System(addr) == Bank(addr) % 128 <= 63
WramBank(addr) == Bank(addr) \in {\H7E, \H7F}
LowMirror(addr) == System(addr) /\ Off(addr) < 8192
SramWindow(addr) == Bank(addr) \in (\H70..\H7D) \cup (\HF0..\HFD) /\ Off(addr) < 32768
SystemSpeed(addr) ==
  CASE Off(addr) \in \H2000..\H3FFF \cup \H4200..\H5FFF -> 6
    [] Off(addr) \in \H4000..\H41FF -> 12
    [] OTHER -> 8
MemSpeed(addr, fast) ==
  IF System(addr) /\ ~(Bank(addr) >= 128 /\ Off(addr) >= 32768) THEN SystemSpeed(addr)
  ELSE IF Bank(addr) >= 128 /\ fast THEN 6 ELSE 8

Open == -1
CartRead(b, addr) ==
  CASE Off(addr) >= 32768 /\ ~WramBank(addr) -> Peek(Rom, ((Bank(addr) % 128) * 32768 + Off(addr) - 32768) % RomSize)
    [] SramWindow(addr) /\ SramSize # 0 -> Peek(b.sram, addr % SramSize)
    [] OTHER -> Open
CartReadOr(b, addr, v) == LET c == CartRead(b, addr) IN IF c = Open THEN v ELSE c
CartWrite(b, addr, v) ==
  IF SramWindow(addr) /\ SramSize # 0 THEN [b EXCEPT !.sram = Poke(@, addr % SramSize, v)]
  ELSE Fault(b, UnmappedWrite(addr, v))

(***************************************************************************)
(* The port into work memory, and the registers of the channels.           *)
(***************************************************************************)
Wram(b, at, v) == [b EXCEPT !.wram = Poke(@, at, v)]
PortMoved(b) == [b EXCEPT !.wmadd = (@ + 1) % 131072]
PortWrite(b, v) == PortMoved(Wram(b, b.wmadd, v))
WriteWmadd(b, i, v) ==
  LET a == b.wmadd
  IN [b EXCEPT !.wmadd = CASE i = 0 -> (a \div 256) * 256 + v
                           [] i = 1 -> (a \div 65536) * 65536 + 256 * v + (a % 256)
                           [] i = 2 -> (v % 2) * 65536 + (a % 65536)]

ChannelRead(ch, reg) ==
  LET shown == <<ch.dmap, ch.bbad, Lo(ch.a1t), Hi(ch.a1t), ch.a1b, Lo(ch.das), Hi(ch.das), ch.dasb,
                 Lo(ch.a2a), Hi(ch.a2a), ch.ntrl>>
  IN IF reg + 1 \in DOMAIN shown THEN shown[reg + 1] ELSE Open
ChannelWrite(ch, reg, v) ==
  CASE reg = 0 -> [ch EXCEPT !.dmap = v]
    [] reg = 1 -> [ch EXCEPT !.bbad = v]
    [] reg = 2 -> [ch EXCEPT !.a1t = Word(v, Hi(@))]
    [] reg = 3 -> [ch EXCEPT !.a1t = Word(Lo(@), v)]
    [] reg = 4 -> [ch EXCEPT !.a1b = v]
    [] reg = 5 -> [ch EXCEPT !.das = Word(v, Hi(@))]
    [] reg = 6 -> [ch EXCEPT !.das = Word(Lo(@), v)]
    [] reg = 7 -> [ch EXCEPT !.dasb = v]
    [] reg = 8 -> [ch EXCEPT !.a2a = Word(v, Hi(@))]
    [] reg = 9 -> [ch EXCEPT !.a2a = Word(Lo(@), v)]
    [] reg = 10 -> [ch EXCEPT !.ntrl = v]
    [] OTHER -> ch

(***************************************************************************)
(* The two sides of the bus as a channel sees them: the processor's        *)
(* registers are hidden on the A side, and nothing is caught up or latched *)
(* before a register of the B side is read.                                *)
(***************************************************************************)
\* Mutant: only the mirror of the first banks is work memory.
AReadFirstBanks(b, addr) ==
  CASE System(addr) /\ Off(addr) \in \H2000..\H5FFF -> b.mdr
    [] WramBank(addr) -> Peek(b.wram, addr - \H7E0000)
    [] Bank(addr) <= 63 /\ Off(addr) < 8192 -> Peek(b.wram, Off(addr))
    [] OTHER -> CartReadOr(b, addr, b.mdr)
ARead(b, addr) ==
  CASE System(addr) /\ Off(addr) \in \H2000..\H5FFF -> b.mdr
    [] WramBank(addr) -> Peek(b.wram, addr - \H7E0000)
    [] LowMirror(addr) -> Peek(b.wram, Off(addr))
    [] OTHER -> CartReadOr(b, addr, b.mdr)
AWrite(b, addr, v) ==
  CASE System(addr) /\ Off(addr) \in \H2000..\H5FFF -> b
    [] WramBank(addr) -> Wram(b, addr - \H7E0000, v)
    [] LowMirror(addr) -> Wram(b, Off(addr), v)
    [] OTHER -> CartWrite(b, addr, v)
BRead(b, reg, other) ==
  CASE reg \in \H34..\H3F -> [b EXCEPT !.mdr = ReadValue(b.ppu, reg, @), !.ppu = ReadReg(@, reg)]
    [] reg \in \H40..\H7F -> [b EXCEPT !.mdr = other]
    [] reg = \H80 -> PortMoved([b EXCEPT !.mdr = Peek(b.wram, b.wmadd)])
    [] OTHER -> b
BWrite(b, reg, v) ==
  CASE reg \in 0..\H33 -> [b EXCEPT !.ppu = WriteReg(@, reg, v)]
    [] reg = \H80 -> PortWrite(b, v)
    [] reg \in \H81..\H83 -> WriteWmadd(b, reg - \H81, v)
    [] OTHER -> b

(***************************************************************************)
(* General transfers: the channels of a kick in turn, byte by byte.        *)
(***************************************************************************)
UnitPattern(dmap) ==
  <<<<0>>, <<0, 1>>, <<0, 0>>, <<0, 0, 1, 1>>, <<0, 1, 2, 3>>, <<0, 1, 0, 1>>, <<0, 0>>, <<0, 0, 1, 1>>>>[(dmap % 8) + 1]
AAddress(ch) == ch.a1b * 65536 + ch.a1t
MoveByte(b, i, n, other) ==
  LET ch == b.ch[i]
      pattern == UnitPattern(ch.dmap)
      reg == W8(ch.bbad + pattern[(n % Len(pattern)) + 1])
      read == BRead(b, reg, other)
  IN IF Bit(ch.dmap, 7) THEN AWrite(read, AAddress(ch), read.mdr)
     ELSE BWrite(b, reg, ARead(b, AAddress(ch)))
\* Mutant: the address is counted on into the next bank.
NextByteInBanks(b, i) ==
  LET ch == b.ch[i]
      step == IF Bit(ch.dmap, 3) THEN 0 ELSE IF Bit(ch.dmap, 4) THEN -1 ELSE 1
      a == W24(AAddress(ch) + step)
  IN Pay([b EXCEPT !.ch[i] = [ch EXCEPT !.a1t = Off(a), !.a1b = Bank(a), !.das = W16(@ - 1)]], 8)
NextByte(b, i) ==
  LET step(ch) == IF Bit(ch.dmap, 3) THEN 0 ELSE IF Bit(ch.dmap, 4) THEN -1 ELSE 1
  IN Pay([b EXCEPT !.ch[i].a1t = W16(@ + step(b.ch[i])), !.ch[i].das = W16(@ - 1)], 8)
RECURSIVE Transfer(_, _, _, _, _)
\* Mutant: the fault is looked at after the registers have moved on.
RECURSIVE TransferPast(_, _, _, _, _)
TransferPast(b, i, n, left, other) ==
  IF left = 0 \/ b.fault # NoFault THEN b
  ELSE TransferPast(NextByte(MoveByte(b, i, n, other), i), i, n + 1, left - 1, other)
Transfer(b, i, n, left, other) ==
  IF left = 0 \/ b.fault # NoFault THEN b
  ELSE LET moved == MoveByte(b, i, n, other)
       IN IF moved.fault # NoFault THEN moved
          ELSE Transfer(NextByte(moved, i), i, n + 1, left - 1, other)
ByteCount(ch) == IF ch.das = 0 THEN 65536 ELSE ch.das
ExecuteDma(b, mask, other) ==
  LET chosen == SelectSeq(<<0, 1, 2, 3, 4, 5, 6, 7>>, LAMBDA i : Bit(mask, i))
  IN FoldLeft(LAMBDA c, i : Transfer(Pay(c, 8), i, 0, Min({ByteCount(c.ch[i]), MaxBytes}), other), Pay(b, 12), chosen)
Kick(b, mask, other) ==
  LET both == And(mask, b.hdmaen)
  IN CASE mask = 0 -> b
       [] mask # 0 /\ both # 0 -> Fault(b, Conflict(both))
       [] mask # 0 /\ both = 0 -> ExecuteDma(b, mask, other)

(***************************************************************************)
(* The processor's side.  Elsewhere is what the other modules answer for.  *)
(***************************************************************************)
Elsewhere(off) ==
  off \in \H2140..\H217F \cup {\H4016, \H4017} \cup \H4210..\H4212 \cup \H4218..\H421F
Show(b, v) == [b EXCEPT !.mdr = v]
ReadPpu(b, reg, dot) ==
  IF reg <= \H33 THEN b
  ELSE LET q == IF reg = \H37 THEN LatchCounters(b.ppu, dot) ELSE b.ppu
       IN [Show(b, ReadValue(q, reg, b.mdr)) EXCEPT !.ppu = ReadReg(q, reg)]
ReadSystem(b, addr, other) ==
  LET off == Off(addr)
  IN CASE off < 8192 -> Show(b, Peek(b.wram, off))
       [] off \in \H2100..\H213F -> ReadPpu(b, off - \H2100, other)
       [] Elsewhere(off) -> Show(b, other)
       [] off = \H2180 -> PortMoved(Show(b, Peek(b.wram, b.wmadd)))
       [] off = \H4213 -> Show(b, b.wrio)
       [] off \in {\H4214, \H4215} -> Show(b, IF off = \H4214 THEN Lo(b.rddiv) ELSE Hi(b.rddiv))
       [] off \in {\H4216, \H4217} -> Show(b, IF off = \H4216 THEN Lo(b.rdmpy) ELSE Hi(b.rdmpy))
       [] off \in \H4300..\H437F ->
            LET v == ChannelRead(b.ch[(off - \H4300) \div 16], off % 16) IN IF v = Open THEN b ELSE Show(b, v)
       [] off >= 32768 -> Show(b, CartReadOr(b, addr, b.mdr))
       [] OTHER -> b
BusRead(b, addr, other) ==
  LET paid == Pay(b, MemSpeed(addr, b.fastRom))
  IN CASE WramBank(addr) -> Show(paid, Peek(b.wram, addr - \H7E0000))
       [] System(addr) -> ReadSystem(paid, addr, other)
       [] OTHER -> Show(paid, CartReadOr(b, addr, b.mdr))

Multiply(b, v) == [b EXCEPT !.rdmpy = b.wrmpya * v]
Divide(b, v) == [b EXCEPT !.rddiv = IF v = 0 THEN 65535 ELSE b.wrdiv \div v,
                          !.rdmpy = IF v = 0 THEN b.wrdiv ELSE b.wrdiv % v]
TakenElsewhere == {\H4016, \H4200} \cup \H4207..\H420A
WriteSystem(b, addr, v, other) ==
  LET off == Off(addr)
      i == (off - \H4300) \div 16
  IN CASE off < 8192 -> Wram(b, off, v)
       [] off \in \H2100..\H2133 -> [b EXCEPT !.ppu = WriteReg(@, off - \H2100, v)]
       [] off \in (\H2140..\H217F) \cup TakenElsewhere -> b
       [] off = \H2180 -> PortWrite(b, v)
       [] off \in \H2181..\H2183 -> WriteWmadd(b, off - \H2181, v)
       [] off = \H4201 -> [b EXCEPT !.wrio = v]
       [] off = \H4202 -> [b EXCEPT !.wrmpya = v]
       [] off = \H4203 -> Multiply(b, v)
       [] off \in {\H4204, \H4205} ->
            [b EXCEPT !.wrdiv = IF off = \H4204 THEN Word(v, Hi(@)) ELSE Word(Lo(@), v)]
       [] off = \H4206 -> Divide(b, v)
       [] off = \H420B -> Kick(b, v, other)
       [] off = \H420C -> [b EXCEPT !.hdmaen = v]
       [] off = \H420D -> [b EXCEPT !.fastRom = Bit(v, 0)]
       [] off \in \H4300..\H437F -> [b EXCEPT !.ch[i] = ChannelWrite(@, off % 16, v)]
       [] OTHER -> Fault(b, UnmappedWrite(addr, v))
BusWrite(b, addr, v, other) ==
  LET paid == Pay(b, MemSpeed(addr, b.fastRom))
  IN CASE WramBank(addr) -> Wram(paid, addr - \H7E0000, v)
       [] System(addr) -> WriteSystem(paid, addr, v, other)
       [] OTHER -> CartWrite(paid, addr, v)

(***************************************************************************)
(* The processor's accesses; after a fault there are none.                 *)
(***************************************************************************)
ReadAt(addr) == [kind |-> "read", addr |-> addr, value |-> 0]
WriteAt(addr, v) == [kind |-> "write", addr |-> addr, value |-> v]
Init == \E channels \in Channels :
          /\ bus = [NewBus EXCEPT !.wram = Loaded, !.ch[0] = channels[1], !.ch[1] = channels[2]]
          /\ did = ReadAt(0)
          /\ steps = 0
WithinBounds(op) ==
  \/ op.addr # \H420B
  \/ bus'.fault # NoFault
  \/ \A i \in 0..7 : Bit(op.value, i) => ByteCount(bus.ch[i]) <= MaxBytes
Does(op) == /\ bus.fault = NoFault
            /\ steps < MaxSteps
            /\ did' = op
            /\ steps' = steps + 1
CpuRead == \E op \in Operations, other \in Others :
             op.kind = "read" /\ Does(op) /\ bus' = BusRead([bus EXCEPT !.clock = 0], op.addr, other)
CpuWrite == \E op \in Operations, other \in Others :
              op.kind = "write" /\ Does(op)
              /\ bus' = BusWrite([bus EXCEPT !.clock = 0], op.addr, op.value, other)
              /\ WithinBounds(op)
Next == CpuRead \/ CpuWrite
Spec == Init /\ [][Next]_vars

-----------------------------------------------------------------------------
(***************************************************************************)
(* What a program may expect of the bus: one memory under all addresses    *)
(* and both decoders, a general transfer that moves a whole block, and a   *)
(* fault that shows where it was.                                          *)
(***************************************************************************)
CONSTANT Probes \* The addresses that are looked at.

Writes(addr) == did'.kind = "write" /\ did'.addr = addr /\ steps' # steps

(***************************************************************************)
(* A byte the processor has written to memory is there at every other name *)
(* of its place, for the processor and for a channel; and no other place   *)
(* has changed.  (Bus::read, Bus::write and a_read decode on their own.)   *)
(***************************************************************************)
\* The place an address names: work memory, save memory, or nothing that keeps a byte.
Place(addr) ==
  CASE WramBank(addr) -> <<"wram", addr - \H7E0000>>
    [] LowMirror(addr) -> <<"wram", Off(addr)>>
    [] SramWindow(addr) /\ SramSize # 0 -> <<"sram", addr % SramSize>>
    [] OTHER -> <<"none", addr>>
Memory(addr) == Place(addr)[1] # "none"
Sees(b, addr) == BusRead(b, addr, 0).mdr
OneMemory ==
  [][\A addr \in Probes : (Memory(addr) /\ Writes(addr)) =>
       \A a \in Probes : Memory(a) =>
          LET expected == IF Place(a) = Place(addr) THEN did'.value ELSE Sees(bus, a)
          IN Sees(bus', a) = expected /\ ARead(bus', a) = expected]_vars

(***************************************************************************)
(* A kick of one channel that moves between an ordinary block of memory    *)
(* and the port into work memory moves the whole block, within its bank,   *)
(* forwards or backwards, and nothing else; it ends with a count of 0, the *)
(* address past the block and the clocks of its bytes.  (execute_dma.)     *)
(***************************************************************************)
Direction(ch) == IF Bit(ch.dmap, 4) THEN -1 ELSE 1
AAt(ch, n) == ch.a1b * 65536 + W16(ch.a1t + n * Direction(ch))
PortAt(n) == (bus.wmadd + n) % 131072
Block(ch) == {AAt(ch, n) : n \in 0..(ch.das - 1)}
Ordinary(ch) ==
  /\ ch.das \in 1..16 /\ ch.bbad = \H80 /\ ch.dmap % 16 \in {0, 2, 6}
  /\ \A a \in Block(ch) : Memory(a) /\ \A n \in 0..(ch.das - 1) : Place(a) # <<"wram", PortAt(n)>>
MovesBlock(i) ==
  LET ch == bus.ch[i]
      n == ch.das
      out == Bit(ch.dmap, 7)
      written == {IF out THEN Place(AAt(ch, k)) ELSE <<"wram", PortAt(k)>> : k \in 0..(n - 1)}
  IN /\ \A k \in 0..(n - 1) :
          IF out THEN ARead(bus', AAt(ch, k)) = Peek(bus.wram, PortAt(k))
          ELSE Peek(bus'.wram, PortAt(k)) = ARead(bus, AAt(ch, k))
     /\ \A a \in Probes : (Memory(a) /\ Place(a) \notin written) => ARead(bus', a) = ARead(bus, a)
     /\ bus'.ch = [bus.ch EXCEPT ![i] = [ch EXCEPT !.das = 0, !.a1t = Off(AAt(ch, n))]]
     /\ bus'.wmadd = PortAt(n)
     /\ bus'.clock = 6 + 12 + 8 + 8 * n
DmaMovesBlock ==
  [][\A i \in 0..7 : (Writes(\H420B) /\ did'.value = 2^i /\ ~Bit(bus.hdmaen, i) /\ Ordinary(bus.ch[i])) => MovesBlock(i)]_vars

(***************************************************************************)
(* "D9: a faulted transfer halts DMA with channel registers ... still      *)
(* pointing AT the faulting byte (not past it)": its address, and a count  *)
(* that is short by the bytes that were moved.                             *)
(***************************************************************************)
FaultPointsAtByte ==
  [][(Writes(\H420B) /\ bus'.fault.kind = "UnmappedWrite") =>
       \E i \in 0..7 :
         LET before == bus.ch[i]
             after == bus'.ch[i]
         IN /\ Bit(did'.value, i)
            /\ bus'.fault.addr = AAddress(after)
            /\ \A j \in (i + 1)..7 : bus'.ch[j] = bus.ch[j]
            /\ ~Bit(before.dmap, 3) => W16((after.a1t - before.a1t) * Direction(before)) = W16(before.das - after.das)]_vars
=============================================================================

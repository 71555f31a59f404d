------------------------------- MODULE PpuPorts -------------------------------
(***************************************************************************)
(* The picture unit as the processor and the DMA channels see it: the      *)
(* registers $2100-$213F, the latches behind those that are written or     *)
(* read twice, and the hooks of a frame.  Every operator returns the new   *)
(* unit; a register is named by its offset from $2100.  Registers that     *)
(* only keep the byte they were given are in `reg`.                        *)
(***************************************************************************)
EXTENDS Words

NewPpu ==
  [vram |-> <<>>, cgram |-> <<>>, oam |-> <<>>, reg |-> <<>>,
   forceBlank |-> TRUE, brightness |-> 0,
   obsel |-> [size |-> 0, base |-> 0, select |-> 0],
   oamBase |-> 0, oamAddr |-> 0, oamLatch |-> 0, oamLatched |-> FALSE,
   mode |-> 0, bg3Priority |-> FALSE, big |-> [bg \in 0..3 |-> FALSE],
   sc |-> [bg \in 0..3 |-> [base |-> 0, wide |-> FALSE, tall |-> FALSE]],
   tiles |-> [bg \in 0..3 |-> 0],
   scroll |-> [bg \in 0..3 |-> [h |-> 0, v |-> 0]], offsetLatch |-> 0,
   vmain |-> [step |-> 1, remap |-> 0, onHigh |-> FALSE], vmadd |-> 0, prefetch |-> 0,
   cgAddr |-> 0, cgLatch |-> 0, cgHigh |-> FALSE, cgReadHigh |-> FALSE,
   fixed |-> 0, m7 |-> [f \in {"a", "b", "c", "d", "x", "y", "h", "v"} |-> 0], m7Latch |-> 0,
   field |-> FALSE, overscan |-> FALSE, line |-> 0,
   ophct |-> 0, opvct |-> 0, hHigh |-> FALSE, vHigh |-> FALSE, latched |-> FALSE,
   mosaicSize |-> 0, mosaicOn |-> 0, mosaicStart |-> 1]

Reg(p, r) == Peek(p.reg, r)
Signed16(w) == IF w >= 32768 THEN w - 65536 ELSE w

(***************************************************************************)
(* Video memory: a word address, rotated for the layout of tiles, and the  *)
(* word fetched ahead for reading.                                         *)
(***************************************************************************)
Remap(a, remap) ==
  IF remap = 0 THEN a
  ELSE LET low == 2^(4 + remap) \* one more bit is rotated in each mode
           all == 8 * low
       IN (a \div all) * all + (a % low) * 8 + (a % all) \div low
VramWord(p) == Remap(p.vmadd, p.vmain.remap)
WordAt(p, a) == Word(Peek(p.vram, W16(2 * a)), Peek(p.vram, W16(2 * a + 1)))
Prefetch(p) == [p EXCEPT !.prefetch = WordAt(p, VramWord(p))]
Step(p) == Prefetch([p EXCEPT !.vmadd = W16(@ + p.vmain.step)])
StepIf(p, high) == IF p.vmain.onHigh = high THEN Step(p) ELSE p
VramWrite(p, high, v) ==
  StepIf([p EXCEPT !.vram = Poke(@, W16(2 * VramWord(p) + (IF high THEN 1 ELSE 0)), v)], high)

WriteVmain(p, v) ==
  [p EXCEPT !.vmain = [step |-> CASE v % 4 = 0 -> 1 [] v % 4 = 1 -> 32 [] OTHER -> 128,
                       remap |-> (v \div 4) % 4, onHigh |-> Bit(v, 7)]]
\* Mutant: setting the address does not fetch the word.
WriteVmaddOnly(p, high, v) ==
  [p EXCEPT !.vmadd = IF high THEN Word(Lo(@), v) ELSE Word(v, Hi(@))]
WriteVmadd(p, high, v) ==
  Prefetch([p EXCEPT !.vmadd = IF high THEN Word(Lo(@), v) ELSE Word(v, Hi(@))])

(***************************************************************************)
(* Object memory: in the low table bytes are committed in pairs.           *)
(***************************************************************************)
WriteOamAddress(p, base) ==
  [p EXCEPT !.oamBase = base, !.oamAddr = 2 * base, !.oamLatched = FALSE]
NextOam(p) == [p EXCEPT !.oamAddr = (@ + 1) % 1024]
WriteOam(p, v) ==
  LET a == p.oamAddr % 1024
  IN NextOam(
       CASE a < 512 /\ a % 2 = 0 -> [p EXCEPT !.oamLatch = v, !.oamLatched = TRUE]
         [] a < 512 /\ a % 2 = 1 /\ p.oamLatched ->
              [p EXCEPT !.oam = Poke(Poke(@, a - 1, p.oamLatch), a, v), !.oamLatched = FALSE]
         [] a \in 512..543 -> [p EXCEPT !.oam = Poke(@, a, v)]
         [] OTHER -> p)

(***************************************************************************)
(* Colours: written low byte first, committed with the high byte.  Reading *)
(* moves the same address, with a toggle of its own.                       *)
(***************************************************************************)
WriteCgAddress(p, v) == [p EXCEPT !.cgAddr = v, !.cgHigh = FALSE]
WriteColor(p, v) ==
  IF ~p.cgHigh THEN [p EXCEPT !.cgLatch = v, !.cgHigh = TRUE]
  ELSE [p EXCEPT !.cgram = Poke(Poke(@, 2 * p.cgAddr, p.cgLatch), 2 * p.cgAddr + 1, v % 128),
                 !.cgHigh = FALSE, !.cgAddr = W8(@ + 1)]

(***************************************************************************)
(* Backgrounds.  Scroll registers share one latch; those of the first      *)
(* background also write the mode 7 scroll, through the matrix's latch.    *)
(***************************************************************************)
WriteMatrix(p, field, high, v) ==
  [p EXCEPT !.m7[field] = Signed16(Word(p.m7Latch, high)), !.m7Latch = v]
WriteScroll(p, bg, axis, v) ==
  LET q == IF bg = 0 THEN WriteMatrix(p, axis, v, v) ELSE p
  IN [q EXCEPT !.scroll[bg][axis] = Word(p.offsetLatch, v % 4), !.offsetLatch = v]

WriteBgMode(p, v) ==
  [p EXCEPT !.mode = v % 8, !.bg3Priority = Bit(v, 3), !.big = [bg \in 0..3 |-> Bit(v, 4 + bg)]]
WriteMosaic(p, v) ==
  [p EXCEPT !.mosaicSize = v \div 16, !.mosaicOn = v % 16,
            !.mosaicStart = IF p.line >= 1 THEN p.line ELSE 1]
WriteScreenBase(p, bg, v) ==
  [p EXCEPT !.sc[bg] = [base |-> (v \div 4) * 2048, wide |-> Bit(v, 0), tall |-> Bit(v, 1)]]
WriteTileBase(p, bg, v) ==
  [p EXCEPT !.tiles[bg] = W16((v % 16) * 8192), !.tiles[bg + 1] = W16((v \div 16) * 8192)]

WriteFixedColor(p, v) ==
  LET part(i) == IF Bit(v, 5 + i) THEN v % 32 ELSE (p.fixed \div 32^i) % 32
  IN [p EXCEPT !.fixed = part(0) + 32 * part(1) + 1024 * part(2)]

(***************************************************************************)
(* The registers written.  Those of the read block ignore the byte.        *)
(***************************************************************************)
PlainRegisters == {\h1A} \cup \h23..\h2B \cup {\h2E, \h2F, \h30, \h31, \h33}
MatrixField == [r \in \h1B..\h20 |-> <<"a", "b", "c", "d", "x", "y">>[r - \h1A]]

WriteReg(p, r, v) ==
  CASE r = 0 -> [p EXCEPT !.forceBlank = Bit(v, 7), !.brightness = v % 16]
    [] r = 1 -> [p EXCEPT !.obsel = [size |-> v \div 32, base |-> v % 8, select |-> (v \div 8) % 4]]
    [] r = 2 -> WriteOamAddress(p, Word(v, Hi(p.oamBase)))
    [] r = 3 -> WriteOamAddress(p, Word(Lo(p.oamBase), v % 2))
    [] r = 4 -> WriteOam(p, v)
    [] r = 5 -> WriteBgMode(p, v)
    [] r = 6 -> WriteMosaic(p, v)
    [] r \in 7..10 -> WriteScreenBase(p, r - 7, v)
    [] r \in {11, 12} -> WriteTileBase(p, 2 * (r - 11), v)
    [] r \in 13..20 -> WriteScroll(p, (r - 13) \div 2, IF r % 2 = 1 THEN "h" ELSE "v", v)
    [] r = \h15 -> WriteVmain(p, v)
    [] r \in {\h16, \h17} -> WriteVmadd(p, r = \h17, v)
    [] r \in {\h18, \h19} -> VramWrite(p, r = \h19, v)
    [] r \in \h1B..\h1E -> WriteMatrix(p, MatrixField[r], v, v)
    [] r \in {\h1F, \h20} -> WriteMatrix(p, MatrixField[r], v % 32, v)
    [] r = \h21 -> WriteCgAddress(p, v)
    [] r = \h22 -> WriteColor(p, v)
    [] r \in {\h2C, \h2D} -> [p EXCEPT !.reg = Poke(@, r, v % 32)]
    [] r = \h32 -> WriteFixedColor(p, v)
    [] r \in PlainRegisters -> [p EXCEPT !.reg = Poke(@, r, v)]
    [] OTHER -> p

(***************************************************************************)
(* The registers read: the value, and the unit after the read.  mdr is     *)
(* the byte last seen on the bus; dot is the position in the line, which   *)
(* the bus latches before the processor reads $2137.                       *)
(***************************************************************************)
Product(p) == (p.m7["a"] * Signed8(Lo(p.m7["b"]))) % 2^24
LatchCounters(p, dot) == [p EXCEPT !.ophct = dot, !.opvct = p.line]
Latch(p) == [p EXCEPT !.latched = TRUE, !.hHigh = FALSE, !.vHigh = FALSE]
HalfOf(counter, high, mdr) == IF high THEN 2 * (mdr \div 2) + (Hi(counter) % 2) ELSE Lo(counter)
Unlatch(p) == [p EXCEPT !.latched = FALSE, !.hHigh = FALSE, !.vHigh = FALSE]

ReadValue(p, r, mdr) ==
  CASE r \in \h34..\h36 -> (Product(p) \div 256^(r - \h34)) % 256
    [] r = \h38 -> IF p.oamAddr < 544 THEN Peek(p.oam, p.oamAddr) ELSE mdr
    [] r = \h39 -> Lo(p.prefetch)
    [] r = \h3A -> Hi(p.prefetch)
    [] r = \h3B -> IF p.cgReadHigh THEN 128 * (mdr \div 128) + (Peek(p.cgram, 2 * p.cgAddr + 1) % 128)
                   ELSE Peek(p.cgram, 2 * p.cgAddr)
    [] r = \h3C -> HalfOf(p.ophct, p.hHigh, mdr)
    [] r = \h3D -> HalfOf(p.opvct, p.vHigh, mdr)
    [] r = \h3E -> (IF Bit(mdr, 5) THEN 32 ELSE 0) + 1
    [] r = \h3F -> (IF p.field THEN 128 ELSE 0) + (IF p.latched THEN 64 ELSE 0)
                   + (IF Bit(mdr, 5) THEN 32 ELSE 0) + 1
    [] OTHER -> mdr
ReadReg(p, r) ==
  CASE r = \h37 -> Latch(p)
    [] r = \h38 -> NextOam(p)
    [] r \in {\h39, \h3A} -> StepIf(p, r = \h3A)
    [] r = \h3B -> [p EXCEPT !.cgReadHigh = ~@, !.cgAddr = W8(@ + (IF p.cgReadHigh THEN 1 ELSE 0))]
    [] r = \h3C -> [p EXCEPT !.hHigh = ~@]
    [] r = \h3D -> [p EXCEPT !.vHigh = ~@]
    [] r = \h3F -> Unlatch(p)
    [] OTHER -> p

(***************************************************************************)
(* The hooks of the frame loop.                                            *)
(***************************************************************************)
VblankStart(p) == IF p.overscan THEN 240 ELSE 225
BeginFrame(p) ==
  [p EXCEPT !.field = ~@, !.overscan = Bit(Reg(p, \h33), 2), !.line = 0, !.mosaicStart = 1,
            !.hHigh = FALSE, !.vHigh = FALSE]
BeginVblank(p) ==
  [p EXCEPT !.oamAddr = IF p.forceBlank THEN @ ELSE 2 * p.oamBase, !.line = VblankStart(p)]
=============================================================================

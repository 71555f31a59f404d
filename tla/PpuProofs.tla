----------------------------- MODULE PpuProofs -----------------------------
(***************************************************************************)
(* Proofs about the picture unit: what its ports show of video memory, for *)
(* every set of programs and handlers.  Most registers leave memory,       *)
(* address and fetched word alone; the others fetch when they move the     *)
(* address, or are among those that may leave another word in memory.      *)
(***************************************************************************)
EXTENDS Ppu, NaturalsInduction, WellFoundedInduction, TLAPS

\* A set of naturals that is not empty has a least element.
LEMMA Least ==
  ASSUME NEW T \in SUBSET Nat, T # {}
  PROVE  \E x \in T : \A y \in T : x <= y
<1> DEFINE R == OpToRel(<, Nat)
<1>1. R = {ss \in Nat \X Nat : ss[1] < ss[2]}
  BY Zenon DEF OpToRel
<1>2. IsWellFoundedOn(R, Nat)
  BY NatLessThanWellFounded
<1> HIDE DEF R
<1>3. PICK x \in T : \A y \in T : <<y, x>> \notin R
  BY <1>2, WFMin
<1>4. ASSUME NEW y \in T, y < x PROVE FALSE
  <2>1. <<y, x>> \in Nat \X Nat
    OBVIOUS
  <2>2. QED
    BY <1>1, <1>3, <1>4, <2>1
<1>5. QED
  BY <1>4

\* A set with 0 in it, and with n + 1 whenever n is, holds every natural number.
LEMMA Up ==
  ASSUME NEW T, 0 \in T, \A n \in Nat : n \in T => n + 1 \in T
  PROVE  \A n \in Nat : n \in T
<1> SUFFICES ASSUME NEW k \in Nat, k \notin T PROVE FALSE
  OBVIOUS
<1> DEFINE U == {n \in Nat : n \notin T}
<1>1. PICK m \in U : \A y \in U : m <= y
  <2>1. U \in SUBSET Nat /\ U # {}
    OBVIOUS
  <2> HIDE DEF U
  <2>2. QED
    BY <2>1, Least
<1>2. m - 1 \in Nat /\ m - 1 \notin U
  BY <1>1
<1>3. QED
  BY <1>1, <1>2

(* What the unit always has, as far as video memory goes.                  *)
VideoFields == {"vram", "vmain", "vmadd", "prefetch"}
IsUnit(q) == VideoFields \subseteq DOMAIN q /\ q.vmain.onHigh \in BOOLEAN

\* The word fetched ahead is the one in memory.
Fresh(q) == q.prefetch = WordAt(q, VramWord(q))

\* r is q but for what has nothing to do with video memory.
SameVideo(q, r) == DOMAIN r = DOMAIN q /\ \A f \in VideoFields : r[f] = q[f]

LEMMA SameStays ==
  ASSUME NEW q, NEW r, SameVideo(q, r)
  PROVE  (IsUnit(q) => IsUnit(r)) /\ (Fresh(q) => Fresh(r))
<1>1. /\ DOMAIN r = DOMAIN q /\ r.vram = q.vram /\ r.vmain = q.vmain
      /\ r.vmadd = q.vmadd /\ r.prefetch = q.prefetch
  BY DEF SameVideo, VideoFields
<1>2. VramWord(r) = VramWord(q)
  BY <1>1 DEF VramWord
<1>3. WordAt(r, VramWord(r)) = WordAt(q, VramWord(q))
  BY <1>1, <1>2 DEF WordAt
<1>4. QED
  BY <1>1, <1>3 DEF IsUnit, Fresh

LEMMA SameTwice ==
  ASSUME NEW q, NEW r, NEW s, SameVideo(q, r), SameVideo(r, s) PROVE SameVideo(q, s)
  BY DEF SameVideo

LEMMA PrefetchFetches ==
  ASSUME NEW q, IsUnit(q) PROVE IsUnit(Prefetch(q)) /\ Fresh(Prefetch(q))
<1>1. PICK word : word = WordAt(q, VramWord(q))
  OBVIOUS
<1>2. PICK r : r = [q EXCEPT !.prefetch = word]
  OBVIOUS
<1>3. /\ DOMAIN r = DOMAIN q /\ r.vram = q.vram /\ r.vmain = q.vmain /\ r.vmadd = q.vmadd
      /\ r.prefetch = word
  BY <1>2 DEF IsUnit, VideoFields
<1>4. VramWord(r) = VramWord(q)
  BY <1>3 DEF VramWord
<1>5. WordAt(r, VramWord(r)) = word
  BY <1>1, <1>3, <1>4 DEF WordAt
<1>6. IsUnit(r) /\ Fresh(r)
  BY <1>3, <1>5 DEF IsUnit, Fresh
<1>7. Prefetch(q) = r
  BY <1>1, <1>2 DEF Prefetch
<1>8. QED
  BY <1>6, <1>7

LEMMA StepFetches ==
  ASSUME NEW q, IsUnit(q) PROVE IsUnit(Step(q)) /\ Fresh(Step(q))
<1>1. PICK r : r = [q EXCEPT !.vmadd = W16(@ + q.vmain.step)]
  OBVIOUS
<1>2. IsUnit(r)
  BY <1>1 DEF IsUnit, VideoFields
<1>3. Step(q) = Prefetch(r)
  BY <1>1 DEF Step
<1>4. QED
  BY <1>2, <1>3, PrefetchFetches

LEMMA StepIfFetches ==
  ASSUME NEW q, IsUnit(q), NEW high
  PROVE  /\ IsUnit(StepIf(q, high))
         /\ q.vmain.onHigh = high => Fresh(StepIf(q, high))
         /\ q.vmain.onHigh # high => StepIf(q, high) = q
  BY StepFetches DEF StepIf

-----------------------------------------------------------------------------
(* The registers that are not ports of video memory.                       *)
LEMMA ObjectsApart ==
  ASSUME NEW q, NEW v
  PROVE  SameVideo(q, WriteOamAddress(q, v)) /\ SameVideo(q, NextOam(q)) /\ SameVideo(q, WriteOam(q, v))
<1>1. SameVideo(q, WriteOamAddress(q, v))
  BY DEF WriteOamAddress, SameVideo, VideoFields
<1>2. ASSUME NEW r PROVE SameVideo(r, NextOam(r))
  BY DEF NextOam, SameVideo, VideoFields
<1>3. PICK a : a = q.oamAddr % 1024
  OBVIOUS
<1>4. PICK r : WriteOam(q, v) = NextOam(r) /\ SameVideo(q, r)
  <2>1. PICK r : r = CASE a < 512 /\ a % 2 = 0 -> [q EXCEPT !.oamLatch = v, !.oamLatched = TRUE]
         [] a < 512 /\ a % 2 = 1 /\ q.oamLatched ->
              [q EXCEPT !.oam = Poke(Poke(@, a - 1, q.oamLatch), a, v), !.oamLatched = FALSE]
         [] a \in 512..543 -> [q EXCEPT !.oam = Poke(@, a, v)]
         [] OTHER -> q
    OBVIOUS
  <2>2. WriteOam(q, v) = NextOam(r)
    BY <1>3, <2>1 DEF WriteOam
  <2>3. SameVideo(q, r)
    BY <2>1 DEF SameVideo, VideoFields
  <2>4. QED
    BY <2>2, <2>3
<1>5. QED
  BY <1>1, <1>2, <1>4, SameTwice

LEMMA ColoursApart ==
  ASSUME NEW q, NEW v
  PROVE  /\ SameVideo(q, WriteCgAddress(q, v)) /\ SameVideo(q, WriteColor(q, v))
         /\ SameVideo(q, WriteFixedColor(q, v))
  BY DEF WriteCgAddress, WriteColor, WriteFixedColor, SameVideo, VideoFields

LEMMA MatrixApart ==
  ASSUME NEW q, NEW field, NEW high, NEW v PROVE SameVideo(q, WriteMatrix(q, field, high, v))
  BY DEF WriteMatrix, SameVideo, VideoFields

LEMMA BackgroundsApart ==
  ASSUME NEW q, NEW bg, NEW axis, NEW v
  PROVE  /\ SameVideo(q, WriteScroll(q, bg, axis, v))
         /\ SameVideo(q, WriteBgMode(q, v)) /\ SameVideo(q, WriteMosaic(q, v))
         /\ SameVideo(q, WriteScreenBase(q, bg, v)) /\ SameVideo(q, WriteTileBase(q, bg, v))
<1>1. SameVideo(q, WriteScroll(q, bg, axis, v))
  <2>1. PICK r : r = IF bg = 0 THEN WriteMatrix(q, axis, v, v) ELSE q
    OBVIOUS
  <2>2. SameVideo(q, r)
    <3>1. SameVideo(q, q)
      BY DEF SameVideo
    <3>2. QED
      BY <2>1, <3>1, MatrixApart
  <2>3. SameVideo(r, WriteScroll(q, bg, axis, v))
    BY <2>1 DEF WriteScroll, SameVideo, VideoFields
  <2>4. QED
    BY <2>2, <2>3, SameTwice
<1>2. SameVideo(q, WriteBgMode(q, v)) /\ SameVideo(q, WriteMosaic(q, v))
  BY DEF WriteBgMode, WriteMosaic, SameVideo, VideoFields
<1>3. SameVideo(q, WriteScreenBase(q, bg, v)) /\ SameVideo(q, WriteTileBase(q, bg, v))
  BY DEF WriteScreenBase, WriteTileBase, SameVideo, VideoFields
<1>4. QED
  BY <1>1, <1>2, <1>3

\* A write outside the ports of video memory does nothing to it.
LEMMA WritesApart ==
  ASSUME NEW q, NEW r, NEW v, r \notin {\h15, \h16, \h17, \h18, \h19}
  PROVE  SameVideo(q, WriteReg(q, r, v))
<1>1. SameVideo(q, q)
  BY DEF SameVideo
<1>2. SameVideo(q, [q EXCEPT !.forceBlank = Bit(v, 7), !.brightness = v % 16])
  BY DEF SameVideo, VideoFields
<1>3. SameVideo(q, [q EXCEPT !.obsel = [size |-> v \div 32, base |-> v % 8, select |-> (v \div 8) % 4]])
  BY DEF SameVideo, VideoFields
<1>4. ASSUME NEW w PROVE SameVideo(q, [q EXCEPT !.reg = Poke(@, r, w)])
  BY DEF SameVideo, VideoFields
<1>5. r # \h15 /\ r \notin {\h16, \h17} /\ r \notin {\h18, \h19}
  OBVIOUS
<1>6. QED
  BY <1>1, <1>2, <1>3, <1>4, <1>5, ObjectsApart, ColoursApart, MatrixApart, BackgroundsApart DEF WriteReg

\* Nor does a read that does not move the address.
LEMMA ReadsApart ==
  ASSUME NEW q, NEW r, r \notin {\h39, \h3A}
  PROVE  SameVideo(q, ReadReg(q, r))
<1>1. SameVideo(q, q)
  BY DEF SameVideo
<1>2. SameVideo(q, Latch(q)) /\ SameVideo(q, Unlatch(q))
  BY DEF Latch, Unlatch, SameVideo, VideoFields
<1>3. /\ SameVideo(q, [q EXCEPT !.cgReadHigh = ~@, !.cgAddr = W8(@ + (IF q.cgReadHigh THEN 1 ELSE 0))])
      /\ SameVideo(q, [q EXCEPT !.hHigh = ~@]) /\ SameVideo(q, [q EXCEPT !.vHigh = ~@])
  BY DEF SameVideo, VideoFields
<1>4. QED
  BY <1>1, <1>2, <1>3, ObjectsApart DEF ReadReg

\* Nor do the hooks of the frame loop.
LEMMA HooksApart ==
  ASSUME NEW q PROVE SameVideo(q, BeginFrame(q)) /\ SameVideo(q, NextLineOf(q))
<1>1. ASSUME NEW r PROVE SameVideo(r, BeginFrame(r)) /\ SameVideo(r, BeginVblank(r))
  BY DEF BeginFrame, BeginVblank, SameVideo, VideoFields
<1>2. PICK next : next = (q.line + 1) % 262
  OBVIOUS
<1>3. PICK on : on = IF next = 0 THEN BeginFrame(q) ELSE [q EXCEPT !.line = next]
  OBVIOUS
<1>4. SameVideo(q, on)
  <2>1. SameVideo(q, [q EXCEPT !.line = next])
    BY DEF SameVideo, VideoFields
  <2>2. QED
    BY <1>1, <1>3, <2>1
<1>5. NextLineOf(q) = IF next = VblankStart(on) THEN BeginVblank(on) ELSE on
  BY <1>2, <1>3 DEF NextLineOf
<1>6. QED
  BY <1>1, <1>4, <1>5, SameTwice

-----------------------------------------------------------------------------
(* The ports of video memory.                                              *)
LEMMA VmainIs ==
  ASSUME NEW q, IsUnit(q), NEW v PROVE IsUnit(WriteReg(q, \h15, v))
<1>1. PICK vmain : vmain = [step |-> CASE v % 4 = 0 -> 1 [] v % 4 = 1 -> 32 [] OTHER -> 128,
                            remap |-> (v \div 4) % 4, onHigh |-> Bit(v, 7)]
  OBVIOUS
<1>2. vmain.onHigh \in BOOLEAN
  BY <1>1 DEF Bit
<1>3. IsUnit([q EXCEPT !.vmain = vmain])
  BY <1>2 DEF IsUnit, VideoFields
<1>4. WriteReg(q, \h15, v) = [q EXCEPT !.vmain = vmain]
  BY <1>1 DEF WriteReg, WriteVmain, PlainRegisters
<1>5. QED
  BY <1>3, <1>4

LEMMA VmaddFetches ==
  ASSUME NEW q, IsUnit(q), NEW v, NEW r \in {\h16, \h17}
  PROVE  IsUnit(WriteReg(q, r, v)) /\ Fresh(WriteReg(q, r, v))
<1>1. PICK high : high = (r = \h17)
  OBVIOUS
<1>2. WriteReg(q, r, v) = WriteVmadd(q, high, v)
  BY <1>1 DEF WriteReg, PlainRegisters
<1>3. PICK a : a = [q EXCEPT !.vmadd = IF high THEN Word(Lo(@), v) ELSE Word(v, Hi(@))]
  OBVIOUS
<1>4. IsUnit(a)
  BY <1>3 DEF IsUnit, VideoFields
<1>5. WriteVmadd(q, high, v) = Prefetch(a)
  BY <1>3 DEF WriteVmadd
<1>6. QED
  BY <1>2, <1>4, <1>5, PrefetchFetches

LEMMA DataFetches ==
  ASSUME NEW q, IsUnit(q), NEW v, NEW r \in {\h18, \h19}
  PROVE  /\ IsUnit(WriteReg(q, r, v))
         /\ q.vmain.onHigh = (r = \h19) => Fresh(WriteReg(q, r, v))
<1>1. PICK high : high = (r = \h19)
  OBVIOUS
<1>2. WriteReg(q, r, v) = VramWrite(q, high, v)
  BY <1>1 DEF WriteReg, PlainRegisters
<1>3. PICK a : a = [q EXCEPT !.vram = Poke(@, W16(2 * VramWord(q) + (IF high THEN 1 ELSE 0)), v)]
  OBVIOUS
<1>4. IsUnit(a) /\ a.vmain = q.vmain
  BY <1>3 DEF IsUnit, VideoFields
<1>5. VramWrite(q, high, v) = StepIf(a, high)
  BY <1>3 DEF VramWrite
<1>6. QED
  BY <1>1, <1>2, <1>4, <1>5, StepIfFetches

LEMMA WriteIsUnit ==
  ASSUME NEW q, IsUnit(q), NEW r, NEW v PROVE IsUnit(WriteReg(q, r, v))
  BY VmainIs, VmaddFetches, DataFetches, WritesApart, SameStays

-----------------------------------------------------------------------------
PortInv == IsUnit(p) /\ PrefetchFresh

(* The unit after the first n writes of a setup.                           *)
IsSetup(f, program, n) ==
  f = [i \in 0..n |-> IF i = 0 THEN Loaded(program)
                      ELSE WriteReg(f[i - 1], program.setup[i][1], program.setup[i][2])]

LEMMA SetupExists ==
  ASSUME NEW program
  PROVE  \A n \in Nat : \E f : IsSetup(f, program, n)
<1> DEFINE T == {n \in Nat : \E f : IsSetup(f, program, n)}
<1>1. 0 \in T
  <2>1. PICK q : q = Loaded(program)
    OBVIOUS
  <2>2. PICK f : f = [i \in 0..0 |-> q]
    OBVIOUS
  <2>3. IsSetup(f, program, 0)
    BY <2>1, <2>2 DEF IsSetup
  <2>4. QED
    BY <2>3
<1>2. ASSUME NEW n \in Nat, n \in T PROVE n + 1 \in T
  <2>1. PICK f : IsSetup(f, program, n)
    BY <1>2
  <2>2. PICK z : z = WriteReg(f[n], program.setup[n + 1][1], program.setup[n + 1][2])
    OBVIOUS
  <2>3. PICK g : g = [i \in 0..(n + 1) |-> IF i = n + 1 THEN z ELSE f[i]]
    OBVIOUS
  <2>4. ASSUME NEW i \in 0..(n + 1)
        PROVE  g[i] = IF i = 0 THEN Loaded(program)
                      ELSE WriteReg(g[i - 1], program.setup[i][1], program.setup[i][2])
    <3>1. CASE i = n + 1
      <4>1. n \in 0..(n + 1) /\ n # n + 1 /\ i - 1 = n /\ i # 0
        BY <3>1
      <4>2. g[n] = f[n] /\ g[i] = z
        BY <2>3, <3>1, <4>1
      <4>3. QED
        BY <2>2, <3>1, <4>1, <4>2
    <3>2. CASE i # n + 1
      <4>1. i \in 0..n /\ (i # 0 => i - 1 \in 0..(n + 1) /\ i - 1 # n + 1)
        BY <3>2
      <4>2. f[i] = IF i = 0 THEN Loaded(program)
                   ELSE WriteReg(f[i - 1], program.setup[i][1], program.setup[i][2])
        BY <2>1, <4>1 DEF IsSetup
      <4>3. g[i] = f[i] /\ (i # 0 => g[i - 1] = f[i - 1])
        BY <2>3, <3>2, <4>1
      <4>4. QED
        BY <4>2, <4>3
    <3>3. QED
      BY <3>1, <3>2
  <2>5. IsSetup(g, program, n + 1)
    BY <2>3, <2>4 DEF IsSetup
  <2>6. QED
    BY <2>5
<1> HIDE DEF T
<1>3. \A n \in Nat : n \in T
  BY <1>1, <1>2, Up
<1>4. QED
  BY <1>3 DEF T

LEMMA SetupIsUnit ==
  ASSUME NEW program, DOMAIN program.loaded \subseteq {"vram", "cgram", "oam"},
         NEW n \in Nat, NEW f, IsSetup(f, program, n)
  PROVE  IsUnit(f[n])
<1> DEFINE T == {i \in Nat : i <= n => IsUnit(f[i])}
<1>1. 0 \in T
  <2>1. f[0] = Loaded(program)
    <3>1. 0 \in 0..n
      OBVIOUS
    <3>2. QED
      BY <3>1 DEF IsSetup
  <2>2. VideoFields \subseteq DOMAIN NewPpu /\ NewPpu.vmain.onHigh = FALSE
    BY DEF NewPpu, VideoFields
  <2>3. DOMAIN Loaded(program) = DOMAIN NewPpu
    BY DEF Loaded
  <2>4. Loaded(program).vmain = NewPpu.vmain
    <3>1. "vmain" \notin DOMAIN program.loaded /\ "vmain" \in DOMAIN NewPpu
      BY <2>2 DEF VideoFields
    <3>2. QED
      BY <3>1 DEF Loaded
  <2>5. QED
    BY <2>1, <2>2, <2>3, <2>4 DEF IsUnit
<1>2. ASSUME NEW i \in Nat, i \in T PROVE i + 1 \in T
  <2>1. SUFFICES ASSUME i + 1 <= n PROVE IsUnit(f[i + 1])
    OBVIOUS
  <2>2. i + 1 \in 0..n /\ i + 1 # 0 /\ (i + 1) - 1 = i
    BY <2>1
  <2>3. f[i + 1] = WriteReg(f[i], program.setup[i + 1][1], program.setup[i + 1][2])
    BY <2>2 DEF IsSetup
  <2>4. IsUnit(f[i])
    BY <1>2, <2>1
  <2>5. QED
    BY <2>3, <2>4, WriteIsUnit
<1> HIDE DEF T
<1>3. n \in T
  BY <1>1, <1>2, Up
<1>4. QED
  BY <1>3 DEF T

LEMMA PortsStart == PInit => PortInv
<1> SUFFICES ASSUME PInit PROVE PortInv
  OBVIOUS
<1>1. stale /\ \E program \in Programs : p = Started(program)
  BY DEF PInit, Init
<1>2. PICK program \in Programs : p = Started(program)
  BY <1>1
<1>3. PICK n \in Nat : n = Len(program.setup)
  BY PpuAssumption DEF IsProgram
<1> DEFINE f == CHOOSE f : f = [i \in 0..n |-> IF i = 0 THEN Loaded(program)
                      ELSE WriteReg(f[i - 1], program.setup[i][1], program.setup[i][2])]
<1>4. IsSetup(f, program, n)
  <2>1. \E g : IsSetup(g, program, n)
    BY SetupExists
  <2>2. QED
    BY <2>1 DEF IsSetup
<1>5. PICK ready : ready = f[n]
  OBVIOUS
<1>6. Started(program) = [BeginFrame(ready) EXCEPT !.line = program.from]
  BY <1>3, <1>5 DEF Started
<1> HIDE DEF f
<1>7. IsUnit(ready)
  BY <1>4, <1>5, SetupIsUnit, PpuAssumption DEF IsProgram
<1>8. IsUnit(BeginFrame(ready))
  BY <1>7, HooksApart, SameStays
<1>9. IsUnit(p)
  BY <1>2, <1>6, <1>8 DEF IsUnit, VideoFields
<1>10. QED
  BY <1>1, <1>9 DEF PortInv, PrefetchFresh

LEMMA WritesKeep ==
  ASSUME PortInv, CpuWrite, stale' = (~Fetches /\ (stale \/ Spoils)) PROVE PortInv'
<1>1. PICK r, v : r = Access.reg /\ v = Access.value
  OBVIOUS
<1>2. Todo # <<>> /\ Access.kind = "write" /\ p' = WriteReg(p, r, v)
  BY <1>1 DEF CpuWrite, Accessed
<1>3. IsUnit(p) /\ IsUnit(p')
  BY <1>2, WriteIsUnit DEF PortInv
<1>4. ASSUME ~stale' PROVE Fresh(p')
  <2>1. Fetches \/ (~stale /\ ~Spoils)
    BY <1>4
  <2>2. Fetches <=> \/ r \in {\h16, \h17}
                    \/ r = IF p.vmain.onHigh THEN \h19 ELSE \h18
    BY <1>1, <1>2 DEF Fetches, MovesOn, Accesses
  <2>3. Spoils <=> r \in {\h15, \h18, \h19}
    BY <1>1, <1>2 DEF Spoils, Accesses
  <2>4. CASE r \in {\h16, \h17}
    BY <1>2, <1>3, <2>4, VmaddFetches
  <2>5. CASE r \in {\h18, \h19}
    <3>1. p.vmain.onHigh = (r = \h19)
      <4>1. p.vmain.onHigh \in BOOLEAN
        BY <1>3 DEF IsUnit
      <4>2. QED
        BY <2>1, <2>2, <2>3, <2>5, <4>1
    <3>2. QED
      BY <1>2, <1>3, <2>5, <3>1, DataFetches
  <2>6. CASE r = \h15
    BY <2>1, <2>2, <2>3, <2>6
  <2>7. CASE r \notin {\h15, \h16, \h17, \h18, \h19}
    <3>1. ~stale
      BY <1>3, <2>1, <2>2, <2>7
    <3>2. Fresh(p)
      BY <3>1 DEF PortInv, PrefetchFresh, Fresh
    <3>3. SameVideo(p, p')
      BY <1>2, <2>7, WritesApart
    <3>4. QED
      BY <3>2, <3>3, SameStays
  <2>8. QED
    BY <2>4, <2>5, <2>6, <2>7
<1>5. QED
  BY <1>3, <1>4 DEF PortInv, PrefetchFresh, Fresh

LEMMA ReadsKeep ==
  ASSUME PortInv, CpuRead, stale' = (~Fetches /\ (stale \/ Spoils)) PROVE PortInv'
<1>1. PICK r : r = Access.reg
  OBVIOUS
<1>2. Todo # <<>> /\ Access.kind = "read"
  BY DEF CpuRead
<1>3. PICK q : p' = ReadReg(q, r) /\ SameVideo(p, q) /\ (r # \h37 => q = p)
  <2>1. CASE r = \h37
    <3>1. PICK dot \in Dots : p' = ReadReg(LatchCounters(p, dot), \h37)
      BY <1>1, <2>1 DEF CpuRead, Accessed
    <3>2. SameVideo(p, LatchCounters(p, dot))
      BY DEF LatchCounters, SameVideo, VideoFields
    <3>3. QED
      BY <2>1, <3>1, <3>2
  <2>2. CASE r # \h37
    <3>1. p' = ReadReg(p, r)
      BY <1>1, <2>2 DEF CpuRead, Accessed
    <3>2. SameVideo(p, p)
      BY DEF SameVideo
    <3>3. QED
      BY <3>1, <3>2
  <2>3. QED
    BY <2>1, <2>2
<1>4. Fetches <=> r = IF p.vmain.onHigh THEN \h3A ELSE \h39
  BY <1>1, <1>2 DEF Fetches, MovesOn, Accesses
<1>5. ~Spoils
  BY <1>2 DEF Spoils, Accesses
<1>6. IsUnit(p) /\ IsUnit(q) /\ p.vmain.onHigh \in BOOLEAN
  BY <1>3, SameStays DEF PortInv, IsUnit
<1>7. CASE r \in {\h39, \h3A}
  <2>1. PICK high : high = (r = \h3A)
    OBVIOUS
  <2>2. p' = StepIf(p, high)
    BY <1>3, <1>7, <2>1 DEF ReadReg
  <2>3. IsUnit(p')
    BY <1>6, <2>2, StepIfFetches
  <2>4. CASE p.vmain.onHigh = high
    BY <1>6, <2>2, <2>3, <2>4, StepIfFetches DEF PortInv, PrefetchFresh, Fresh
  <2>5. CASE p.vmain.onHigh # high
    <3>1. ~Fetches
      BY <1>4, <1>6, <1>7, <2>1, <2>5
    <3>2. p' = p
      BY <1>6, <2>2, <2>5, StepIfFetches
    <3>3. QED
      BY <1>5, <3>1, <3>2, <2>3 DEF PortInv, PrefetchFresh
  <2>6. QED
    BY <2>4, <2>5
<1>8. CASE r \notin {\h39, \h3A}
  <2>1. SameVideo(p, p')
    BY <1>3, <1>8, ReadsApart, SameTwice
  <2>2. ~Fetches
    BY <1>4, <1>8
  <2>3. IsUnit(p') /\ (Fresh(p) => Fresh(p'))
    BY <1>6, <2>1, SameStays
  <2>4. QED
    BY <1>5, <2>2, <2>3 DEF PortInv, PrefetchFresh, Fresh
<1>9. QED
  BY <1>7, <1>8

LEMMA PortsKept == PortInv /\ [PNext]_(allVars) => PortInv'
<1> SUFFICES ASSUME PortInv, [PNext]_(allVars) PROVE PortInv'
  OBVIOUS
<1>1. CASE SameVideo(p, p') /\ stale' = stale
  <2>1. IsUnit(p') /\ (Fresh(p) => Fresh(p'))
    BY <1>1, SameStays DEF PortInv
  <2>2. QED
    BY <1>1, <2>1 DEF PortInv, PrefetchFresh, Fresh
<1>2. SameVideo(p, p)
  BY DEF SameVideo
<1>3. CASE CpuWrite /\ stale' = (~Fetches /\ (stale \/ Spoils))
  BY <1>3, WritesKeep
<1>4. CASE CpuRead /\ stale' = (~Fetches /\ (stale \/ Spoils))
  BY <1>4, ReadsKeep
<1>5. CASE EnterHandler /\ UNCHANGED stale
  BY <1>1, <1>2, <1>5 DEF EnterHandler
<1>6. CASE EndLine /\ UNCHANGED stale
  BY <1>1, <1>6, HooksApart DEF EndLine
<1>7. CASE UNCHANGED allVars
  BY <1>1, <1>2, <1>7 DEF allVars
<1>8. QED
  BY <1>3, <1>4, <1>5, <1>6, <1>7 DEF PNext

\* The ports show the video memory that is there, whatever programs and handlers wrote
\* and read before, until they spoil it (ppu/mod.rs reload_prefetch and its callers).
THEOREM PrefetchFreshHolds == PSpec => []PrefetchFresh
<1>1. PortInv => PrefetchFresh
  BY DEF PortInv
<1>2. QED
  BY <1>1, PortsStart, PortsKept, PTL DEF PSpec
=============================================================================

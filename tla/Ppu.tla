--------------------------------- MODULE Ppu ---------------------------------
(***************************************************************************)
(* The picture unit in the machine: a main program and an interrupt        *)
(* handler that access its registers in any order the interrupt allows,    *)
(* and the frame loop, which calls the hooks and draws each visible line   *)
(* after the processor has run for it.                                     *)
(***************************************************************************)
EXTENDS PpuPicture

CONSTANTS
  Programs, \* What may run: loaded, what vram, cgram and oam hold; setup, a sequence of
            \* <<register, value>> written after that; main and handler, sequences of accesses; from, the line it starts in; lines, the
            \* number of line ends (a bound).
  Columns,  \* The columns of the picture that are looked at.
  Dots      \* The positions in a line where $2137 may be read.

\* What is loaded are memories, and the setup is a sequence.
IsProgram(program) == /\ DOMAIN program.loaded \subseteq {"vram", "cgram", "oam"}
                      /\ Len(program.setup) \in Nat
ASSUME PpuAssumption == \A program \in Programs : IsProgram(program)

VARIABLES p,    \* The unit.
          back, \* The back buffer: what the columns show, by row.
          work  \* What remains of the program, and whether the handler runs.

vars == <<p, back, work>>

Rows == 0..223
Write(r, v) == [kind |-> "write", reg |-> r, value |-> v]
Read(r, mdr) == [kind |-> "read", reg |-> r, value |-> mdr]

Loaded(program) ==
  [f \in DOMAIN NewPpu |-> IF f \in DOMAIN program.loaded THEN program.loaded[f] ELSE NewPpu[f]]
Started(program) ==
  LET after[i \in 0..Len(program.setup)] ==
        IF i = 0 THEN Loaded(program)
        ELSE WriteReg(after[i - 1], program.setup[i][1], program.setup[i][2])
  IN [BeginFrame(after[Len(program.setup)]) EXCEPT !.line = program.from]
Init ==
  \E program \in Programs :
    /\ p = Started(program)
    /\ back = [row \in Rows |-> [x \in Columns |-> <<0, 0, 0>>]]
    /\ work = [main |-> program.main, handler |-> program.handler, inside |-> FALSE,
               lines |-> program.lines]

(***************************************************************************)
(* The next access, of the handler when it is inside.                      *)
(***************************************************************************)
Todo == IF work.inside THEN work.handler ELSE work.main
Access == Todo[1]
Accessed(q) ==
  /\ p' = q
  /\ work' = IF work.inside
             THEN [work EXCEPT !.handler = Tail(@), !.inside = Len(work.handler) > 1]
             ELSE [work EXCEPT !.main = Tail(@)]
  /\ UNCHANGED back

CpuWrite == /\ Todo # <<>>
            /\ Access.kind = "write"
            /\ Accessed(WriteReg(p, Access.reg, Access.value))
CpuRead == /\ Todo # <<>>
           /\ Access.kind = "read"
           /\ IF Access.reg = \h37 THEN \E dot \in Dots : Accessed(ReadReg(LatchCounters(p, dot), \h37))
              ELSE Accessed(ReadReg(p, Access.reg))

EnterHandler == /\ ~work.inside
                /\ work.handler # <<>>
                /\ work' = [work EXCEPT !.inside = TRUE]
                /\ UNCHANGED <<p, back>>

(***************************************************************************)
(* The end of a line: it is drawn, and the next one is begun.              *)
(***************************************************************************)
Drawing == /\ p.line \in 1..(VblankStart(p) - 1)
           /\ RowOf(p, p.line) # -1
DrawnLine(q) == [x \in Columns |-> Column(q, q.line, x)]
NextLineOf(q) ==
  LET next == (q.line + 1) % 262
      on == IF next = 0 THEN BeginFrame(q) ELSE [q EXCEPT !.line = next]
  IN IF next = VblankStart(on) THEN BeginVblank(on) ELSE on
EndLine == /\ work.lines > 0
           /\ back' = IF Drawing THEN [back EXCEPT ![RowOf(p, p.line)] = DrawnLine(p)] ELSE back
           /\ p' = NextLineOf(p)
           /\ work' = [work EXCEPT !.lines = @ - 1]

Next == CpuWrite \/ CpuRead \/ EnterHandler \/ EndLine
Spec == Init /\ [][Next]_vars

-----------------------------------------------------------------------------
(***************************************************************************)
(* What a program may expect of the picture unit: to read the video memory *)
(* it has written, tiles and sprites that are mirrored whole, and one      *)
(* picture from both ways to draw a background.                            *)
(*                                                                         *)
(* stale records what has happened; no action reads it.                    *)
(***************************************************************************)
VARIABLE stale \* Half a word was written, or another layout chosen, since a word was fetched.

allVars == <<p, back, work, stale>>

Accesses(kind, r) == Todo # <<>> /\ Access.kind = kind /\ Access.reg = r
MovesOn(high) == \/ Accesses("write", IF high THEN \h19 ELSE \h18)
                 \/ Accesses("read", IF high THEN \h3A ELSE \h39)
Fetches == Accesses("write", \h16) \/ Accesses("write", \h17) \/ MovesOn(p.vmain.onHigh)
Spoils == \E r \in {\h15, \h18, \h19} : Accesses("write", r)

PInit == Init /\ stale = TRUE
PNext == \/ (CpuWrite \/ CpuRead) /\ stale' = (~Fetches /\ (stale \/ Spoils))
         \/ (EnterHandler \/ EndLine) /\ UNCHANGED stale
PSpec == PInit /\ [][PNext]_allVars

(***************************************************************************)
(* The word fetched ahead is the one in memory: whatever the program and   *)
(* its interrupt handler wrote and read, the ports show what is there,     *)
(* until half a word is written or the layout of addresses is changed.     *)
(* (reload_prefetch and its callers.)                                      *)
(***************************************************************************)
PrefetchFresh == ~stale => p.prefetch = WordAt(p, VramWord(p))

(***************************************************************************)
(* A tile or a sprite with its flip bit set shows, over its whole width or *)
(* height, the mirror image of what it shows without: the parts of a large *)
(* one are exchanged and each is mirrored.  (render_bg_pixel_dims and      *)
(* render_sprite_line; a sprite that is not square is flipped in halves.)  *)
(***************************************************************************)
ToggleBit(n, i) == IF Bit(n, i) THEN n - 2^i ELSE n + 2^i
EntryToggled(q, bg, i) ==
  LET a == W16(q.sc[bg].base + 1)
  IN [q EXCEPT !.vram = Poke(@, a, ToggleBit(Peek(@, a), i - 8))]
\* The tile of the first entry of the map is behind the map in memory.
MapApart(bg, depth) ==
  /\ p.tiles[bg] > p.sc[bg].base + 1
  /\ p.tiles[bg] + 8 * depth * ((Entry(p, bg, 0, 0) % 1024) + 18) <= 65536
TileMirrored(bg) ==
  LET depth == Depths(p.mode)[bg + 1]
      size == TileSize(p, bg)
      across == EntryToggled(p, bg, 14)
      down == EntryToggled(p, bg, 15)
  IN MapApart(bg, depth) =>
     \A x \in 0..(size - 1), y \in {0, size \div 2 - 1, size - 1} :
       LET at(q, u, v) == TilePixel(q, bg, depth, 0, size, size, u, v)
       IN /\ at(p, x, y).color = at(across, size - 1 - x, y).color
          /\ at(p, y, x).color = at(down, y, size - 1 - x).color

SpriteToggled(q, i, bit) == [q EXCEPT !.oam = Poke(@, 4 * i + 3, ToggleBit(Peek(@, 4 * i + 3), bit))]
SpriteMirrored(i) ==
  LET s == Sprite(p, i)
      w == s.width
      h == s.height
      at(q, u, v) == SpritePixel(q, i, s.y + v + 1, s.x + u).color
  IN \A u \in {0, w \div 2 - 1, w - 1}, v \in {0, h \div 2 - 1, h - 1} :
       /\ at(p, u, v) = at(SpriteToggled(p, i, 6), w - 1 - u, v)
       /\ (w = h /\ ~Bit(Reg(p, \h33), 1)) => at(p, u, v) = at(SpriteToggled(p, i, 7), u, h - 1 - v)

Mirrored == /\ p.mode \in 0..4 => \A bg \in 0..(Len(Depths(p.mode)) - 1) : TileMirrored(bg)
            /\ \A i \in {0, 1} : SpriteMirrored(i)

(***************************************************************************)
(* A background of small tiles is the same picture whether it is drawn by  *)
(* the line (modes 0, 1 and 3) or sample by sample (modes 2 and 4 to 6),   *)
(* as long as no column has an offset of its own.  (render_bg_line and     *)
(* render_mode_bg_pixel; with large tiles the first wraps after 512.)      *)
(***************************************************************************)
NoOffsets(q, mode, x) ==
  \A row \in {0, 1} : ~Bit(OffsetEntry(q, mode, x, q.line - 1, row), 13)
RenderersAgree ==
  (p.line \in 1..224 /\ ~p.big[0]) =>
     LET q == [p EXCEPT !.mosaicOn = 0]
     IN \A x \in Columns, mode \in {2, 4} :
          NoOffsets(q, mode, x) => SamplePixel(q, mode, 0, 4, x, p.line) = LinePixel(q, 0, 4, 0, p.line, x)
=============================================================================

------------------------------ MODULE PpuLayers ------------------------------
(***************************************************************************)
(* What each layer of the picture unit has at a column x of a scan line:   *)
(* tiles of the backgrounds, the rotated plane of mode 7, and the sprites. *)
(* A pixel is the colour number in its tile (0 is transparent), its index  *)
(* in the palette, the palette group of its tile and its priority.         *)
(***************************************************************************)
EXTENDS PpuPorts, FiniteSetsExt

Transparent == [color |-> 0, index |-> 0, group |-> 0, prio |-> 0]

(***************************************************************************)
(* Tile maps of one, two or four screens of 32 by 32 entries, and tiles of *)
(* bit planes, two planes in every 16 bytes.                               *)
(***************************************************************************)
Entry(p, bg, tx, ty) ==
  LET sc == p.sc[bg]
      right == sc.wide /\ Bit(tx, 5)
      below == sc.tall /\ Bit(ty, 5)
      screen == CASE right /\ below -> 3
                  [] right /\ ~below -> 1
                  [] below /\ ~right -> IF sc.wide THEN 2 ELSE 1
                  [] OTHER -> 0
      address == W16(sc.base + 2048 * screen + 64 * (ty % 32) + 2 * (tx % 32))
  IN Word(Peek(p.vram, address), Peek(p.vram, W16(address + 1)))

TileColor(vram, base, bpp, px, py) ==
  LET plane(i) == IF Bit(Peek(vram, W16(base + 2 * py + 16 * (i \div 2) + (i % 2))), 7 - px)
                  THEN 2^i ELSE 0
      upTo[n \in 0..8] == IF n = 0 THEN 0 ELSE plane(n - 1) + upTo[n - 1]
  IN upTo[bpp]

\* The pixel of colour c in a tile of the map entry e.
EntryPixel(e, bpp, palette, c) ==
  LET group == (e \div 1024) % 8
  IN [color |-> c, index |-> W8(palette + group * 2^bpp + c), group |-> group,
      prio |-> IF Bit(e, 13) THEN 1 ELSE 0]
CharColor(p, bg, bpp, char, fx, fy) ==
  TileColor(p.vram, W16(p.tiles[bg] + (char % 1024) * bpp * 8), bpp, fx % 8, fy % 8)
Flipped(on, n, size) == IF on THEN size - 1 - n ELSE n

\* Mutant: the parts of a flipped tile are mirrored but not exchanged.
TilePixelByParts(p, bg, bpp, palette, width, height, x, y) ==
  LET Of(e) ==
        EntryPixel(e, bpp, palette,
          CharColor(p, bg, bpp, e + (x % width) \div 8 + 16 * ((y % height) \div 8),
                    Flipped(Bit(e, 14), x % width, width), Flipped(Bit(e, 15), y % height, height)))
  IN Of(Entry(p, bg, x \div width, y \div height))
TilePixel(p, bg, bpp, palette, width, height, x, y) ==
  LET At(e, fx, fy) ==
        EntryPixel(e, bpp, palette,
                   CharColor(p, bg, bpp, e + fx \div 8 + 16 * (fy \div 8), fx, fy))
      Of(e) == At(e, Flipped(Bit(e, 14), x % width, width), Flipped(Bit(e, 15), y % height, height))
  IN Of(Entry(p, bg, x \div width, y \div height))

(***************************************************************************)
(* Mosaic: lines and columns are taken from the first of their block.      *)
(***************************************************************************)
MosaicLine(p, line, bg) ==
  LET size == p.mosaicSize + 1
      offset == IF line > p.mosaicStart THEN line - p.mosaicStart ELSE 0
  IN IF Bit(p.mosaicOn, bg) THEN p.mosaicStart + (offset \div size) * size ELSE line
MosaicColumn(p, x, bg) ==
  LET size == p.mosaicSize + 1 IN IF Bit(p.mosaicOn, bg) THEN (x \div size) * size ELSE x

TileSize(p, bg) == IF p.big[bg] THEN 16 ELSE 8

\* Modes 0, 1 and 3: a background scrolled as a whole.
LinePixel(p, bg, bpp, palette, line, x) ==
  TilePixel(p, bg, bpp, palette, TileSize(p, bg), TileSize(p, bg),
            (x + p.scroll[bg].h) % 512, (MosaicLine(p, line - 1, bg) + p.scroll[bg].v) % 512)

(***************************************************************************)
(* Modes 2, 4, 5 and 6: from the second column of tiles on, the third      *)
(* background gives the offsets of the other two; modes 5 and 6 have two   *)
(* samples in a column, and two lines in one when interlaced.              *)
(***************************************************************************)
Hires(mode) == mode \in {5, 6}
OffsetEntry(p, mode, sample, y, row) ==
  LET size == TileSize(p, 2)
      scale == IF mode = 6 THEN 2 ELSE 1
      first == IF Hires(mode) THEN 16 ELSE 8
  IN Entry(p, 2, (sample - first + p.scroll[2].h * scale) \div size,
           (y + p.scroll[2].v) \div size + row)
SamplePoint(p, mode, bg, sample, y) ==
  LET scale == IF Hires(mode) THEN 2 ELSE 1
      plain == <<sample + p.scroll[bg].h * scale, y + p.scroll[bg].v>>
      h == OffsetEntry(p, mode, sample, y, 0)
      v == OffsetEntry(p, mode, sample, y, 1)
      moved == sample + ((h % 8192) \div 8) * 8 + (p.scroll[bg].h % 8) * scale
      both == <<IF Bit(h, 13 + bg) THEN moved ELSE plain[1],
                IF Bit(v, 13 + bg) THEN y + (v % 8192) ELSE plain[2]>>
      one == IF ~Bit(h, 13 + bg) THEN plain
             ELSE IF Bit(h, 15) THEN <<plain[1], y + (h % 8192)>> ELSE <<moved, plain[2]>>
  IN CASE sample < 8 * scale \/ mode = 5 -> plain
       [] sample >= 8 * scale /\ mode = 4 -> one
       [] OTHER -> both
SampleLine(p, mode, first, line) ==
  IF Hires(mode) /\ Bit(Reg(p, \h33), 0)
  THEN 2 * (line - 1) + (IF p.field THEN 1 ELSE 0) ELSE line - first
SampleOf(p, mode, bg, bpp, point) ==
  IF bpp = 0 THEN Transparent
  ELSE TilePixel(p, bg, bpp, 0, IF Hires(mode) THEN 16 ELSE TileSize(p, bg), TileSize(p, bg),
                 point[1] % 8192, point[2] % 8192)
\* Mutant: the line is counted from one.
SamplePixelNextLine(p, mode, bg, bpp, sample, line) ==
  SampleOf(p, mode, bg, bpp, SamplePoint(p, mode, bg, sample, SampleLine(p, mode, 0, line)))
SamplePixel(p, mode, bg, bpp, sample, line) ==
  SampleOf(p, mode, bg, bpp, SamplePoint(p, mode, bg, sample, SampleLine(p, mode, 1, line)))

(***************************************************************************)
(* Mode 7: a plane of 128 by 128 tiles, rotated and scaled in 8.8 fixed    *)
(* point; the map is in the low bytes of video memory, the tiles in the    *)
(* high ones.                                                              *)
(***************************************************************************)
Sign13(n) == IF n % 8192 >= 4096 THEN (n % 8192) - 8192 ELSE n % 8192
Clip(n) == IF (n \div 8192) % 2 = 1 THEN (n % 1024) - 1024 ELSE n % 1024
To64(n) == (n \div 64) * 64

Mode7Point(p, line, x) ==
  LET m7 == p.m7
      sx == MosaicColumn(p, x, 0)
      sy == MosaicLine(p, line - 1, 0)
      fx == IF Bit(Reg(p, \h1A), 0) THEN 255 - sx ELSE sx
      fy == IF Bit(Reg(p, \h1A), 1) THEN 255 - sy ELSE sy
      cx == Sign13(m7["x"])
      cy == Sign13(m7["y"])
      dx == Clip(Sign13(m7["h"]) - cx)
      dy == Clip(Sign13(m7["v"]) - cy)
      at(a, b, center) ==
        (To64(a * dx) + To64(b * dy) + To64(b * fy) + 256 * center + a * fx) \div 256
  IN <<at(m7["a"], m7["b"], cx), at(m7["c"], m7["d"], cy)>>
Mode7Color(p, line, x) ==
  LET pt == Mode7Point(p, line, x)
      outside == pt[1] \notin 0..1023 \/ pt[2] \notin 0..1023
      repeat == Reg(p, \h1A) \div 64
      map == 2 * (128 * ((pt[2] \div 8) % 128) + ((pt[1] \div 8) % 128))
      tile == IF repeat = 3 /\ outside THEN 0 ELSE Peek(p.vram, map)
  IN IF repeat = 2 /\ outside THEN 0
     ELSE Peek(p.vram, 2 * (64 * tile + 8 * (pt[2] % 8) + (pt[1] % 8)) + 1)

(***************************************************************************)
(* Sprites: 128, of two sizes.  The lowest index that is not transparent   *)
(* at a column is shown, whatever its priority against the backgrounds.    *)
(***************************************************************************)
SmallSizes == <<<<8, 8>>, <<8, 8>>, <<8, 8>>, <<16, 16>>, <<16, 16>>, <<32, 32>>, <<16, 32>>, <<16, 32>>>>
LargeSizes == <<<<16, 16>>, <<32, 32>>, <<64, 64>>, <<32, 32>>, <<64, 64>>, <<64, 64>>, <<32, 64>>, <<32, 32>>>>

Sprite(p, i) ==
  LET byte(n) == Peek(p.oam, 4 * i + n)
      extra == (Peek(p.oam, 512 + (i \div 4)) \div 4^(i % 4)) % 4
      size == (IF extra >= 2 THEN LargeSizes ELSE SmallSizes)[p.obsel.size + 1]
  IN [x |-> byte(0) - (IF extra % 2 = 1 THEN 256 ELSE 0), y |-> byte(1),
      tile |-> Word(byte(2), byte(3) % 2), palette |-> (byte(3) \div 2) % 8,
      prio |-> (byte(3) \div 16) % 4, hflip |-> Bit(byte(3), 6), vflip |-> Bit(byte(3), 7),
      width |-> size[1], height |-> size[2]]

\* The row of the sprite on this line, or -1.
SpriteRow(p, s, line) ==
  LET interlaced == Bit(Reg(p, \h33), 1)
      height == IF interlaced /\ p.obsel.size >= 6 /\ s.width = 16 THEN 16 ELSE s.height
      dy == (line - 1 - s.y) % 256
      row == IF interlaced THEN 2 * dy ELSE dy
      field == IF interlaced /\ p.field THEN 1 ELSE 0
      flipped == CASE s.width = height -> height - 1 - row
                   [] s.width # height /\ row < s.width -> s.width - 1 - row
                   [] OTHER -> 3 * s.width - 1 - row
  IN IF dy >= (IF interlaced THEN height \div 2 ELSE height) THEN -1
     ELSE IF s.vflip THEN (flipped - field) % 256 ELSE (row + field) % 256

SpritePixel(p, i, line, x) ==
  LET Color(s, row, col) ==
        LET tile == (s.tile + 16 * (row \div 8) + (col \div 8)) % 512
            page == IF tile < 256 THEN 0 ELSE 8192 * (p.obsel.select + 1)
        IN TileColor(p.vram, W16(16384 * p.obsel.base + page + 32 * (tile % 256)), 4,
                     col % 8, row % 8)
      Colored(s, c) ==
        [color |-> c, index |-> W8(128 + 16 * s.palette + c), group |-> 0, prio |-> s.prio]
      In(s, row) == IF x - s.x \notin 0..(s.width - 1) \/ row = -1 THEN Transparent
                    ELSE Colored(s, Color(s, row, Flipped(s.hflip, x - s.x, s.width)))
      Of(s) == In(s, SpriteRow(p, s, line))
  IN Of(Sprite(p, i))
SpriteAt(p, line, x) ==
  LET First(pixel) ==
        LET hits == {i \in DOMAIN pixel : pixel[i].color # 0}
        IN IF hits = {} THEN Transparent ELSE pixel[Min(hits)]
  IN First([i \in 0..127 |-> SpritePixel(p, i, line, x)])
=============================================================================

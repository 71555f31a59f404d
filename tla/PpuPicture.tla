----------------------------- MODULE PpuPicture -----------------------------
(***************************************************************************)
(* How a scan line is composed: windows, the order of the layers in each   *)
(* mode, the main and the sub screen, colour mathematics and brightness.   *)
(* Layers are numbered 0 to 3 for the backgrounds and 4 for the sprites; 5 *)
(* is the backdrop.                                                        *)
(***************************************************************************)
EXTENDS PpuLayers, Sequences

OBJ == 4
BACKDROP == 5

(***************************************************************************)
(* Windows.  Of the four bits that select windows for a layer, bits 0 and  *)
(* 2 invert the first and the second, bits 1 and 3 enable them.            *)
(***************************************************************************)
InRange(p, w, x) == Reg(p, \h26 + 2 * w) <= x /\ x <= Reg(p, \h27 + 2 * w)
Selection(p, layer) == (Reg(p, \h23 + layer \div 2) \div 16^(layer % 2)) % 16
Operation(p, layer) == (Reg(p, \h2A + layer \div 4) \div 4^(layer % 4)) % 4
InWindow(p, layer, x) ==
  LET select == Selection(p, layer)
      in(w) == InRange(p, w, x) # Bit(select, 2 * w)
      both == <<in(0) \/ in(1), in(0) /\ in(1), in(0) # in(1), in(0) = in(1)>>
  IN CASE Bit(select, 1) /\ Bit(select, 3) -> both[Operation(p, layer) + 1]
       [] Bit(select, 1) /\ ~Bit(select, 3) -> in(0)
       [] ~Bit(select, 1) /\ Bit(select, 3) -> in(1)
       [] OTHER -> FALSE
ColorWindow(p, x) == InWindow(p, BACKDROP, x)

(***************************************************************************)
(* The layers of each mode, their bits per pixel, and their order from the *)
(* front: pairs of a layer and the priority of its pixel.                  *)
(***************************************************************************)
Depths(mode) ==
  CASE mode = 0 -> <<2, 2, 2, 2>> [] mode = 1 -> <<4, 4, 2>> [] mode = 2 -> <<4, 4>>
    [] mode = 3 -> <<8, 4>> [] mode = 4 -> <<8, 2>> [] mode = 5 -> <<4, 2>>
    [] mode = 6 -> <<4, 0>> [] mode = 7 -> <<8, 7>>

Mode0Order == <<<<OBJ, 3>>, <<0, 1>>, <<1, 1>>, <<OBJ, 2>>, <<0, 0>>, <<1, 0>>, <<OBJ, 1>>,
                <<2, 1>>, <<3, 1>>, <<OBJ, 0>>, <<2, 0>>, <<3, 0>>>>
Mode1Order(front) ==
  IF front THEN <<<<2, 1>>, <<OBJ, 3>>, <<0, 1>>, <<1, 1>>, <<OBJ, 2>>, <<0, 0>>, <<1, 0>>, <<OBJ, 1>>,
                  <<OBJ, 0>>, <<2, 0>>>>
  ELSE <<<<OBJ, 3>>, <<0, 1>>, <<1, 1>>, <<OBJ, 2>>, <<0, 0>>, <<1, 0>>, <<OBJ, 1>>, <<2, 1>>,
         <<OBJ, 0>>, <<2, 0>>>>
Mode3Order == <<<<OBJ, 3>>, <<0, 1>>, <<1, 1>>, <<OBJ, 2>>, <<0, 0>>, <<1, 0>>, <<OBJ, 1>>, <<OBJ, 0>>>>
TwoBgOrder == <<<<OBJ, 3>>, <<0, 1>>, <<OBJ, 2>>, <<1, 1>>, <<OBJ, 1>>, <<0, 0>>, <<OBJ, 0>>, <<1, 0>>>>
Mode7Order == <<<<OBJ, 3>>, <<1, 1>>, <<OBJ, 2>>, <<0, 0>>, <<OBJ, 1>>, <<1, 0>>, <<OBJ, 0>>>>
Order(p) ==
  CASE p.mode = 0 -> Mode0Order
    [] p.mode = 1 -> Mode1Order(p.bg3Priority)
    [] p.mode = 3 -> Mode3Order
    [] p.mode = 7 -> Mode7Order
    [] OTHER -> TwoBgOrder

(***************************************************************************)
(* The pixels of all layers at a column.  Modes 0, 1 and 3 draw only the   *)
(* layers of the main screen, and quantise columns for it alone.           *)
(***************************************************************************)
WholeLine(p) == p.mode \in {0, 1, 3}
Drawn(p, layer) ==
  Bit(Reg(p, \h2C), layer) \/ (~WholeLine(p) /\ (layer # OBJ \/ Bit(Reg(p, \h2D), layer)))
Mode7Pixel(p, line, x) ==
  LET Planes(raw) ==
        <<[color |-> raw, index |-> raw, group |-> 0, prio |-> 0],
          IF Bit(Reg(p, \h33), 6)
          THEN [color |-> raw % 128, index |-> raw % 128, group |-> 0, prio |-> raw \div 128]
          ELSE Transparent>>
  IN Planes(Mode7Color(p, line, x))
BgPixel(p, bg, line, x, phase, main) ==
  LET depth == Depths(p.mode)[bg + 1]
      column == IF main THEN MosaicColumn(p, x, bg) ELSE x
  IN CASE p.mode = 7 -> Mode7Pixel(p, line, x)[bg + 1]
       [] WholeLine(p) -> LinePixel(p, bg, depth, IF p.mode = 0 THEN 32 * bg ELSE 0, line, column)
       [] OTHER -> SamplePixel(p, p.mode, bg, depth, IF Hires(p.mode) THEN 2 * x + phase ELSE x, line)
Pixels(p, line, x, phase, main) ==
  [layer \in (0..(Len(Depths(p.mode)) - 1)) \cup {OBJ} |->
     IF ~Drawn(p, layer) THEN Transparent
     ELSE IF layer = OBJ THEN SpriteAt(p, line, x) ELSE BgPixel(p, layer, line, x, phase, main)]

\* The layer in front, among those that are shown.
FrontLayer(p, pixels, shown) ==
  LET order == Order(p)
      hits == {i \in DOMAIN order : /\ order[i][1] \in shown
                                    /\ pixels[order[i][1]].prio = order[i][2]}
  IN IF hits = {} THEN BACKDROP ELSE order[Min(hits)][1]
Shown(p, pixels, x, enabled, masked) ==
  {layer \in DOMAIN pixels : /\ layer \in enabled
                             /\ pixels[layer].color # 0
                             /\ ~(Bit(Reg(p, masked), layer) /\ InWindow(p, layer, x))}
Enabled(p, screen) == {layer \in 0..4 : Bit(Reg(p, screen), layer)}
\* In modes 0 and 1 the sub screen shows the sprites whatever its register says.
SubEnabled(p) ==
  CASE p.mode \in {0, 1} -> Enabled(p, \h2D) \cup {OBJ}
    [] p.mode = 3 -> {}
    [] OTHER -> Enabled(p, \h2D)

(***************************************************************************)
(* Colours: an index in the palette, or a direct colour of a background    *)
(* with 256 colours.                                                       *)
(***************************************************************************)
Indexed(i) == [direct |-> FALSE, value |-> i]
DirectColor(color, group) ==
  LET at(n, i, w) == IF Bit(n, i) THEN w ELSE 0
      low(i) == at(color, i, 2^(i + 2))
  IN low(0) + low(1) + low(2) + at(group, 0, 2) + at(group, 1, 64) + at(group, 2, 4096)
     + at(color, 3, 128) + at(color, 4, 256) + at(color, 5, 512) + at(color, 6, 8192) + at(color, 7, 16384)
ColorOf(p, pixels, layer) ==
  IF layer = BACKDROP THEN Indexed(0)
  ELSE IF layer = 0 /\ p.mode \in {3, 4, 7} /\ Bit(Reg(p, \h30), 0)
  THEN [direct |-> TRUE, value |-> DirectColor(pixels[0].color, pixels[0].group)]
  ELSE Indexed(pixels[layer].index)
Bgr(p, c) == IF c.direct THEN c.value ELSE Word(Peek(p.cgram, 2 * c.value), Peek(p.cgram, 2 * c.value + 1))
Parts(bgr) == <<bgr % 32, (bgr \div 32) % 32, (bgr \div 1024) % 32>>

(***************************************************************************)
(* Colour mathematics: each part is added or subtracted, halved, and only  *)
(* then clamped.                                                           *)
(***************************************************************************)
Clamp5(n) == IF n < 0 THEN 0 ELSE IF n > 31 THEN 31 ELSE n
ColorMath(main, sub, add, half) ==
  [i \in 1..3 |-> LET v == IF add THEN main[i] + sub[i] ELSE main[i] - sub[i]
                  IN Clamp5(IF half THEN v \div 2 ELSE v)]
\* Bits 4 and 5 say where colours are computed, bits 6 and 7 where the main screen is black.
MathRegion(p, x) ==
  LET region == (Reg(p, \h30) \div 16) % 4
  IN region = 0 \/ (region = 1 /\ ColorWindow(p, x)) \/ (region = 2 /\ ~ColorWindow(p, x))
Clipped(p, x) ==
  LET region == Reg(p, \h30) \div 64
  IN region = 3 \/ (region = 1 /\ ~ColorWindow(p, x)) \/ (region = 2 /\ ColorWindow(p, x))
MathEnabled(p, pixels, layer) ==
  /\ Bit(Reg(p, \h31), layer)
  /\ (layer = OBJ /\ ~WholeLine(p)) => pixels[OBJ].index >= 192
Composite(p, x, main, sub, math) ==
  LET clipped == Clipped(p, x)
      useSub == Bit(Reg(p, \h30), 1)
      empty == sub = Indexed(0)
      front == IF clipped THEN <<0, 0, 0>> ELSE Parts(Bgr(p, main))
      operand == Parts(IF useSub /\ ~empty THEN Bgr(p, sub) ELSE p.fixed)
      half == Bit(Reg(p, \h31), 6) /\ ~(useSub /\ empty) /\ ~clipped
  IN IF math /\ MathRegion(p, x) THEN ColorMath(front, operand, ~Bit(Reg(p, \h31), 7), half) ELSE front

\* Five bits to eight, scaled by the brightness: red, green and blue as published.
Published(p, parts) ==
  [i \in 1..3 |-> ((8 * parts[i] + parts[i] \div 4) * (p.brightness + 1)) \div 16]
Blend(a, b) == [i \in 1..3 |-> (a[i] + b[i]) \div 2]

(***************************************************************************)
(* One sample of a column, a column, a line.                               *)
(***************************************************************************)
MainFront(p, pixels, x) == FrontLayer(p, pixels, Shown(p, pixels, x, Enabled(p, \h2C), \h2E))
SubFront(p, pixels, x) == FrontLayer(p, pixels, Shown(p, pixels, x, SubEnabled(p), \h2F))
Sample(p, line, x, phase) ==
  LET Shows(shown, sub) ==
        IF Bit(Reg(p, \h33), 3) /\ ~Hires(p.mode)
        THEN Blend(shown, Published(p, Parts(Bgr(p, sub)))) ELSE shown
      Mixed(pixels, front, sub) ==
        Shows(Published(p, Composite(p, x, ColorOf(p, pixels, front), sub,
                                     MathEnabled(p, pixels, front))), sub)
      Under(pixels) == ColorOf(p, pixels, SubFront(p, pixels, x))
      Over(screen) == Mixed(screen[TRUE], MainFront(p, screen[TRUE], x),
                            Under(screen[p.mode \notin {0, 1}]))
  IN Over([main \in BOOLEAN |-> Pixels(p, line, x, phase, main)])
Column(p, line, x) ==
  LET Of(sample) == IF Hires(p.mode) THEN Blend(sample[0], sample[1]) ELSE sample[0]
  IN IF p.forceBlank THEN <<0, 0, 0>> ELSE Of([phase \in {0, 1} |-> Sample(p, line, x, phase)])

\* The row of the published picture a line is drawn in, or -1: 239 lines are cropped.
RowOf(p, line) == IF ~p.overscan THEN line - 1 ELSE IF line \in 8..231 THEN line - 8 ELSE -1
=============================================================================

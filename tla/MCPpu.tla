-------------------------------- MODULE MCPpu --------------------------------
(***************************************************************************)
(* Programs for the picture unit: streams through the memory ports under   *)
(* an interrupt, every register, pictures in all modes that change while   *)
(* they are drawn, and frames that begin, end and are cropped.             *)
(***************************************************************************)
EXTENDS Ppu

MCColumns == {0, 7, 9, 130}
MCDots == {0, 300}

W(writes) == [i \in DOMAIN writes |-> Write(writes[i][1], writes[i][2])]
Nothing == [vram |-> <<>>]
Program(loaded, setup, main, handler, from, lines) ==
  [loaded |-> loaded, setup |-> setup, main |-> main, handler |-> handler, from |-> from, lines |-> lines]

\* Words in memory from a word address on; bytes from the start.
Words16(at, words) ==
  [i \in (2 * at)..(2 * (at + Len(words)) - 1) |->
     LET w == words[i \div 2 - at + 1] IN IF i % 2 = 0 THEN Lo(w) ELSE Hi(w)]
Bytes(bytes) == [i \in 0..(Len(bytes) - 1) |-> bytes[i + 1]]

(***************************************************************************)
(* Streams.                                                                *)
(***************************************************************************)
LowThenHigh == W(<<<<\H18, \H11>>, <<\H19, \H22>>, <<\H18, \H33>>, <<\H19, \H44>>>>)
ReadBack == <<Read(\H39, 0), Read(\H3A, 0), Read(\H39, 0), Read(\H3A, 0)>>
At(a) == W(<<<<\H16, Lo(a)>>, <<\H17, Hi(a)>>>>)
Handlers == {<<Read(\H39, 0), Read(\H3A, 0)>>, W(<<<<\H18, \H77>>>>), At(\H21), W(<<<<\H15, \H81>>>>),
             <<Read(\H3B, 0), Read(\H38, 0), Read(\H37, 0), Read(\H3C, 0)>>}
Streams ==
  {Program([vram |-> Words16(0, <<\H0102, \H0304, \H0506>>)], <<<<\H15, vmain>>>>,
           At(a) \o LowThenHigh \o At(a) \o ReadBack, handler, 230, 0) :
     vmain \in {0, \H80, \H84, \H89, \H0E}, a \in {0, \H00E1}, handler \in Handlers}

(***************************************************************************)
(* Every register written and read, at the end of the lines 0, 1 and 224,  *)
(* with the latches of two others in between.                              *)
(***************************************************************************)
EveryRegister ==
  {Program(Nothing, <<<<\H1B, \H34>>, <<\H1B, \H92>>, <<\H1C, \HF0>>, <<\H21, 255>>>>,
           <<Write(r, v), Write(r, 5), Read(r, \HFF), Read(\H37, 0), Read(r, 0), Read(\H3F, \HA0)>>,
           <<Write(\H0D, 3)>>, from, 1) :
     r \in 0..63, v \in {\HFF, 0}, from \in {0, 224}}

(***************************************************************************)
(* Pictures: a map whose tiles are plain, flipped and in front; two tiles  *)
(* of stripes; two sprites, one of them large, over one another.           *)
(***************************************************************************)
Palette == Words16(0, [i \in 1..20 |-> (i * 1123) % 32768]) @@ Words16(129, <<\H7C00, \H03E0, \H001F>>)
           @@ Words16(193, <<\H4210, \H7FFF>>)
Tiles == Words16(\H1000, [i \in 1..48 |-> (i * 20563) % 65536])
Map == Words16(0, <<1, \H4001, \HA402, 2, \HE001>>)
Offsets == Words16(\H0C00, <<\H2003, \H6008, \HA001, 0>>)
Sprites == Bytes(<<4, 0, 0, \H30, 0, 2, 1, \HC5, 128, 0, 1, \H2A>>) @@ (512 :> 8)
Image(rest) == [vram |-> Tiles @@ Map @@ rest, cgram |-> Palette, oam |-> Sprites]
Scene(mode, rest) ==
  <<<<7, 1>>, <<8, 2>>, <<9, \H0C>>, <<\H0B, \H11>>, <<\H0C, \H11>>, <<1, \H61>>, <<0, 9>>, <<5, mode>>>> \o rest

Blending == <<<<\H2C, \H11>>, <<\H2D, \H12>>, <<\H30, \H12>>, <<\H31, \H7F>>, <<\H32, \HE9>>,
              <<\H23, \H2B>>, <<\H25, \HA3>>, <<\H26, 4>>, <<\H27, 8>>, <<\H28, 7>>, <<\H29, 200>>, <<\H2B, 6>>,
              <<\H2E, \H11>>, <<\H2F, 1>>>>
Clipping == <<<<\H2C, \H1F>>, <<\H2D, 0>>, <<\H30, \H61>>, <<\H31, \HBF>>, <<\H32, \H45>>, <<\H25, \H20>>, <<\H27, 9>>>>
Interlaced == <<<<\H2C, \H17>>, <<\H2D, \H17>>, <<\H30, 2>>, <<\H31, \H21>>, <<\H33, \H4B>>>>
Turned == <<<<\H1B, 0>>, <<\H1B, 1>>, <<\H1C, 128>>, <<\H1C, 255>>, <<\H1E, 0>>, <<\H1E, 2>>, <<\H1F, 5>>, <<\H1F, 0>>>>
Changes ==
  {W(<<<<13, 3>>, <<13, 0>>, <<6, \H15>>>>), W(<<<<0, \H80>>, <<0, 15>>>>), W(<<<<14, 4>>, <<14, 1>>, <<5, \H11>>>>),
   W(<<<<\H1A, \HC1>>, <<5, \H0F>>>>), W(<<<<\H27, 3>>, <<\H33, 4>>>>)}
Pictures ==
  {Program(Image(<<>>), Scene(mode, rest \o Turned), main, <<>>, 0, 4) :
     mode \in (0..7) \cup {9, \HF0, \HF1}, rest \in {Blending, Clipping, Interlaced}, main \in Changes}
  \cup {Program(Image(Offsets), Scene(mode, Clipping \o <<<<11, \H14>>, <<\H0F, 9>>, <<\H0F, 0>>>>), <<>>, <<>>, 0, 3) : mode \in {2, 4, 6}}

(***************************************************************************)
(* The boundaries of a frame, with and without overscan.                   *)
(***************************************************************************)
Boundaries ==
  {Program(Image(<<>>), Scene(0, Clipping \o <<<<\H33, setini>>>>),
           W(<<<<\H33, 4 - setini>>, <<0, 15>>>>), <<Read(\H37, 0), Read(\H3D, 0), Read(\H3D, 0)>>, from, 4) :
     setini \in {0, 4}, from \in {6, 223, 230, 238, 259}}

MCPrograms == Streams \cup EveryRegister \cup Pictures \cup Boundaries
=============================================================================

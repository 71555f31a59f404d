-------------------------------- MODULE MCBus --------------------------------
(***************************************************************************)
(* A cartridge of 64 KiB with 2 KiB to save in, blocks at the ends of      *)
(* banks and of the save memory, and an access of every kind.              *)
(***************************************************************************)
EXTENDS Bus

MCRom == (\H7FFD :> \H80) @@ (0 :> \H31) @@ (\H8000 :> \H32)
MCLoaded ==
  [a \in {\H10, \H11, \H12, \H1FFE, \H1FFF, \H10000, \H10001, \H1FFFF} |-> (a % 251) + 1]

File(dmap, bbad, bank, at, count) ==
  [File0 EXCEPT !.dmap = dmap, !.bbad = bbad, !.a1b = bank, !.a1t = at, !.das = count]
MCChannels ==
  {<<File(0, \H80, \H7E, \H10, 3), File(\H80, \H80, \H70, \H7FFE, 0)>>,
   <<File(\H10, \H80, \H7F, 1, 3), File(\H92, \H80, \HF0, \H0801, 2)>>,
   <<File(1, \H18, \H80, \H1FFE, 4), File(\H81, \H39, 0, \H1FFE, 4)>>,
   <<File(8, \H22, 0, \H8000, 2), File(\H80, \H40, \HC0, \HFFFF, 2)>>,
   <<File(4, \H80, \H7E, \H10, 4), File(\H84, \H34, \H7D, \H7FFF, 8)>>,
   <<File(6, \H80, \H71, \H7FE, 2), File(\H88, \H3C, \H7F, \HFFFF, 3)>>}

Reads ==
  {\H001FFE, \H802000, \H002115, \H002137, \H002139, \H00213C, \H002140, \H802180, \H0021C0, \H004016,
   \H004213, \H004214, \H004217, \H004305, \H00431B, \H008000, \H018000, \HC18000, \H406000, \H7E1FFF,
   \HF07FFE, \H700801}
SomeWrites ==
  {<<\H001FFE, \HA5>>, <<\H80FFFE, 1>>, <<\H7F0001, \H5A>>, <<\HF50FFE, \H3C>>, <<\H7047FF, \HC3>>, <<\H002118, 7>>,
   <<\H002115, \H80>>, <<\H002141, 9>>, <<\H802180, \H99>>, <<\H002181, \HFE>>, <<\H002182, \HFF>>, <<\H002183, 255>>,
   <<\H004016, 1>>, <<\H004201, \H7F>>, <<\H004202, 201>>, <<\H004203, 255>>, <<\H004204, 100>>, <<\H004205, 3>>,
   <<\H004206, 0>>, <<\H004206, 7>>, <<\H00420B, 0>>, <<\H00420B, 1>>, <<\H00420B, 2>>, <<\H00420B, 3>>,
   <<\H00420C, 2>>, <<\H80420D, 1>>, <<\H004300, \H90>>, <<\H004315, 2>>, <<\H004306, 0>>, <<\H00431A, 5>>,
   <<\H005000, 0>>, <<\H400000, 0>>, <<\HFE0000, 4>>}
MCOperations == {ReadAt(a) : a \in Reads} \cup {WriteAt(w[1], w[2]) : w \in SomeWrites}
MCProbes ==
  {\H10, \H800010, \H001FFE, \H7E1FFE, \HBF1FFE, \H7F0000, \H7F0001, \H7FFFFF, \H7F1FFE, \H7007FF, \H7047FF, \HF50FFE,
   \H7107FE, \HF00801, \H700802, \H7D7FFF}
=============================================================================

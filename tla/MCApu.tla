-------------------------------- MODULE MCApu --------------------------------
(***************************************************************************)
(* Sound programs: every opcode on two states of the processor, nested     *)
(* calls, timers read in several ways, and songs.                          *)
(***************************************************************************)
EXTENDS ApuProgram

MCVoices == {0, 1}
MCGauss == [i \in 0..511 |-> 2 * i]
MCStart == \H0200

Bytes(at, code) == [a \in at..(at + Len(code) - 1) |-> code[a - at + 1]]
Plain(image) == [image |-> image, steps |-> 2000, writes |-> 0]
Program(bytes) == Bytes(MCStart, bytes)
STOP == <<\HFF>>
Times(n, code) == [i \in 1..(n * Len(code)) |-> code[((i - 1) % Len(code)) + 1]]

\* MOV dp, #imm, which is how a program writes a register.
Mov(reg, v) == <<\H8F, v, reg>>
DspWrite(reg, v) == Mov(\HF2, reg) \o Mov(\HF3, v)
\* Rounds of three divisions, 41 cycles each.
Wait(rounds) == Mov(\H10, rounds) \o <<\H9E, \H9E, \H9E, \H6E, \H10, 250>>

(***************************************************************************)
(* Every opcode, with operands in memory and in the register page.         *)
(***************************************************************************)
Vectors == Bytes(\HFFC0, Times(15, <<0, 2>>) \o <<0, 3>>) @@ Bytes(\H0300, <<\H6F>>)
Prologues ==
  {Mov(\HFC, 1) \o Mov(\HF1, \H84) \o <<\HCD, \HFD, \H8D, 3, \HE8, \H99>>,
   <<\HCD, \H20, \HBD, \HCD, \H81, \H8D, \H10, \HE8, \H7A, \H40, \H80>>}
Arguments == {<<\HFF, 1>>, <<\HF4, \HE2>>, <<2, 0>>}
EveryOpcode ==
  {[image |-> Program(prologue \o <<op>> \o operand \o STOP) @@ Vectors,
    steps |-> 13, writes |-> IF op \in {0, \HE4} THEN 1 ELSE 0] :
     prologue \in Prologues, op \in (0..255) \ {1 + 16 * i : i \in 0..14}, operand \in Arguments}

(***************************************************************************)
(* Calls: into \H0300 and, by vectors and pages, into \HFF20.              *)
(***************************************************************************)
Callees == Bytes(\H0300, <<\H4F, \H20, \H6F>>) @@ Bytes(\HFF20, <<\H11, \H6F>>)
           @@ Bytes(\H0340, <<\H2D, \HE0, \HAE, \H7F>>) @@ Bytes(\H0360, <<\H60, \H6F>>)
           @@ Bytes(\HFFDE, <<\H40, 3>>)
Calling ==
  {Plain(Program(<<\HCD, sp, \HBD>> \o flags \o <<\H3F, 0, 3, \H0F, \H3F, \H60, 3>> \o STOP)
           @@ Callees @@ Bytes(\HFFDC, <<\H60, 3>>)) :
     sp \in {\HEF, 2}, flags \in {<<\H80, \HA0>>, <<\H40>>}}

(***************************************************************************)
(* Timers: read by a move, by a word, by a comparison; the control         *)
(* register is written again, a timer is stopped and started.              *)
(***************************************************************************)
Reads == {<<\HE4, \HFF>>, <<\HBA, \HFE>>, <<\H64, \HFD, \HEB, \HFF>>, <<\H6E, \HFD, 0>>,
          Mov(\HF1, 7), Mov(\HF1, 3) \o Mov(\HF1, 7), <<>>}
Timing ==
  {Plain(Program(Mov(\HFA, first) \o Mov(\HFB, 3) \o Mov(\HFC, third) \o Mov(\HF1, 7)
              \o Times(4, Wait(rounds) \o read) \o STOP)) :
     first \in {1, 2}, third \in {0, 1, 5}, rounds \in {7, 21}, read \in Reads}

(***************************************************************************)
(* Songs: samples at \H0500, with their directory at \H0400.               *)
(***************************************************************************)
Block(header, seed) == <<header>> \o [i \in 1..8 |-> (37 * i + seed) % 256]
Samples2 ==
  {Block(\HC0, 1) \o Block(\HB4, 5) \o Block(\H93, 9),
   Block(\HC3, 1),
   Block(\HC0, 1) \o Block(\H9C, 3) \o Block(\HA9, 7),
   Block(\HC1, 1)}
Directory(loop) == Bytes(\H0400, <<0, 5, loop, 5, 9, 5, 9, 5>>)
Song(pitch, envelope, extra) ==
  DspWrite(\H5D, 4) \o DspWrite(4, 0) \o DspWrite(\H14, 1)
  \o DspWrite(2, pitch[1]) \o DspWrite(3, pitch[2]) \o DspWrite(\H13, 9)
  \o DspWrite(5, envelope) \o DspWrite(6, \HEF) \o DspWrite(\H17, \HC5) \o DspWrite(7, \H9F)
  \o DspWrite(0, \H40) \o extra \o DspWrite(\H4C, 3)
Extras ==
  {<<>>,
   DspWrite(\H6D, \H20) \o DspWrite(\H7D, 1) \o DspWrite(\H6C, \H1F) \o DspWrite(\H4D, 1)
   \o DspWrite(\H0D, \H30) \o DspWrite(\H0F, \H7F),
   DspWrite(\H2D, 2) \o DspWrite(\H3D, 1)}
Singing ==
  {Plain(Program(Song(pitch, \H8F, extra) \o Wait(9) \o DspWrite(\H5C, off) \o Wait(4)
              \o DspWrite(\H7C, 0) \o DspWrite(\H4C, 1) \o Wait(20) \o STOP)
           @@ Bytes(\H0500, sample) @@ Directory(9 * (Len(sample) \div 27))) :
     pitch \in {<<\HFF, \H3F>>, <<0, 16>>, <<\H34, 25>>}, extra \in Extras, off \in {0, 1},
     sample \in Samples2}
  \cup
  {Plain(Program(Song(<<0, 60>>, envelope, <<>>) \o Wait(8) \o DspWrite(\H6C, flg) \o Wait(4) \o STOP)
           @@ Bytes(\H0500, Block(\HC0, 1) \o Block(\H93, 9)) @@ Directory(0)) :
     envelope \in {0, \H8F, \HFA}, flg \in {\H20, \HA0, \H60}}

MCPrograms == EveryOpcode \cup Calling \cup Timing \cup Singing
=============================================================================

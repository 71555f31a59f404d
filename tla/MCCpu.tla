-------------------------------- MODULE MCCpu --------------------------------
(***************************************************************************)
(* Programs for the processor: every opcode in three states of the         *)
(* machine, and calls, moves and sums that interrupts cut into.            *)
(***************************************************************************)
EXTENDS Cpu

Bytes(at, code) == [a \in at..(at + Len(code) - 1) |-> code[a - at + 1]]

\* The handlers: of BRK in native mode, of BRK and IRQ in emulation mode, of the rest.
Handlers ==
  Bytes(\H9000, <<\H40>>) @@ Bytes(\H9010, <<\HDB>>)
  @@ Bytes(\H9020, <<\H68, \H48, \H29, \H10, \HD0, 1, \H40, \HDB>>)
  @@ Bytes(\HFFE4, <<0, \H90, \H10, \H90>>) @@ Bytes(\HFFEA, <<0, \H90>>)
  @@ Bytes(\HFFEE, <<0, \H90>>) @@ Bytes(\HFFF4, <<0, \H90>>)
  @@ Bytes(\HFFFA, <<0, \H90, 0, \H80, \H20, \H90>>)

Image(code) == Bytes(\H8000, code) @@ Handlers

Native == <<\H18, \HFB>>
Wide == <<\HC2, \H30>>

\* Emulation mode at the bottom of its stack; native mode with wide registers; native
\* mode with a narrow A, wide index registers and decimal arithmetic.
Prologues ==
  {<<\HA2, 1, \H9A, \HA9, \H58, \H58>>,
   Native \o Wide \o <<\HA9, \HFF, \H12, \H5B, \HA2, \HFE, 1, \HA0, 3, 0, \HA9, \H99, \H49>>,
   Native \o <<\HC2, \H19, \HA2, 2, 1, \HA0, \HFF, 0, \HF8, \HA9, \H59>>}
Operands == {<<1, 1, 0>>, <<\H80, \H81, 0>>, <<\H42, \H80, 0>>}
Stop == <<\H38, \HFB, \HDB>>
EveryOpcode ==
  {Image(prologue \o <<op>> \o operand \o Stop) :
     prologue \in Prologues, op \in (0..255) \ {\H44, \H54}, operand \in Operands}

\* Three bytes, moved up or down, with index registers that wrap in eight or in sixteen
\* bits or not at all.
MoveProgram(widths, x, y, opcode) ==
  Image(widths \o <<\HA9, 2>> \o (IF \HC2 \in {widths[i] : i \in DOMAIN widths}
                                   THEN <<0, \HA2, x, \HFF, \HA0, y, 1>>
                                   ELSE <<\HA2, x, \HA0, y>>)
        \o <<opcode, \H7E, 0>> \o Stop)
Moving == {MoveProgram(widths, x, \HFF, op) :
             widths \in {<<>>, Native \o Wide}, x \in {\HFE, \HE6}, op \in {\H44, \H54}}

\* A subroutine of its own at \H8100 (near), \H8200 (long) and \H8300 (that changes mode).
Subroutines == Bytes(\H8100, <<\H60>>) @@ Bytes(\H8200, <<\H20, 0, \H81, \H6B>>)
               @@ Bytes(\H8300, <<\H08, \HE2, \H30, \H28, \H60>>)
               @@ Bytes(\H8400, <<0, \H83>>)
Calling == {Bytes(\H8000, prologue \o <<\HA2, 0, \H20, 0, \H81, \H22, 0, \H82, 0,
                                        \HFC, 0, \H84, \H00, 0>> \o Stop)
              @@ Subroutines @@ Handlers : prologue \in {<<>>, Native, <<\HA2, 3, \H9A>>}}

\* A + B and A - B, with and without carry, binary and decimal, narrow and wide.
Sums == {Image(widths \o <<decimal, carry, \HA9>> \o a \o <<op>> \o b \o Stop) :
           widths \in {Native, <<>>}, decimal \in {\HD8, \HF8}, carry \in {\H18, \H38},
           op \in {\H69, \HE9}, a \in {<<0>>, <<\H09>>, <<\H49>>, <<\H50>>, <<\H99>>},
           b \in {<<0>>, <<1>>, <<\H50>>, <<\H51>>, <<\H99>>}}
        \cup
        {Image(Native \o Wide \o <<decimal, carry, \HA9>> \o a \o <<op>> \o b \o Stop) :
           decimal \in {\HD8, \HF8}, carry \in {\H18, \H38}, op \in {\H69, \HE9},
           a \in {<<\H99, \H99>>, <<\H50, \H49>>, <<0, \H10>>},
           b \in {<<1, 0>>, <<\H50, \H50>>, <<\H99, \H09>>}}

MCImages == EveryOpcode \cup Moving \cup Calling \cup Sums
=============================================================================

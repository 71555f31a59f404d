------------------------------- MODULE Joypad -------------------------------
(***************************************************************************)
(* Controller port 1 (joypad.rs).  A 16-bit word is the set of the numbers *)
(* of its bits that are one.  The pad word comes in the platform's bit     *)
(* order and leaves in the console's, over two paths: the registers        *)
(* $4218/$4219 and the serial port $4016.                                  *)
(***************************************************************************)
EXTENDS Naturals, Sequences

PadBits  == 0..11
WordBits == 16
Words    == SUBSET (0..15)

\* Where native_word puts the platform bits A B X Y L R Up Down Left Right Start Select.
NativeBit == <<7, 15, 6, 14, 5, 4, 11, 10, 9, 8, 12, 13>>
NativeWord(pad) == {NativeBit[b + 1] : b \in pad \cap PadBits}

Joypads == [pad : SUBSET PadBits, joy1 : Words, strobe : BOOLEAN, shift : 0..WordBits]
NewJoypad == [pad |-> {}, joy1 |-> {}, strobe |-> FALSE, shift |-> 0]

Latch(j) == [j EXCEPT !.joy1 = NativeWord(j.pad), !.shift = 0]

AutoReadKeepsShift(j) == [j EXCEPT !.joy1 = NativeWord(j.pad)]   \* Mutant.
AutoRead(j) == Latch(j)

\* Only the falling edge of the strobe latches.
WriteStrobe(j, high) ==
  IF j.strobe /\ ~high THEN [Latch(j) EXCEPT !.strobe = FALSE] ELSE [j EXCEPT !.strobe = high]

\* The bit a read of $4016 returns, and the port after it.
SerialBit(j) ==
  IF j.strobe THEN 15 \in j.joy1 ELSE j.shift = WordBits \/ 15 - j.shift \in j.joy1
ReadSerial(j) ==
  IF j.strobe \/ j.shift = WordBits THEN j ELSE [j EXCEPT !.shift = @ + 1]

-----------------------------------------------------------------------------
\* Platform bits in the order in which the serial port shows the buttons:
\* B Y Select Start Up Down Left Right A X L R (module documentation).
SerialButton == <<1, 3, 11, 10, 6, 7, 8, 9, 0, 2, 4, 5>>

\* The n-th read after a latch of this pad: a button, then four zeros, then ones.
ExpectedBit(pad, n) ==
  \/ n <= Len(SerialButton) /\ SerialButton[n] \in pad
  \/ n > WordBits
=============================================================================

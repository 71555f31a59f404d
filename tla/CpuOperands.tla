----------------------------- MODULE CpuOperands -----------------------------
(***************************************************************************)
(* What an instruction of the 16-bit processor works on: the sums of       *)
(* cpu/alu.rs and the effective addresses of cpu/addressing.rs.            *)
(*                                                                         *)
(* A sum is a pure operator that takes the two operands, the status flags  *)
(* and the width, and returns the result with the new flags.               *)
(*                                                                         *)
(* An addressing operator takes the machine m, a record with the registers *)
(* and the memory, at the moment the opcode has been fetched: pc is the    *)
(* address of the first operand byte.  Internal cycles are left out: the   *)
(* processor has no notion of time.                                        *)
(***************************************************************************)
EXTENDS Words, FiniteSets

\* The status register P is the set of its flags that are 1.
Flag == {"C", "Z", "I", "D", "X", "M", "V", "N"}
Mask == [C |-> 1, Z |-> 2, I |-> 4, D |-> 8, X |-> 16, M |-> 32, V |-> 64, N |-> 128]
PFlags(b) == {f \in Flag : (b \div Mask[f]) % 2 = 1}
PByte(p) == LET w(f) == IF f \in p THEN Mask[f] ELSE 0
            IN w("C") + w("Z") + w("I") + w("D") + w("X") + w("M") + w("V") + w("N")

SetFlag(p, f, on) == IF on THEN p \cup {f} ELSE p \ {f}

\* One past the largest value of a register of eight or sixteen bits.
Size(eight) == IF eight THEN 256 ELSE 65536
Negative(v, eight) == v % Size(eight) >= Size(eight) \div 2
SetNZ(p, v, eight) ==
  SetFlag(SetFlag(p, "Z", v % Size(eight) = 0), "N", Negative(v, eight))

Result(v, p, c, overflow, eight) ==
  [v |-> v % Size(eight),
   p |-> SetNZ(SetFlag(SetFlag(p, "C", c), "V", overflow), v, eight)]

Carry(p) == IF "C" \in p THEN 1 ELSE 0

\* a and m agree in sign and the result does not.
AddOverflow(a, m, r, eight) ==
  /\ Negative(a, eight) <=> Negative(m, eight)
  /\ ~(Negative(a, eight) <=> Negative(r, eight))
SubOverflow(a, m, r, eight) ==
  /\ ~(Negative(a, eight) <=> Negative(m, eight))
  /\ ~(Negative(a, eight) <=> Negative(r, eight))

AdcBin(a, m, p, eight) ==
  LET sum == a + m + Carry(p)
  IN Result(sum, p, sum >= Size(eight), AddOverflow(a, m, sum, eight), eight)

SbcBin(a, m, p, eight) ==
  LET diff == a - m - (1 - Carry(p))
  IN Result(diff, p, diff >= 0, SubOverflow(a, m, diff, eight), eight)

Digits(eight) == IF eight THEN 2 ELSE 4
Nibble(n, i) == (n \div 16^i) % 16

\* The sums of the digits, each with the carry of the one below it, before and after
\* the correction by six.
AdcUnadjusted(a, m, p) ==
  LET raw[i \in 0..3] ==
        LET below == IF i = 0 THEN Carry(p)
                     ELSE IF raw[i - 1] > 9 THEN 1 ELSE 0
        IN Nibble(a, i) + Nibble(m, i) + below
  IN raw
AdjustedNever(d) == d   \* Mutant: the digits are not corrected.
Adjusted(d) == IF d > 9 THEN d + 6 ELSE d

AdcBcd(a, m, p, eight) ==
  LET raw == AdcUnadjusted(a, m, p)
      top == Digits(eight) - 1
      digit(i) == IF i <= top THEN (Adjusted(raw[i]) % 16) * 16^i ELSE 0
      v == digit(0) + digit(1) + digit(2) + digit(3)
  IN Result(v, p, Adjusted(raw[top]) > 15,
            AddOverflow(a, m, (raw[top] % 16) * 16^top, eight), eight)

SbcBcd(a, m, p, eight) ==
  LET raw[i \in 0..3] ==
        LET below == IF i = 0 THEN 1 - Carry(p)
                     ELSE IF raw[i - 1] < 0 THEN 1 ELSE 0
        IN Nibble(a, i) - Nibble(m, i) - below
      digit(i) == IF i < Digits(eight)
                  THEN ((IF raw[i] < 0 THEN raw[i] - 6 ELSE raw[i]) % 16) * 16^i ELSE 0
      bin == a - m - (1 - Carry(p))
      v == digit(0) + digit(1) + digit(2) + digit(3)
  IN Result(v, p, bin >= 0, SubOverflow(a, m, bin, eight), eight)

Adc(a, m, p, eight) == IF "D" \in p THEN AdcBcd(a, m, p, eight) ELSE AdcBin(a, m, p, eight)
Sbc(a, m, p, eight) == IF "D" \in p THEN SbcBcd(a, m, p, eight) ELSE SbcBin(a, m, p, eight)

Compare(r, m, p, eight) ==
  SetNZ(SetFlag(p, "C", r % Size(eight) >= m % Size(eight)), r - m, eight)

\* The shifts and rotations: the result, the bit that falls out, N and Z.
Shifted(v, out, p, eight) ==
  [v |-> v % Size(eight), p |-> SetNZ(SetFlag(p, "C", out), v, eight)]
Asl(v, p, eight) == Shifted(2 * v, Negative(v, eight), p, eight)
Lsr(v, p, eight) == Shifted(v \div 2, v % 2 = 1, p, eight)
Rol(v, p, eight) == Shifted(2 * v + Carry(p), Negative(v, eight), p, eight)
Ror(v, p, eight) ==
  Shifted(v \div 2 + Carry(p) * (Size(eight) \div 2), v % 2 = 1, p, eight)
Counted(v, p, eight) == [v |-> v % Size(eight), p |-> SetNZ(p, v, eight)]
Inc(v, p, eight) == Counted(v + 1, p, eight)
Dec(v, p, eight) == Counted(v - 1, p, eight)

-----------------------------------------------------------------------------
(* Addressing.                                                             *)

M8(m) == "M" \in m.p
X8(m) == "X" \in m.p

Read(m, a) == Peek(m.mem, a)
Read16(m, a, b) == Word(Read(m, a), Read(m, b))

\* The program stream: the pc wraps inside the program bank.
Fetched(m, i) == Read(m, m.pbr * 65536 + W16(m.pc + i))
Fetched16(m, i) == Word(Fetched(m, i), Fetched(m, i + 1))
Skip(m, n) == [m EXCEPT !.pc = W16(@ + n)]

Flat(a) == [addr |-> a, wrapBank0 |-> FALSE]
Direct(a) == [addr |-> a, wrapBank0 |-> TRUE]
ByteAddr(ea, i) ==
  IF ea.wrapBank0 THEN (ea.addr \div 65536) * 65536 + W16(ea.addr + i)
  ELSE W24(ea.addr + i)

ReadAt(m, ea, eight) ==
  IF eight THEN Read(m, ByteAddr(ea, 0))
  ELSE Read16(m, ByteAddr(ea, 0), ByteAddr(ea, 1))
WriteAt(m, ea, v, eight) ==
  LET low == Poke(m.mem, ByteAddr(ea, 0), Lo(v))
  IN [m EXCEPT !.mem = IF eight THEN low ELSE Poke(low, ByteAddr(ea, 1), Hi(v))]

DataBank(m) == m.dbr * 65536

EaDirect(m) == Direct(W16(m.d + Fetched(m, 0)))

\* An index stays in the direct page in emulation mode, if the page is aligned.
DirectIndexed(m, index) ==
  IF m.e /\ Lo(m.d) = 0 THEN m.d + W8(Fetched(m, 0) + index)
  ELSE W16(m.d + Fetched(m, 0) + index)
EaDirectIndexed(m, index) == Direct(DirectIndexed(m, index))

DpPtr16(m, base) == Read16(m, base, W16(base + 1))
DpPtr24(m, base) == DpPtr16(m, base) + 65536 * Read(m, W16(base + 2))
DpWord(m) == DpPtr16(m, W16(m.d + Fetched(m, 0)))

EaIndirect(m) == Flat(DataBank(m) + DpWord(m))
EaIndirectX(m) == Flat(DataBank(m) + DpPtr16(m, DirectIndexed(m, m.x)))
EaIndirectY(m) == Flat(W24(DataBank(m) + DpWord(m) + m.y))
EaIndirectLong(m) == Flat(DpPtr24(m, W16(m.d + Fetched(m, 0))))
EaIndirectLongY(m) == Flat(W24(EaIndirectLong(m).addr + m.y))
EaAbsolute(m) == Flat(DataBank(m) + Fetched16(m, 0))
EaAbsoluteIndexed(m, index) == Flat(W24(DataBank(m) + Fetched16(m, 0) + index))
EaLong(m) == Flat(Fetched(m, 2) * 65536 + Fetched16(m, 0))
EaLongX(m) == Flat(W24(EaLong(m).addr + m.x))
EaStackRel(m) == Direct(W16(m.s + Fetched(m, 0)))
EaStackRelY(m) ==
  LET base == W16(m.s + Fetched(m, 0))
  IN Flat(W24(DataBank(m) + Read16(m, base, W16(base + 1)) + m.y))

EffectiveAddress(m, mode) ==
  CASE mode = "dp" -> EaDirect(m)
    [] mode = "dp,x" -> EaDirectIndexed(m, m.x)
    [] mode = "dp,y" -> EaDirectIndexed(m, m.y)
    [] mode = "(dp)" -> EaIndirect(m)
    [] mode = "(dp,x)" -> EaIndirectX(m)
    [] mode = "(dp),y" -> EaIndirectY(m)
    [] mode = "[dp]" -> EaIndirectLong(m)
    [] mode = "[dp],y" -> EaIndirectLongY(m)
    [] mode = "abs" -> EaAbsolute(m)
    [] mode = "abs,x" -> EaAbsoluteIndexed(m, m.x)
    [] mode = "abs,y" -> EaAbsoluteIndexed(m, m.y)
    [] mode = "long" -> EaLong(m)
    [] mode = "long,x" -> EaLongX(m)
    [] mode = "sr" -> EaStackRel(m)
    [] mode = "(sr),y" -> EaStackRelY(m)

OperandBytes(mode) ==
  CASE mode \in {"abs", "abs,x", "abs,y"} -> 2
    [] mode \in {"long", "long,x"} -> 3
    [] OTHER -> 1

\* The operand of an instruction that reads: immediate, or at the effective address.
Operand(m, mode, eight) ==
  IF mode = "imm" THEN IF eight THEN Fetched(m, 0) ELSE Fetched16(m, 0)
  ELSE ReadAt(m, EffectiveAddress(m, mode), eight)
PastOperand(m, mode, eight) ==
  Skip(m, IF mode = "imm" THEN IF eight THEN 1 ELSE 2 ELSE OperandBytes(mode))

(***************************************************************************)
(* The stack.  In emulation mode it wraps inside page 1, except for the    *)
(* instructions the 6502 did not have, which count with sixteen bits.      *)
(***************************************************************************)
Page1(s) == 256 + Lo(s)
Below(m, s) == IF m.e THEN Page1(s - 1) ELSE W16(s - 1)
Above(m, s) == IF m.e THEN Page1(s + 1) ELSE W16(s + 1)

Push(m, v) == [m EXCEPT !.mem = Poke(@, m.s, v), !.s = Below(m, @)]
PushN(m, v) == [m EXCEPT !.mem = Poke(@, m.s, v), !.s = W16(@ - 1)]
Push16(m, v) == Push(Push(m, Hi(v)), Lo(v))
Push16N(m, v) == PushN(PushN(m, Hi(v)), Lo(v))

\* What a pull reads, and the machine after n pulls.
Pulled(m) == Read(m, Above(m, m.s))
PulledN(m) == Read(m, W16(m.s + 1))
Pop(m) == [m EXCEPT !.s = Above(m, @)]
PopN(m) == [m EXCEPT !.s = W16(@ + 1)]
Pulled16(m) == Word(Pulled(m), Pulled(Pop(m)))
Pulled16N(m) == Word(PulledN(m), PulledN(PopN(m)))

\* After a change of P or E: emulation mode has narrow registers and the stack in
\* page 1, and a narrow index register has no high byte.
NormalizeWidths(m) ==
  LET p == IF m.e THEN m.p \cup {"M", "X"} ELSE m.p
      Narrow(v) == IF "X" \in p THEN Lo(v) ELSE v
  IN [m EXCEPT !.p = p, !.x = Narrow(@), !.y = Narrow(@),
               !.s = IF m.e THEN Page1(@) ELSE @]
=============================================================================

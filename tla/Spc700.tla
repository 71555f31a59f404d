-------------------------------- MODULE Spc700 --------------------------------
(***************************************************************************)
(* The sound processor, apu/spc700.rs: its 256 opcodes, each as one turn   *)
(* of the catch-up loop (Turn).                                            *)
(*                                                                         *)
(* A family of instructions is a set: what the one under way makes of the  *)
(* record s, or nothing when its opcode is of another family.  Every byte  *)
(* it fetches, reads or writes in the register page leaves its mark (See,  *)
(* Store), whatever its value.                                             *)
(***************************************************************************)
EXTENDS Apu

-----------------------------------------------------------------------------
(* Arithmetic: operators on the operands and the flags, which return the   *)
(* result v and the flags p.  The PSW is the set of its flags that are 1;  *)
(* size is 256 for bytes and 65536 for the words of YA.                    *)

PswMask == [C |-> 1, Z |-> 2, I |-> 4, H |-> 8, B |-> 16, P |-> 32, V |-> 64, N |-> 128]
Psw(b) == {f \in DOMAIN PswMask : (b \div PswMask[f]) % 2 = 1}
PswByte(p) == LET w(f) == IF f \in p THEN PswMask[f] ELSE 0
              IN w("C") + w("Z") + w("I") + w("H") + w("B") + w("P") + w("V") + w("N")

Put(p, f, on) == IF on THEN p \cup {f} ELSE p \ {f}
Neg(v, size) == v % size >= size \div 2
NZ(p, v, size) == Put(Put(p, "N", Neg(v, size)), "Z", v % size = 0)
C(p) == IF "C" \in p THEN 1 ELSE 0

Out(v, p, size) == [v |-> v % size, p |-> NZ(p, v, size)]

\* H is the carry out of all but the highest four bits, or no borrow from them.
Below(v, size) == v % (size \div 16)
Add(a, b, carry, p, size) ==
  LET sum == a + b + carry
      overflow == /\ Neg(a, size) <=> Neg(b, size)
                  /\ ~(Neg(a, size) <=> Neg(sum, size))
      half == Below(a, size) + Below(b, size) + carry >= size \div 16
  IN Out(sum, Put(Put(Put(p, "C", sum >= size), "V", overflow), "H", half), size)
Sub(a, b, borrow, p, size) ==
  LET diff == a - b - borrow
      overflow == /\ ~(Neg(a, size) <=> Neg(b, size))
                  /\ ~(Neg(a, size) <=> Neg(diff, size))
      half == Below(a, size) - Below(b, size) - borrow >= 0
  IN Out(diff, Put(Put(Put(p, "C", diff >= 0), "V", overflow), "H", half), size)
Cmp(a, b, p, size) == NZ(Put(p, "C", a >= b), a - b, size)

OpAdc(a, b, p) == Add(a, b, C(p), p, 256)
OpSbc(a, b, p) == Sub(a, b, 1 - C(p), p, 256)
OpCmp(a, b, p) == [v |-> a, p |-> Cmp(a, b, p, 256)]
OpAnd(a, b, p) == Out(And(a, b), p, 256)
OpOr(a, b, p) == Out(Or(a, b), p, 256)
OpEor(a, b, p) == Out(Xor(a, b), p, 256)

OpInc(v, p) == Out(v + 1, p, 256)
OpDec(v, p) == Out(v - 1, p, 256)
OpAsl(v, p) == Out(2 * v, Put(p, "C", v >= 128), 256)
OpLsr(v, p) == Out(v \div 2, Put(p, "C", v % 2 = 1), 256)
OpRol(v, p) == Out(2 * v + C(p), Put(p, "C", v >= 128), 256)
OpRor(v, p) == Out((v \div 2) + 128 * C(p), Put(p, "C", v % 2 = 1), 256)

Daa(a, p) ==
  LET low == IF "H" \in p \/ a % 16 > 9 THEN a + 6 ELSE a
      high == "C" \in p \/ low > \H9F
  IN Out(low + IF high THEN \H60 ELSE 0, IF high THEN p \cup {"C"} ELSE p, 256)
Das(a, p) ==
  LET low == IF "H" \notin p \/ a % 16 > 9 THEN 6 ELSE 0
      high == "C" \notin p \/ a > \H99
  IN Out(a - low - IF high THEN \H60 ELSE 0, IF high THEN p \ {"C"} ELSE p, 256)

\* Quotient and remainder, also where the quotient does not fit.
Div(ya, x, p) ==
  LET y == Hi(ya)
      over == ya - 512 * x
      q == IF y < 2 * x THEN ya \div x ELSE 255 - (over \div (256 - x))
      r == IF y < 2 * x THEN ya % x ELSE x + (over % (256 - x))
      flags == Put(Put(p, "H", x % 16 <= y % 16), "V", y >= x)
  IN [a |-> W8(q), y |-> W8(r), p |-> NZ(flags, q, 256)]

-----------------------------------------------------------------------------
CYCLES ==
  <<2, 8, 4, 5, 3, 4, 3, 6, 2, 6, 5, 4, 5, 4, 6, 8,   2, 8, 4, 5, 4, 5, 5, 6, 5, 5, 6, 5, 2, 2, 4, 6,
    2, 8, 4, 5, 3, 4, 3, 6, 2, 6, 5, 4, 5, 4, 5, 4,   2, 8, 4, 5, 4, 5, 5, 6, 5, 5, 6, 5, 2, 2, 3, 8,
    2, 8, 4, 5, 3, 4, 3, 6, 2, 6, 4, 4, 5, 4, 6, 6,   2, 8, 4, 5, 4, 5, 5, 6, 5, 5, 4, 5, 2, 2, 4, 3,
    2, 8, 4, 5, 3, 4, 3, 6, 2, 6, 4, 4, 5, 4, 5, 5,   2, 8, 4, 5, 4, 5, 5, 6, 5, 5, 5, 5, 2, 2, 3, 6,
    2, 8, 4, 5, 3, 4, 3, 6, 2, 6, 5, 4, 5, 2, 4, 5,   2, 8, 4, 5, 4, 5, 5, 6, 5, 5, 5, 5, 2, 2, 12, 5,
    2, 8, 4, 5, 3, 4, 3, 6, 2, 6, 4, 4, 5, 2, 4, 4,   2, 8, 4, 5, 4, 5, 5, 6, 5, 5, 5, 5, 2, 2, 3, 4,
    2, 8, 4, 5, 4, 5, 4, 7, 2, 5, 6, 4, 5, 2, 4, 9,   2, 8, 4, 5, 5, 6, 6, 7, 4, 5, 5, 5, 2, 2, 6, 3,
    2, 8, 4, 5, 3, 4, 3, 6, 2, 4, 5, 3, 4, 3, 4, 3,   2, 8, 4, 5, 4, 5, 5, 6, 3, 4, 5, 4, 2, 2, 4, 2>>
When(opcodes, n) == IF Runs(opcodes) THEN {n} ELSE {}
Does(instructions) == \E n \in instructions : Turn(n, CYCLES[Opcode + 1])

(***************************************************************************)
(* Memory and addressing.                                                  *)
(***************************************************************************)
See(n, addresses) == [n EXCEPT !.rd = @ \cup (addresses \cap IoPage)]
Store(n, a, v) == [n EXCEPT !.mem = Poke(@, a, W8(v)), !.wr = @ \cup ({a} \cap IoPage)]
At(n, a) == Peek(n.mem, a)
Word2(n, lo, hi) == Word(At(n, lo), At(n, hi))

Code(n, i) == W16(n.pc + i)
Byte(n, i) == At(n, Code(n, i))
Abs(n) == Word(Byte(n, 0), Byte(n, 1))
Past(n, length) == [See(n, {Code(n, i) : i \in 0..(length - 1)}) EXCEPT !.pc = Code(n, length)]

\* The direct page, within which offsets wrap.
Dp(n, offset) == (IF "P" \in n.psw THEN 256 ELSE 0) + W8(offset)

Operands(mode) == CASE mode \in {"(X)", "(Y)"} -> 0
                    [] mode \in {"abs", "abs+X", "abs+Y"} -> 2
                    [] OTHER -> 1
Pointer(n, mode) == CASE mode = "[dp+X]" -> {Dp(n, Byte(n, 0) + n.x), Dp(n, Byte(n, 0) + n.x + 1)}
                      [] mode = "[dp]+Y" -> {Dp(n, Byte(n, 0)), Dp(n, Byte(n, 0) + 1)}
                      [] OTHER -> {}
Address(n, mode) ==
  CASE mode = "imm" -> n.pc
    [] mode = "(X)" -> Dp(n, n.x)
    [] mode = "(Y)" -> Dp(n, n.y)
    [] mode = "dp" -> Dp(n, Byte(n, 0))
    [] mode = "dp+X" -> Dp(n, Byte(n, 0) + n.x)
    [] mode = "dp+Y" -> Dp(n, Byte(n, 0) + n.y)
    [] mode = "abs" -> Abs(n)
    [] mode = "abs+X" -> W16(Abs(n) + n.x)
    [] mode = "abs+Y" -> W16(Abs(n) + n.y)
    [] mode = "[dp+X]" -> Word2(n, Dp(n, Byte(n, 0) + n.x), Dp(n, Byte(n, 0) + n.x + 1))
    [] mode = "[dp]+Y" -> W16(Word2(n, Dp(n, Byte(n, 0)), Dp(n, Byte(n, 0) + 1)) + n.y)
Use(n, mode) == See(Past(n, Operands(mode)), Pointer(n, mode))
Load(n, mode) == See(Use(n, mode), {Address(n, mode)})
Loaded(n, mode) == At(n, Address(n, mode))

\* The byte above a word in the direct page stays in the page.
WordAbove(a) == 256 * (a \div 256) + W8(a + 1)
StoreWord(n, a, w) == Store(Store(n, a, Lo(w)), WordAbove(a), Hi(w))
YA(n) == Word(n.a, n.y)
SetYA(n, w) == [n EXCEPT !.a = Lo(w), !.y = Hi(w)]

Push(n, v) == [Store(n, 256 + n.sp, v) EXCEPT !.sp = W8(@ - 1)]
Push16(n, w) == Push(Push(n, Hi(w)), Lo(w))
Pull(n, i) == At(n, 256 + W8(n.sp + i))
Pulled(n, count) == [n EXCEPT !.sp = W8(@ + count)]

(***************************************************************************)
(* Arithmetic and logic.                                                   *)
(***************************************************************************)
Column == 8 :> "imm" @@ 6 :> "(X)" @@ 23 :> "[dp]+Y" @@ 7 :> "[dp+X]" @@ 4 :> "dp"
          @@ 20 :> "dp+X" @@ 5 :> "abs" @@ 21 :> "abs+X" @@ 22 :> "abs+Y"
Columns(base) == {base + column : column \in DOMAIN Column}
ModeOf(base) == Column[Opcode - base]

OnA(base, F(_, _, _)) ==
  LET mode == ModeOf(base)
      Into(r) == [Load(Begin, mode) EXCEPT !.a = r.v, !.psw = r.p]
  IN When(Columns(base), Into(F(s.a, Loaded(Begin, mode), s.psw)))

\* A memory operand with another one, or with an immediate byte; a comparison stores
\* nothing.
OnMemory(base, F(_, _, _)) ==
  LET Stored(n, to, r) == [IF base = \H60 THEN n ELSE Store(n, to, r.v) EXCEPT !.psw = r.p]
      Combined(n, to, from) ==
        Stored(See(n, {to, from}), to, F(At(n, to), At(n, from), n.psw))
      at == Past(Begin, 2)
  IN When({base + 9}, Combined(at, Dp(at, Byte(Begin, 1)), Dp(at, Byte(Begin, 0))))
     \cup When({base + 24}, Combined(at, Dp(at, Byte(Begin, 1)), Begin.pc))
     \cup When({base + 25}, Combined(Begin, Dp(Begin, s.x), Dp(Begin, s.y)))

OR == OnA(\H00, OpOr) \cup OnMemory(\H00, OpOr)
AND == OnA(\H20, OpAnd) \cup OnMemory(\H20, OpAnd)
EOR == OnA(\H40, OpEor) \cup OnMemory(\H40, OpEor)
CMP == OnA(\H60, OpCmp) \cup OnMemory(\H60, OpCmp)
ADC == OnA(\H80, OpAdc) \cup OnMemory(\H80, OpAdc)
SBC == OnA(\HA0, OpSbc) \cup OnMemory(\HA0, OpSbc)

CompareXY(modes, r) ==
  LET mode == modes[Opcode]
  IN When(DOMAIN modes, [Load(Begin, mode) EXCEPT !.psw = Cmp(r, Loaded(Begin, mode), @, 256)])
CMPX == CompareXY(\HC8 :> "imm" @@ \H3E :> "dp" @@ \H1E :> "abs", s.x)
CMPY == CompareXY(\HAD :> "imm" @@ \H7E :> "dp" @@ \H5E :> "abs", s.y)

Modify(base, F(_, _)) ==
  LET modes == base + 11 :> "dp" @@ base + 27 :> "dp+X" @@ base + 12 :> "abs"
      mode == modes[Opcode]
      InMemory(r) == [Store(Load(Begin, mode), Address(Begin, mode), r.v) EXCEPT !.psw = r.p]
      InA(r) == [Begin EXCEPT !.a = r.v, !.psw = r.p]
  IN When(DOMAIN modes, InMemory(F(Loaded(Begin, mode), s.psw)))
     \cup When({base + 28}, InA(F(s.a, s.psw)))
ASL == Modify(\H00, OpAsl)
ROL == Modify(\H20, OpRol)
LSR == Modify(\H40, OpLsr)
ROR == Modify(\H60, OpRor)
CountMemory == Modify(\H80, OpDec) \cup Modify(\HA0, OpInc)

ToX(n, v) == [n EXCEPT !.x = W8(v), !.psw = NZ(@, v, 256)]
ToY(n, v) == [n EXCEPT !.y = W8(v), !.psw = NZ(@, v, 256)]
ToA(n, v) == [n EXCEPT !.a = W8(v), !.psw = NZ(@, v, 256)]
CountIndex == When({\H3D}, ToX(Begin, s.x + 1))
              \cup When({\H1D}, ToX(Begin, s.x - 1))
              \cup When({\HFC}, ToY(Begin, s.y + 1))
              \cup When({\HDC}, ToY(Begin, s.y - 1))

\* YA and words of the direct page.
OnWord(opcode, F(_, _)) ==
  LET a == Address(Begin, "dp")
  IN When({opcode}, F(See(Load(Begin, "dp"), {WordAbove(a)}), Word2(Begin, a, WordAbove(a))))
Summed(n, r) == [SetYA(n, r.v) EXCEPT !.psw = r.p]
MovwLoad(n, w) == [SetYA(n, w) EXCEPT !.psw = NZ(@, w, 65536)]
Addw(n, w) == Summed(n, Add(YA(n), w, 0, n.psw, 65536))
Subw(n, w) == Summed(n, Sub(YA(n), w, 0, n.psw, 65536))
Cmpw(n, w) == [n EXCEPT !.psw = Cmp(YA(n), w, @, 65536)]
Counted(n, w) == [StoreWord(n, Address(Begin, "dp"), W16(w)) EXCEPT !.psw = NZ(@, w, 65536)]
Incw(n, w) == Counted(n, w + 1)
Decw(n, w) == Counted(n, w - 1)
Words16 == OnWord(\HBA, MovwLoad) \cup OnWord(\H7A, Addw) \cup OnWord(\H9A, Subw)
           \cup OnWord(\H5A, Cmpw) \cup OnWord(\H3A, Incw) \cup OnWord(\H1A, Decw)
           \cup When({\HDA}, StoreWord(Use(Begin, "dp"), Address(Begin, "dp"), YA(s)))

MUL == When({\HCF}, [SetYA(Begin, s.y * s.a) EXCEPT
                           !.psw = NZ(@, Hi(s.y * s.a), 256)])
DIV == LET r == Div(YA(s), s.x, s.psw)
       IN When({\H9E}, [Begin EXCEPT !.a = r.a, !.y = r.y, !.psw = r.p])
Adjust == LET up == Daa(s.a, s.psw)
              down == Das(s.a, s.psw)
          IN When({\HDF}, [Begin EXCEPT !.a = up.v, !.psw = up.p])
             \cup When({\HBE}, [Begin EXCEPT !.a = down.v, !.psw = down.p])
XCN == When({\H9F}, ToA(Begin, 16 * (s.a % 16) + (s.a \div 16)))

(***************************************************************************)
(* Bits.                                                                   *)
(***************************************************************************)
SetBit(v, i, on) == IF on THEN Or(v, 2^i) ELSE AndNot(v, 2^i)
ChangeBit(first, on) ==
  When({first + 32 * i : i \in 0..7},
       Store(Load(Begin, "dp"), Address(Begin, "dp"),
             SetBit(Loaded(Begin, "dp"), (Opcode - first) \div 32, on)))
SetClear1 == ChangeBit(2, TRUE) \cup ChangeBit(18, FALSE)

\* A bit address: 13 bits of address, 3 of position.
BitAt == Abs(Begin) % 8192
BitNo == Abs(Begin) \div 8192
Tested == Bit(At(Begin, BitAt), BitNo)
WithBit == See(Past(Begin, 2), {BitAt})
CarryBit(opcode, on) == When({opcode}, [WithBit EXCEPT !.psw = Put(@, "C", on)])
StoreBit(opcode, on) == When({opcode}, Store(WithBit, BitAt, SetBit(At(Begin, BitAt), BitNo, on)))
HasC == "C" \in s.psw
Bits1 == CarryBit(\H0A, HasC \/ Tested) \cup CarryBit(\H2A, HasC \/ ~Tested)
         \cup CarryBit(\H4A, HasC /\ Tested) \cup CarryBit(\H6A, HasC /\ ~Tested)
         \cup CarryBit(\H8A, HasC # Tested) \cup CarryBit(\HAA, Tested)
         \cup StoreBit(\HEA, ~Tested) \cup StoreBit(\HCA, HasC)

TestBits(opcode, F(_, _)) ==
  LET v == Loaded(Begin, "abs")
  IN When({opcode}, [Store(Load(Begin, "abs"), Address(Begin, "abs"), F(v, s.a)) EXCEPT
                       !.psw = NZ(@, s.a - v, 256)])
TestSetClear == TestBits(\H0E, Or) \cup TestBits(\H4E, AndNot)

(***************************************************************************)
(* Transfers.                                                              *)
(***************************************************************************)
LoadReg(modes, To(_, _)) ==
  LET mode == modes[Opcode] IN When(DOMAIN modes, To(Load(Begin, mode), Loaded(Begin, mode)))
StoreReg(modes, v) ==
  LET mode == modes[Opcode]
  IN When(DOMAIN modes, Store(Use(Begin, mode), Address(Begin, mode), v))

LoadA == LoadReg([op \in Columns(\HE0) |-> Column[op - \HE0]], ToA)
LoadX == LoadReg(\HCD :> "imm" @@ \HF8 :> "dp" @@ \HF9 :> "dp+Y" @@ \HE9 :> "abs", ToX)
LoadY == LoadReg(\H8D :> "imm" @@ \HEB :> "dp" @@ \HFB :> "dp+X" @@ \HEC :> "abs", ToY)
StoreA == StoreReg([op \in Columns(\HC0) \ {\HC8} |-> Column[op - \HC0]], s.a)
StoreX == StoreReg(\HD8 :> "dp" @@ \HD9 :> "dp+Y" @@ \HC9 :> "abs", s.x)
StoreY == StoreReg(\HCB :> "dp" @@ \HDB :> "dp+X" @@ \HCC :> "abs", s.y)
\* (X)+ steps X after the access.
StepX == When({\HBF}, [ToA(Load(Begin, "(X)"), Loaded(Begin, "(X)")) EXCEPT !.x = W8(@ + 1)])
         \cup When({\HAF}, [Store(Begin, Dp(Begin, s.x), s.a) EXCEPT !.x = W8(@ + 1)])
MovMemory ==
  LET at == Past(Begin, 2)
      from == Dp(Begin, Byte(Begin, 0))
      to == Dp(Begin, Byte(Begin, 1))
  IN When({\HFA}, Store(See(at, {from}), to, At(Begin, from)))
     \cup When({\H8F}, Store(at, to, Byte(Begin, 0)))
Transfer == When({\H7D}, ToA(Begin, s.x))
            \cup When({\HDD}, ToA(Begin, s.y))
            \cup When({\H5D}, ToX(Begin, s.a))
            \cup When({\HFD}, ToY(Begin, s.a))
            \cup When({\H9D}, ToX(Begin, s.sp))
            \cup When({\HBD}, [Begin EXCEPT !.sp = s.x])
PUSH == When({\H2D}, Push(Begin, s.a))
        \cup When({\H4D}, Push(Begin, s.x))
        \cup When({\H6D}, Push(Begin, s.y))
        \cup When({\H0D}, Push(Begin, PswByte(s.psw)))
POP == LET n == Pulled(Begin, 1)
           v == Pull(Begin, 1)
       IN When({\HAE}, [n EXCEPT !.a = v])
          \cup When({\HCE}, [n EXCEPT !.x = v])
          \cup When({\HEE}, [n EXCEPT !.y = v])
          \cup When({\H8E}, [n EXCEPT !.psw = Psw(v)])

(***************************************************************************)
(* Branches, calls, flags, halts.                                          *)
(***************************************************************************)
\* The distance is fetched whether or not the branch is taken.
Branch(n, take) ==
  [Past(n, 1) EXCEPT !.pc = IF take THEN W16(@ + Signed8(Byte(n, 0))) ELSE @]
BranchFlag == \HF0 :> <<"Z", TRUE>> @@ \HD0 :> <<"Z", FALSE>> @@ \HB0 :> <<"C", TRUE>>
           @@ \H90 :> <<"C", FALSE>> @@ \H70 :> <<"V", TRUE>> @@ \H50 :> <<"V", FALSE>>
           @@ \H30 :> <<"N", TRUE>> @@ \H10 :> <<"N", FALSE>>
BranchIf ==
  LET test == BranchFlag[Opcode]
  IN When(DOMAIN BranchFlag, Branch(Begin, (test[1] \in s.psw) = test[2]))
     \cup When({\H2F}, Branch(Begin, TRUE))
BranchBit ==
  LET i == Opcode \div 32
      set == Bit(Loaded(Begin, "dp"), i)
  IN When({3 + 32 * k : k \in 0..7}, Branch(Load(Begin, "dp"), set))
     \cup When({19 + 32 * k : k \in 0..7}, Branch(Load(Begin, "dp"), ~set))
CBNE == LET modes == \H2E :> "dp" @@ \HDE :> "dp+X"
            mode == modes[Opcode]
        IN When(DOMAIN modes, Branch(Load(Begin, mode), Loaded(Begin, mode) # s.a))
DBNZ == LET less == W8(Loaded(Begin, "dp") - 1)
        IN When({\H6E}, Branch(Store(Load(Begin, "dp"), Address(Begin, "dp"), less), less # 0))
           \cup When({\HFE}, Branch([Begin EXCEPT !.y = W8(@ - 1)], s.y # 1))

JMP == LET ptr == W16(Abs(Begin) + s.x)
       IN When({\H5F}, [Past(Begin, 2) EXCEPT !.pc = Abs(Begin)])
          \cup When({\H1F}, [See(Past(Begin, 2), {ptr, W16(ptr + 1)}) EXCEPT
                               !.pc = Word2(Begin, ptr, W16(ptr + 1))])

CallTo(n, target) == [Push16(n, n.pc) EXCEPT !.pc = target]
\* A vector is read after the pushes.
CallVector(n, v) == [Push16(n, n.pc) EXCEPT !.pc = Word2(Push16(n, n.pc), v, v + 1)]
CALL == When({\H3F}, CallTo(Past(Begin, 2), Abs(Begin)))
        \cup When({\H4F}, CallTo(Past(Begin, 1), \HFF00 + Byte(Begin, 0)))
        \cup When({1 + 16 * i : i \in 0..15}, CallVector(Begin, \HFFDE - 2 * (Opcode \div 16)))
BRK == LET n == Push(Push16(Begin, Begin.pc), PswByte(s.psw))
       IN When({\H0F}, [n EXCEPT !.psw = (@ \ {"I"}) \cup {"B"}, !.pc = Word2(n, \HFFDE, \HFFDF)])
RET == When({\H6F}, [Pulled(Begin, 2) EXCEPT !.pc = Word(Pull(Begin, 1), Pull(Begin, 2))])
RET1NoFlags ==   \* Mutant: RET1 does not pull the flags.
  When({\H7F}, [Pulled(Begin, 3) EXCEPT !.pc = Word(Pull(Begin, 2), Pull(Begin, 3))])
RET1 == When({\H7F}, [Pulled(Begin, 3) EXCEPT !.psw = Psw(Pull(Begin, 1)),
                                             !.pc = Word(Pull(Begin, 2), Pull(Begin, 3))])

FlagOp == \H60 :> <<{"C"}, {}>> @@ \H80 :> <<{}, {"C"}>> @@ \HE0 :> <<{"V", "H"}, {}>>
       @@ \H20 :> <<{"P"}, {}>> @@ \H40 :> <<{}, {"P"}>> @@ \HA0 :> <<{}, {"I"}>>
       @@ \HC0 :> <<{"I"}, {}>>
Flags == When(DOMAIN FlagOp,
              [Begin EXCEPT !.psw = (@ \ FlagOp[Opcode][1]) \cup FlagOp[Opcode][2]])
         \cup When({\HED}, [Begin EXCEPT !.psw = Put(@, "C", ~HasC)])
         \cup When({\H00}, Begin)
Halt == When({\HEF}, [Begin EXCEPT !.halted = "Sleep"])
        \cup When({\HFF}, [Begin EXCEPT !.halted = "Stop"])

Compute == OR \cup AND \cup EOR \cup CMP \cup ADC \cup SBC \cup CMPX \cup CMPY \cup Words16
           \cup MUL \cup DIV \cup Adjust \cup XCN
Change == ASL \cup ROL \cup LSR \cup ROR \cup CountMemory \cup CountIndex
          \cup SetClear1 \cup Bits1 \cup TestSetClear
Move == LoadA \cup LoadX \cup LoadY \cup StoreA \cup StoreX \cup StoreY \cup StepX
        \cup MovMemory \cup Transfer \cup PUSH \cup POP
Go == BranchIf \cup BranchBit \cup CBNE \cup DBNZ \cup JMP \cup Flags \cup Halt
Environment == \E i \in 0..3, v \in PortValues : CpuWritesPort(i, v)

Next == \/ Does(Compute) \/ Does(Change) \/ Does(Move) \/ Does(Go)
        \/ Does(CALL) \/ Does(BRK) \/ Does(RET) \/ Does(RET1)
        \/ Environment
Spec == Init /\ [][Next]_vars
=============================================================================

--------------------------------- MODULE Cpu ---------------------------------
(***************************************************************************)
(* The 16-bit processor of the emulated machine, cpu/mod.rs and            *)
(* cpu/exec.rs: every instruction, the interrupts, and the two modes with  *)
(* their register widths.                                                  *)
(*                                                                         *)
(* A step of Cpu::step is a step here.  The bus is a plain memory and two  *)
(* interrupt inputs that change at any instruction boundary, as the frame  *)
(* scheduler changes them; the program is whatever that memory holds.      *)
(***************************************************************************)
EXTENDS CpuOperands, Sequences

CONSTANTS Images,   \* The memories a machine may be switched on with.
          MaxRaised \* Bound: how often the environment raises an interrupt input.

VARIABLES m,   \* The registers, the halt latches and the memory.
          bus  \* The interrupt inputs: the NMI edge and the IRQ line.

vars == <<m, bus>>

Vector == [cop |-> \HFFE4, brk |-> \HFFE6, nmi |-> \HFFEA, irq |-> \HFFEE,
           emuCop |-> \HFFF4, emuNmi |-> \HFFFA, reset |-> \HFFFC, emuIrqBrk |-> \HFFFE]

At(n, vector) == Read16(n, vector, vector + 1)

PowerOn(image) ==
  [a |-> 0, x |-> 0, y |-> 0, s |-> \H01FF, d |-> 0, dbr |-> 0, pbr |-> 0, pc |-> 0,
   p |-> {"M", "X", "I"}, e |-> TRUE, waiting |-> FALSE, stopped |-> FALSE,
   mem |-> image]
Reset(n) ==
  [n EXCEPT !.e = TRUE, !.p = {"M", "X", "I"}, !.s = Page1(@), !.x = Lo(@), !.y = Lo(@),
            !.d = 0, !.dbr = 0, !.pbr = 0, !.waiting = FALSE, !.stopped = FALSE,
            !.pc = At(n, Vector.reset)]

Init == /\ m \in {Reset(PowerOn(image)) : image \in Images}
        /\ bus = [nmi |-> FALSE, irq |-> FALSE, raised |-> 0]

\* The entry and the exit of a step keep the stack of emulation mode in page 1.
Boundary(n) == IF n.e THEN [n EXCEPT !.s = Page1(@)] ELSE n
Finish(n) == m' = Boundary(n) /\ UNCHANGED bus

(***************************************************************************)
(* Interrupts.                                                             *)
(***************************************************************************)
Entered(n, vector) ==
  [n EXCEPT !.p = (@ \cup {"I"}) \ {"D"}, !.pbr = 0, !.pc = At(n, vector)]

EmulationVector(kind) ==
  CASE kind = "cop" -> Vector.emuCop
    [] kind = "nmi" -> Vector.emuNmi
    [] kind \in {"irq", "brk"} -> Vector.emuIrqBrk

\* In emulation mode bit 4 of the pushed status tells software interrupts apart.
PushedStatus(n, kind) ==
  PByte(IF kind \in {"brk", "cop"} THEN n.p \cup {"X"} ELSE n.p \ {"X"})

ServiceInterrupt(n, kind) ==
  IF n.e
  THEN Entered(Push(Push16(n, n.pc), PushedStatus(n, kind)), EmulationVector(kind))
  ELSE Entered(Push(Push16(Push(n, n.pbr), n.pc), PByte(n.p)), Vector[kind])

Awoken == [Boundary(m) EXCEPT !.waiting = FALSE]

TakeNmi == /\ ~m.stopped /\ bus.nmi
           /\ m' = Boundary(ServiceInterrupt(Awoken, "nmi"))
           /\ bus' = [bus EXCEPT !.nmi = FALSE]
TakeIrq == /\ ~m.stopped /\ ~bus.nmi /\ bus.irq /\ "I" \notin m.p
           /\ Finish(ServiceInterrupt(Awoken, "irq"))

\* The processor is at an instruction, and its opcode is one of these.
Awake == /\ ~m.stopped /\ ~bus.nmi
         /\ m.waiting => bus.irq
         /\ bus.irq => "I" \in m.p
Opcode == Fetched(Boundary(m), 0)
Runs(opcodes) == Awake /\ Opcode \in opcodes
Fetch == Skip(Awoken, 1)

(***************************************************************************)
(* Loads, stores and arithmetic.  An operator that computes returns a      *)
(* value v and flags p.                                                    *)
(***************************************************************************)
ActiveA(n) == IF M8(n) THEN Lo(n.a) ELSE n.a
SetA(n, v) == [n EXCEPT !.a = IF M8(n) THEN Word(Lo(v), Hi(@)) ELSE v]
StoreA(n, r) == [SetA(n, r.v) EXCEPT !.p = r.p]

AluMode == 1 :> "(dp,x)" @@ 3 :> "sr" @@ 5 :> "dp" @@ 7 :> "[dp]" @@ 9 :> "imm"
        @@ 13 :> "abs" @@ 15 :> "long" @@ 17 :> "(dp),y" @@ 18 :> "(dp)"
        @@ 19 :> "(sr),y" @@ 21 :> "dp,x" @@ 23 :> "[dp],y" @@ 25 :> "abs,y"
        @@ 29 :> "abs,x" @@ 31 :> "long,x"
AluOpcodes(base) == {base + column : column \in DOMAIN AluMode}
AluModeOf(base) == AluMode[Opcode - base]

Accumulate(base, F(_, _, _, _)) ==
  /\ Runs(AluOpcodes(base))
  /\ LET mode == AluModeOf(base)
         eight == M8(Fetch)
     IN Finish(StoreA(PastOperand(Fetch, mode, eight),
                      F(ActiveA(Fetch), Operand(Fetch, mode, eight), Fetch.p, eight)))

OpAnd(a, v, p, eight) == Counted(And(a, v), p, eight)
OpOra(a, v, p, eight) == Counted(Or(a, v), p, eight)
OpEor(a, v, p, eight) == Counted(Xor(a, v), p, eight)
OpLda(a, v, p, eight) == Counted(v, p, eight)

ADC == Accumulate(\H60, Adc)
SBC == Accumulate(\HE0, Sbc)
AND == Accumulate(\H20, OpAnd)
ORA == Accumulate(\H00, OpOra)
EOR == Accumulate(\H40, OpEor)
LDA == Accumulate(\HA0, OpLda)

CMP == /\ Runs(AluOpcodes(\HC0))
       /\ LET mode == AluModeOf(\HC0)
              eight == M8(Fetch)
          IN Finish([PastOperand(Fetch, mode, eight) EXCEPT
                       !.p = Compare(ActiveA(Fetch), Operand(Fetch, mode, eight), @, eight)])

STA == /\ Runs(AluOpcodes(\H80) \ {\H89})
       /\ LET mode == AluModeOf(\H80)
          IN Finish(WriteAt(PastOperand(Fetch, mode, FALSE), EffectiveAddress(Fetch, mode),
                            Fetch.a, M8(Fetch)))

\* The other instructions have a table of their own: opcode to addressing mode.
CompareIndex(modes, r) ==
  /\ Runs(DOMAIN modes)
  /\ LET mode == modes[Opcode]
         eight == X8(Fetch)
     IN Finish([PastOperand(Fetch, mode, eight) EXCEPT
                  !.p = Compare(r, Operand(Fetch, mode, eight), @, eight)])
CPX == CompareIndex(\HE0 :> "imm" @@ \HEC :> "abs" @@ \HE4 :> "dp", m.x)
CPY == CompareIndex(\HC0 :> "imm" @@ \HCC :> "abs" @@ \HC4 :> "dp", m.y)

\* A value arrives in an index register, which X makes narrow.
ToX(n, v) == [n EXCEPT !.x = IF X8(n) THEN Lo(v) ELSE v, !.p = SetNZ(@, v, X8(n))]
ToY(n, v) == [n EXCEPT !.y = IF X8(n) THEN Lo(v) ELSE v, !.p = SetNZ(@, v, X8(n))]

LoadIndex(modes, To(_, _)) ==
  /\ Runs(DOMAIN modes)
  /\ LET mode == modes[Opcode]
         eight == X8(Fetch)
     IN Finish(To(PastOperand(Fetch, mode, eight), Operand(Fetch, mode, eight)))
LDX == LoadIndex(\HA2 :> "imm" @@ \HAE :> "abs" @@ \HA6 :> "dp" @@ \HBE :> "abs,y"
                 @@ \HB6 :> "dp,y", ToX)
LDY == LoadIndex(\HA0 :> "imm" @@ \HAC :> "abs" @@ \HA4 :> "dp" @@ \HBC :> "abs,x"
                 @@ \HB4 :> "dp,x", ToY)

StoreReg(modes, v, eight) ==
  /\ Runs(DOMAIN modes)
  /\ LET mode == modes[Opcode]
     IN Finish(WriteAt(PastOperand(Fetch, mode, FALSE), EffectiveAddress(Fetch, mode),
                       v, eight))
STX == StoreReg(\H8E :> "abs" @@ \H86 :> "dp" @@ \H96 :> "dp,y", m.x, X8(m))
STY == StoreReg(\H8C :> "abs" @@ \H84 :> "dp" @@ \H94 :> "dp,x", m.y, X8(m))
STZ == StoreReg(\H9C :> "abs" @@ \H64 :> "dp" @@ \H9E :> "abs,x" @@ \H74 :> "dp,x",
                0, M8(m))

\* BIT: N and V come from the operand, except from an immediate one.
BitFlags(n, v, immediate) ==
  LET half == Size(M8(n)) \div 2
      p == SetFlag(n.p, "Z", And(ActiveA(n), v) = 0)
  IN IF immediate THEN p
     ELSE SetFlag(SetFlag(p, "N", v >= half), "V", (v \div (half \div 2)) % 2 = 1)
BitModes == \H89 :> "imm" @@ \H2C :> "abs" @@ \H24 :> "dp" @@ \H3C :> "abs,x"
            @@ \H34 :> "dp,x"
BIT == /\ Runs(DOMAIN BitModes)
       /\ LET mode == BitModes[Opcode]
              v == Operand(Fetch, mode, M8(Fetch))
          IN Finish([PastOperand(Fetch, mode, M8(Fetch)) EXCEPT
                       !.p = BitFlags(Fetch, v, mode = "imm")])

\* Read, modify, write; the flags and the value written come from F.
Modify(modes, F(_, _, _)) ==
  /\ Runs(DOMAIN modes)
  /\ LET mode == modes[Opcode]
         ea == EffectiveAddress(Fetch, mode)
         r == F(ReadAt(Fetch, ea, M8(Fetch)), Fetch.p, M8(Fetch))
     IN Finish([WriteAt(PastOperand(Fetch, mode, FALSE), ea, r.v, M8(Fetch)) EXCEPT
                  !.p = r.p])
TestZ(v, p) == SetFlag(p, "Z", And(ActiveA(m), v) = 0)
OpTrb(v, p, eight) == [v |-> AndNot(v, m.a), p |-> TestZ(v, p)]
OpTsb(v, p, eight) == [v |-> Or(v, ActiveA(m)), p |-> TestZ(v, p)]
TRB == Modify(\H1C :> "abs" @@ \H14 :> "dp", OpTrb)
TSB == Modify(\H0C :> "abs" @@ \H04 :> "dp", OpTsb)

RmwModes(base) == base + 14 :> "abs" @@ base + 6 :> "dp" @@ base + 30 :> "abs,x"
                  @@ base + 22 :> "dp,x"
OnA(opcode, F(_, _, _)) ==
  Runs({opcode}) /\ Finish(StoreA(Fetch, F(ActiveA(Fetch), Fetch.p, M8(Fetch))))

IncDecA == OnA(\H1A, Inc) \/ OnA(\H3A, Dec)
IncDecMemory == Modify(RmwModes(\HE0), Inc) \/ Modify(RmwModes(\HC0), Dec)
IncDecIndex ==
  \/ Runs({\HE8}) /\ Finish(ToX(Fetch, W16(Fetch.x + 1)))
  \/ Runs({\HCA}) /\ Finish(ToX(Fetch, W16(Fetch.x - 1)))
  \/ Runs({\HC8}) /\ Finish(ToY(Fetch, W16(Fetch.y + 1)))
  \/ Runs({\H88}) /\ Finish(ToY(Fetch, W16(Fetch.y - 1)))
ASL == OnA(\H0A, Asl) \/ Modify(RmwModes(\H00), Asl)
LSR == OnA(\H4A, Lsr) \/ Modify(RmwModes(\H40), Lsr)
ROL == OnA(\H2A, Rol) \/ Modify(RmwModes(\H20), Rol)
ROR == OnA(\H6A, Ror) \/ Modify(RmwModes(\H60), Ror)

(***************************************************************************)
(* Branches, jumps, calls and returns.                                     *)
(***************************************************************************)
BranchFlag == \H90 :> <<"C", FALSE>> @@ \HB0 :> <<"C", TRUE>> @@ \HF0 :> <<"Z", TRUE>>
           @@ \HD0 :> <<"Z", FALSE>> @@ \H30 :> <<"N", TRUE>> @@ \H10 :> <<"N", FALSE>>
           @@ \H50 :> <<"V", FALSE>> @@ \H70 :> <<"V", TRUE>>
Branch(n, take) == Skip(n, IF take THEN 1 + Signed8(Fetched(n, 0)) ELSE 1)
BranchIf ==
  /\ Runs(DOMAIN BranchFlag)
  /\ LET test == BranchFlag[Opcode]
     IN Finish(Branch(Fetch, (test[1] \in m.p) = test[2]))
BranchAlways ==
  \/ Runs({\H80}) /\ Finish(Branch(Fetch, TRUE))
  \/ Runs({\H82}) /\ Finish(Skip(Fetch, 2 + Fetched16(Fetch, 0)))

Goto(n, pc) == [n EXCEPT !.pc = pc]
GotoBank(n, pc, bank) == [n EXCEPT !.pc = pc, !.pbr = bank]

\* A pointer in the program bank, indexed by X.
ProgramPtr(n, base) ==
  LET ptr == W16(base + n.x)
      InBank(a) == n.pbr * 65536 + a
  IN Read16(n, InBank(ptr), InBank(W16(ptr + 1)))

Jump ==
  \/ Runs({\H4C}) /\ Finish(Goto(Fetch, Fetched16(Fetch, 0)))
  \/ Runs({\H5C}) /\ Finish(GotoBank(Fetch, Fetched16(Fetch, 0), Fetched(Fetch, 2)))
  \/ Runs({\H6C}) /\ Finish(Goto(Fetch, DpPtr16(Fetch, Fetched16(Fetch, 0))))
  \/ Runs({\H7C}) /\ Finish(Goto(Fetch, ProgramPtr(Fetch, Fetched16(Fetch, 0))))
  \/ Runs({\HDC}) /\ LET ptr == DpPtr24(Fetch, Fetched16(Fetch, 0))
                     IN Finish(GotoBank(Fetch, ptr % 65536, ptr \div 65536))

\* The operand is fetched before the return address is pushed, except for its last
\* byte in JSL and in JSR (abs,X): a push may overwrite it.
JSR ==
  \/ Runs({\H20}) /\ LET n == Skip(Fetch, 2)
                     IN Finish(Goto(Push16(n, W16(n.pc - 1)), Fetched16(Fetch, 0)))
  \/ Runs({\HFC}) /\ LET n == Skip(Fetch, 1)
                         pushed == Push16(n, n.pc)
                         base == Word(Fetched(Fetch, 0), Fetched(pushed, 0))
                     IN Finish(Goto(pushed, ProgramPtr(pushed, base)))
JSL ==
  Runs({\H22}) /\ LET n == PushN(Skip(Fetch, 2), Fetch.pbr)
                      pushed == Push16N(n, n.pc)
                  IN Finish(GotoBank(pushed, Fetched16(Fetch, 0), Fetched(n, 0)))

RTS == Runs({\H60}) /\ Finish(Goto(Pop(Pop(Fetch)), W16(Pulled16(Fetch) + 1)))
RTL == Runs({\H6B}) /\ Finish(GotoBank(PopN(PopN(PopN(Fetch))), W16(Pulled16N(Fetch) + 1),
                                       PulledN(PopN(PopN(Fetch)))))

\* The pull of a status byte, which may change the width of the registers.
PullStatus(n) == [Pop(n) EXCEPT !.p = PFlags(Pulled(n))]
ReturnsNear(n) ==   \* Mutant: the bank is pulled in neither mode.
  LET status == PullStatus(n)
  IN NormalizeWidths(Goto(Pop(Pop(status)), Pulled16(status)))
ReturnFromInterrupt(n) ==
  LET status == PullStatus(n)
      back == Goto(Pop(Pop(status)), Pulled16(status))
  IN NormalizeWidths(IF n.e THEN back ELSE [Pop(back) EXCEPT !.pbr = Pulled(back)])
RTI == Runs({\H40}) /\ Finish(ReturnFromInterrupt(Fetch))

Software == \/ Runs({\H00}) /\ Finish(ServiceInterrupt(Skip(Fetch, 1), "brk"))
            \/ Runs({\H02}) /\ Finish(ServiceInterrupt(Skip(Fetch, 1), "cop"))

(***************************************************************************)
(* Transfers, the stack instructions, and the flags.                       *)
(***************************************************************************)
ToA(n, v) == StoreA(n, Counted(v, n.p, M8(n)))
ToS(n, v) == [n EXCEPT !.s = IF n.e THEN Page1(v) ELSE v]
NZ16(n, v) == [n EXCEPT !.p = SetNZ(@, v, FALSE)]

Transfer ==
  \/ Runs({\HAA}) /\ Finish(ToX(Fetch, Fetch.a))
  \/ Runs({\HA8}) /\ Finish(ToY(Fetch, Fetch.a))
  \/ Runs({\H8A}) /\ Finish(ToA(Fetch, Fetch.x))
  \/ Runs({\H98}) /\ Finish(ToA(Fetch, Fetch.y))
  \/ Runs({\H9B}) /\ Finish(ToY(Fetch, Fetch.x))
  \/ Runs({\HBB}) /\ Finish(ToX(Fetch, Fetch.y))
  \/ Runs({\HBA}) /\ Finish(ToX(Fetch, Fetch.s))
  \/ Runs({\H9A}) /\ Finish(ToS(Fetch, Fetch.x))
  \/ Runs({\H5B}) /\ Finish(NZ16([Fetch EXCEPT !.d = Fetch.a], Fetch.a))
  \/ Runs({\H7B}) /\ Finish(NZ16([Fetch EXCEPT !.a = Fetch.d], Fetch.d))
  \/ Runs({\H1B}) /\ Finish(ToS(Fetch, Fetch.a))
  \/ Runs({\H3B}) /\ Finish(NZ16([Fetch EXCEPT !.a = Fetch.s], Fetch.s))

PushWide(n, v, eight) == IF eight THEN Push(n, Lo(v)) ELSE Push16(n, v)
PulledWide(n, eight) == IF eight THEN Pulled(n) ELSE Pulled16(n)
PopWide(n, eight) == IF eight THEN Pop(n) ELSE Pop(Pop(n))

PushRegister ==
  \/ Runs({\H48}) /\ Finish(PushWide(Fetch, Fetch.a, M8(Fetch)))
  \/ Runs({\HDA}) /\ Finish(PushWide(Fetch, Fetch.x, X8(Fetch)))
  \/ Runs({\H5A}) /\ Finish(PushWide(Fetch, Fetch.y, X8(Fetch)))
  \/ Runs({\H08}) /\ Finish(Push(Fetch, PByte(Fetch.p)))
  \/ Runs({\H8B}) /\ Finish(PushN(Fetch, Fetch.dbr))
  \/ Runs({\H0B}) /\ Finish(Push16N(Fetch, Fetch.d))
  \/ Runs({\H4B}) /\ Finish(Push(Fetch, Fetch.pbr))
PushOperand ==
  \/ Runs({\HF4}) /\ Finish(Push16N(Skip(Fetch, 2), Fetched16(Fetch, 0)))
  \/ Runs({\HD4}) /\ Finish(Push16N(Skip(Fetch, 1), DpWord(Fetch)))
  \/ Runs({\H62}) /\ LET n == Skip(Fetch, 2)
                     IN Finish(Push16N(n, W16(n.pc + Fetched16(Fetch, 0))))
PullRegister ==
  \/ Runs({\H68}) /\ Finish(ToA(PopWide(Fetch, M8(Fetch)), PulledWide(Fetch, M8(Fetch))))
  \/ Runs({\HFA}) /\ Finish(ToX(PopWide(Fetch, X8(Fetch)), PulledWide(Fetch, X8(Fetch))))
  \/ Runs({\H7A}) /\ Finish(ToY(PopWide(Fetch, X8(Fetch)), PulledWide(Fetch, X8(Fetch))))
  \/ Runs({\H28}) /\ Finish(NormalizeWidths(PullStatus(Fetch)))
  \/ Runs({\HAB}) /\ Finish([PopN(Fetch) EXCEPT !.dbr = PulledN(Fetch),
                                                !.p = SetNZ(@, PulledN(Fetch), TRUE)])
  \/ Runs({\H2B}) /\ Finish([PopN(PopN(Fetch)) EXCEPT !.d = Pulled16N(Fetch),
                                                      !.p = SetNZ(@, Pulled16N(Fetch), FALSE)])

FlagOps == \H18 :> <<"C", FALSE>> @@ \H38 :> <<"C", TRUE>> @@ \H58 :> <<"I", FALSE>>
        @@ \H78 :> <<"I", TRUE>> @@ \HB8 :> <<"V", FALSE>> @@ \HD8 :> <<"D", FALSE>>
        @@ \HF8 :> <<"D", TRUE>>
FlagOp == /\ Runs(DOMAIN FlagOps)
          /\ Finish([Fetch EXCEPT !.p = SetFlag(@, FlagOps[Opcode][1], FlagOps[Opcode][2])])

\* REP, SEP and XCE change the mode or the width of the registers.
ExchangeCE(n) == NormalizeWidths([n EXCEPT !.e = "C" \in n.p, !.p = SetFlag(@, "C", n.e)])
ChangeMode ==
  \/ Runs({\HC2}) /\ Finish(NormalizeWidths(
                       [Skip(Fetch, 1) EXCEPT !.p = @ \ PFlags(Fetched(Fetch, 0))]))
  \/ Runs({\HE2}) /\ Finish(NormalizeWidths(
                       [Skip(Fetch, 1) EXCEPT !.p = @ \cup PFlags(Fetched(Fetch, 0))]))
  \/ Runs({\HFB}) /\ Finish(ExchangeCE(Fetch))

XBA == /\ Runs({\HEB})
       /\ Finish([Fetch EXCEPT !.a = Word(Hi(@), Lo(@)), !.p = SetNZ(@, Hi(Fetch.a), TRUE)])

(***************************************************************************)
(* A block move transfers one byte and rewinds the pc to itself until A    *)
(* has counted down past zero, so that interrupts are taken between bytes. *)
(***************************************************************************)
MoveOneLess(n, step) ==   \* Mutant: the move stops one byte early.
  LET Stepped(r) == IF X8(n) THEN W8(r + step) ELSE W16(r + step)
      dst == Fetched(n, 0)
      src == Fetched(n, 1)
  IN [n EXCEPT !.dbr = dst, !.x = Stepped(@), !.y = Stepped(@), !.a = W16(@ - 1),
               !.mem = Poke(@, dst * 65536 + n.y, Read(n, src * 65536 + n.x)),
               !.pc = W16(IF n.a <= 1 THEN @ + 2 ELSE @ - 1)]
MoveByte(n, step) ==
  LET Stepped(r) == IF X8(n) THEN W8(r + step) ELSE W16(r + step)
      dst == Fetched(n, 0)
      src == Fetched(n, 1)
  IN [n EXCEPT !.dbr = dst, !.x = Stepped(@), !.y = Stepped(@), !.a = W16(@ - 1),
               !.mem = Poke(@, dst * 65536 + n.y, Read(n, src * 65536 + n.x)),
               !.pc = W16(IF n.a = 0 THEN @ + 2 ELSE @ - 1)]
MVN == Runs({\H54}) /\ Finish(MoveByte(Fetch, 1))
MVP == Runs({\H44}) /\ Finish(MoveByte(Fetch, -1))

WAI == Runs({\HCB}) /\ Finish([Fetch EXCEPT !.waiting = TRUE])
STP == Runs({\HDB}) /\ Finish([Fetch EXCEPT !.stopped = TRUE])
NOP == \/ Runs({\HEA}) /\ Finish(Fetch)
       \/ Runs({\H42}) /\ Finish(Skip(Fetch, 1))

(***************************************************************************)
(* The environment: the scheduler raises the edge and the line, and lowers *)
(* the line when it is acknowledged.                                       *)
(***************************************************************************)
Raise(line) == /\ bus.raised < MaxRaised /\ ~bus[line]
               /\ bus' = [bus EXCEPT ![line] = TRUE, !.raised = @ + 1]
               /\ UNCHANGED m
Lower == /\ bus.irq
         /\ bus' = [bus EXCEPT !.irq = FALSE]
         /\ UNCHANGED m

Compute == ADC \/ SBC \/ AND \/ ORA \/ EOR \/ LDA \/ CMP \/ CPX \/ CPY \/ BIT
Access == STA \/ LDX \/ LDY \/ STX \/ STY \/ STZ
Change == TRB \/ TSB \/ IncDecA \/ IncDecMemory \/ IncDecIndex \/ ASL \/ LSR \/ ROL \/ ROR
Control == BranchIf \/ BranchAlways \/ Jump \/ JSR \/ JSL \/ RTS \/ RTL \/ RTI \/ Software
Moves == Transfer \/ PushRegister \/ PushOperand \/ PullRegister \/ XBA \/ MVN \/ MVP
Modes == FlagOp \/ ChangeMode \/ WAI \/ STP \/ NOP

Step == TakeNmi \/ TakeIrq \/ Compute \/ Access \/ Change \/ Control \/ Moves \/ Modes
Next == Step \/ Raise("nmi") \/ Raise("irq") \/ Lower

Spec == Init /\ [][Next]_vars

-----------------------------------------------------------------------------
(***************************************************************************)
(* What a program may expect of the processor: calls and interrupts that   *)
(* come back, block moves that are complete, exact arithmetic.             *)
(*                                                                         *)
(* calls and move record what has happened; no action reads them.          *)
(***************************************************************************)
CONSTANT MaxDepth \* Bound: how many of the innermost frames are remembered.

VARIABLES calls, \* The calls and interrupts that have not returned.
          move   \* The block move in progress: <<the machine at its first byte, the last>>.

allVars == <<m, bus, calls, move>>

(***************************************************************************)
(* Frames: where a call or an interrupt shall return to, and the bytes on  *)
(* the stack that say so.                                                  *)
(***************************************************************************)
FrameBytes(kind) ==
  LET n == CASE kind = "near" -> 2
             [] kind = "long" -> 3
             [] kind = "interrupt" -> IF m.e THEN 3 ELSE 4
      address(i) == IF m.e /\ kind # "long" THEN Page1(m.s - i) ELSE W16(m.s - i)
  IN {address(i) : i \in 0..(n - 1)}

Frame(kind, length) ==
  [kind |-> kind, e |-> m.e, before |-> m.s, after |-> m'.s,
   pc |-> W16(m.pc + length), pbr |-> m.pbr, p |-> m.p,
   bytes |-> [a \in FrameBytes(kind) |-> m'.mem[a]]]
Enter(kind, length) ==
  LET all == Append(calls, Frame(kind, length))
  IN calls' = IF Len(all) > MaxDepth THEN Tail(all) ELSE all
Leave == calls' = IF calls = <<>> THEN calls ELSE SubSeq(calls, 1, Len(calls) - 1)

(***************************************************************************)
(* A block move begins at its first byte, and goes on when the instruction *)
(* is executed again with the registers and the memory it had left.        *)
(***************************************************************************)
SameMove == /\ move # <<>>
            /\ LET last == move[2]
               IN /\ m.pc = last.pc /\ m.pbr = last.pbr
                  /\ m.a = last.a /\ m.x = last.x /\ m.y = last.y /\ X8(m) = X8(last)
Moved == /\ move' = IF m'.pc # m.pc THEN <<>>
                    ELSE <<IF SameMove THEN move[1] ELSE m, m'>>
         /\ UNCHANGED calls

Plain == UNCHANGED <<calls, move>>

PInit == Init /\ calls = <<>> /\ move = <<>>

PNext == \/ (TakeNmi \/ TakeIrq) /\ Enter("interrupt", 0) /\ UNCHANGED move
         \/ Software /\ Enter("interrupt", 2) /\ UNCHANGED move
         \/ JSR /\ Enter("near", 3) /\ UNCHANGED move
         \/ JSL /\ Enter("long", 4) /\ UNCHANGED move
         \/ (RTS \/ RTL \/ RTI) /\ Leave /\ UNCHANGED move
         \/ (MVN \/ MVP) /\ Moved
         \/ (Compute \/ Access \/ Change \/ Modes) /\ Plain
         \/ (BranchIf \/ BranchAlways \/ Jump) /\ Plain
         \/ (Transfer \/ PushRegister \/ PushOperand \/ PullRegister \/ XBA) /\ Plain
         \/ (Raise("nmi") \/ Raise("irq") \/ Lower) /\ Plain

PSpec == PInit /\ [][PNext]_allVars

(***************************************************************************)
(* Properties.                                                             *)
(***************************************************************************)
\* The top frame is the one this return is for, and the program has left it alone: same
\* mode, same stack pointer, same bytes.  (Emulation mode promises no more than 16 bits
\* of return address to an interrupt, and keeps a long call's frame only if it does not
\* cross the bottom of page 1.)
Undisturbed(f, kind) ==
  /\ f.kind = kind /\ f.e = m.e /\ f.after = m.s
  /\ \A a \in DOMAIN f.bytes : m.mem[a] = f.bytes[a]
  /\ (f.e /\ kind = "interrupt") => f.pbr = 0
  /\ (f.e /\ kind = "long") => Lo(f.before) > 2

Top == calls[Len(calls)]
ReturnsTo(f) == m'.pc = f.pc /\ m'.s = f.before

\* A return, through an undisturbed frame, goes back to the instruction after the call,
\* or to the interrupted one with its status, with the stack as it was: however deep the
\* nesting and whichever mode, bank and width the callee ran in.
CallsReturn ==
  [][/\ RTS /\ calls # <<>> => (Undisturbed(Top, "near") => ReturnsTo(Top))
     /\ RTL /\ calls # <<>> =>
          (Undisturbed(Top, "long") => ReturnsTo(Top) /\ m'.pbr = Top.pbr)
     /\ RTI /\ calls # <<>> =>
          (Undisturbed(Top, "interrupt") =>
             ReturnsTo(Top) /\ m'.pbr = Top.pbr /\ m'.p = Top.p)]_allVars

\* Where byte i of a move that began at the machine n lies.
SourceByte(n, i, step) ==
  Fetched(n, 2) * 65536 + (IF X8(n) THEN W8(n.x + i * step) ELSE W16(n.x + i * step))
TargetByte(n, i, step) ==
  Fetched(n, 1) * 65536 + (IF X8(n) THEN W8(n.y + i * step) ELSE W16(n.y + i * step))

\* A block move that goes on to the next instruction has transferred exactly A + 1
\* bytes, although interrupts were taken between them; source and target are disjoint.
MovesAll(step) ==
  LET first == IF SameMove THEN move[1] ELSE m
      source == {SourceByte(first, i, step) : i \in 0..first.a}
      target == {TargetByte(first, i, step) : i \in 0..first.a}
      code == {m.pbr * 65536 + W16(m.pc + i) : i \in 0..2}
  IN (m'.pc # m.pc /\ (source \cup code) \cap target = {} /\ first.a < 256) =>
       /\ m'.pc = W16(first.pc + 3) /\ m'.a = 65535
       /\ \A i \in 0..first.a : Read(m', TargetByte(first, i, step))
                                  = Read(first, SourceByte(first, i, step))
       /\ TargetByte(first, first.a + 1, step) % 65536 = m'.y
BlockMoves == [][(MVN => MovesAll(1)) /\ (MVP => MovesAll(-1))]_allVars

\* The number a register stands for, and how many of them there are.
Decimal(v) == Nibble(v, 0) + 10 * Nibble(v, 1) + 100 * Nibble(v, 2) + 1000 * Nibble(v, 3)
IsDecimal(v) == \A i \in 0..3 : Nibble(v, i) <= 9
NumberOf(v, p) == IF "D" \in p THEN Decimal(v) ELSE v
Range(p) == IF "D" \in p THEN IF "M" \in p THEN 100 ELSE 10000
            ELSE Size("M" \in p)

\* ADC and SBC compute with the carry as a further digit, in binary and, for operands
\* that are decimal, in decimal, in eight and in sixteen bits; the half of A that is not
\* addressed stays.
Exact(base, sign) ==
  LET v == Operand(Fetch, AluModeOf(base), M8(m))
      r == ActiveA(m')
      carry == IF sign = 1 THEN Carry(m.p) ELSE Carry(m.p) - 1
      carried == IF sign = 1 THEN Carry(m'.p) ELSE Carry(m'.p) - 1
  IN ("D" \in m.p => IsDecimal(ActiveA(m)) /\ IsDecimal(v)) =>
       /\ NumberOf(r, m.p) + Range(m.p) * carried
            = NumberOf(ActiveA(m), m.p) + sign * NumberOf(v, m.p) + carry
       /\ r = 0 <=> "Z" \in m'.p
       /\ M8(m) => Hi(m'.a) = Hi(m.a)
\* Between two steps, whatever was executed: emulation mode has eight-bit registers and
\* its stack in page 1, a narrow index register has no high byte, and every register
\* fits (Cpu::step, normalize_widths, push8_n).
WidthsOK ==
  /\ m.e => Hi(m.s) = 1 /\ {"M", "X"} \subseteq m.p
  /\ X8(m) => m.x < 256 /\ m.y < 256
  /\ {m.a, m.x, m.y, m.s, m.d, m.pc} \subseteq 0..65535
  /\ {m.dbr, m.pbr} \subseteq 0..255 /\ m.p \subseteq Flag
  /\ \A a \in DOMAIN m.mem : a \in 0..16777215 /\ m.mem[a] \in 0..255

\* Sums are exact, and registers keep to their widths after any instruction.
ArithmeticExact ==
  []WidthsOK /\ [][(ADC => Exact(\H60, 1)) /\ (SBC => Exact(\HE0, -1))]_allVars
=============================================================================

----------------------------- MODULE ApuProofs -----------------------------
(***************************************************************************)
(* Proofs about ApuPort, for any clock ratio, any costs and any program on *)
(* either side of the ports, and about the upload as such a program.       *)
(***************************************************************************)
EXTENDS ApuUpload, TLAPS

-----------------------------------------------------------------------------
(* Remainders.                                                             *)

\* A number has one remainder.
LEMMA QuotientsEqual ==
  ASSUME NEW S \in Nat, S > 0, NEW a \in Int, NEW b \in Int,
         NEW r \in 0..(S - 1), NEW s \in 0..(S - 1), S * a + r = S * b + s
  PROVE  r = s
<1>1. ASSUME NEW x \in Int, NEW y \in Int, x < y PROVE S * x + S <= S * y
  <2>1. PICK d \in Nat : y = x + 1 + d
    <3>1. y - x - 1 \in Nat /\ y = x + 1 + (y - x - 1)
      BY <1>1
    <3>2. QED
      BY <3>1
  <2>2. S * d >= 0
    OBVIOUS
  <2>3. S * y = S * x + S + S * d
    BY <2>1
  <2>4. QED
    BY <2>2, <2>3
<1>2. ~(a < b)
  <2>1. S * a \in Int /\ S * b \in Int
    OBVIOUS
  <2>2. QED
    BY <1>1, <2>1
<1>3. ~(b < a)
  <2>1. S * a \in Int /\ S * b \in Int
    OBVIOUS
  <2>2. QED
    BY <1>1, <2>1
<1>4. a = b
  BY <1>2, <1>3
<1>5. QED
  BY <1>4

\* A number is a multiple of S and its remainder.
LEMMA Remainder ==
  ASSUME NEW S \in Nat, S > 0, NEW x \in Int
  PROVE  \E q \in Int : x = S * q + (x % S) /\ x % S \in 0..(S - 1)
<1>1. x = S * (x \div S) + (x % S) /\ x \div S \in Int /\ x % S \in 0..(S - 1)
  OBVIOUS
<1>2. QED
  BY <1>1

\* A remainder may be taken before or after an addition.
LEMMA RemainderPlus ==
  ASSUME NEW S \in Nat, S > 0, NEW x \in Int, NEW k \in Int
  PROVE  ((x % S) + k) % S = (x + k) % S
<1>1. PICK q \in Int : x = S * q + (x % S) /\ x % S \in 0..(S - 1)
  BY Remainder
<1>2. PICK r : r = x % S
  OBVIOUS
<1>3. r \in Int /\ r + k \in Int /\ x + k \in Int
  BY <1>1, <1>2
<1>4. PICK p \in Int : r + k = S * p + ((r + k) % S) /\ (r + k) % S \in 0..(S - 1)
  BY <1>3, Remainder
<1>5. PICK o \in Int : x + k = S * o + ((x + k) % S) /\ (x + k) % S \in 0..(S - 1)
  BY <1>3, Remainder
<1>6. PICK s : s = (r + k) % S
  OBVIOUS
<1>7. PICK t : t = (x + k) % S
  OBVIOUS
<1>8. S * o + t = S * (q + p) + s
  <2>1. S * (q + p) = S * q + S * p
    OBVIOUS
  <2>2. S * q \in Int /\ S * p \in Int /\ S * o \in Int /\ s \in Int /\ t \in Int
    BY <1>4, <1>5, <1>6, <1>7
  <2>3. x + k = S * q + S * p + s
    BY <1>1, <1>2, <1>3, <1>4, <1>6, <2>2
  <2>4. QED
    BY <1>5, <1>7, <2>1, <2>2, <2>3
<1>9. s = t
  <2>1. s \in 0..(S - 1) /\ t \in 0..(S - 1)
    BY <1>4, <1>5, <1>6, <1>7
  <2>2. PICK z \in Int : z = q + p
    BY <1>1, <1>4
  <2>3. QED
    BY <1>5, <1>8, <2>1, <2>2, QuotientsEqual
<1>10. QED
  BY <1>2, <1>6, <1>7, <1>9

-----------------------------------------------------------------------------
(* Types.                                                                  *)

Ports == [Port -> Byte]
Rams == [Addr -> Byte]

\* Addresses are two bytes, low and high.
LEMMA AddressBytes ==
  ASSUME NEW x \in Addr
  PROVE  x % Bytes \in Byte /\ x \div Bytes \in Byte
<1>1. Bytes \in Nat \ {0, 1} BY ApuAssumption
<1> DEFINE size == Bytes * Bytes
<1>2. size \in Nat /\ x \in Nat /\ x < size BY <1>1, SMT DEF Addr
<1>3. x % Bytes \in 0..(Bytes - 1) /\ x \div Bytes \in Nat BY <1>1, <1>2, SMT
<1>4. x = Bytes * (x \div Bytes) + (x % Bytes) BY <1>1, <1>2, SMT
<1>5. x \div Bytes < Bytes
  <2> DEFINE q == x \div Bytes
  <2>1. SUFFICES ASSUME q >= Bytes PROVE FALSE BY <1>1, <1>3, SMT
  <2>2. Bytes * q >= Bytes * Bytes BY <2>1, <1>1, <1>3, SMT
  <2> QED BY <2>2, <1>1, <1>2, <1>3, <1>4, SMT
<1> QED BY <1>1, <1>3, <1>5, SMT DEF Byte

LEMMA AddressOfBytes ==
  ASSUME NEW l \in Byte, NEW h \in Byte
  PROVE  l + Bytes * h \in Addr
<1>1. Bytes \in Nat \ {0, 1} BY ApuAssumption
<1>2. h \in Nat /\ h + 1 <= Bytes /\ l \in Nat /\ l < Bytes BY <1>1, SMT DEF Byte
<1>3. Bytes * (h + 1) <= Bytes * Bytes BY <1>1, <1>2, SMT
<1>4. Bytes * (h + 1) = Bytes * h + Bytes /\ Bytes * h \in Nat BY <1>1, <1>2, SMT
<1> QED BY <1>1, <1>2, <1>3, <1>4, SMT DEF Addr

LEMMA Sizes ==
  /\ Bytes \in Nat /\ Bytes > 1 /\ Bytes * Bytes \in Nat /\ Bytes * Bytes > 1
  /\ 0 \in Byte /\ 1 \in Byte /\ 0 \in Addr /\ 1 \in Addr
  /\ Byte \subseteq Nat /\ Addr \subseteq Nat
<1>1. Bytes \in Nat /\ Bytes > 1 BY ApuAssumption, SMT
<1>2. Bytes * Bytes \in Nat /\ Bytes * Bytes >= Bytes BY <1>1, SMT
<1> QED BY <1>1, <1>2, SMT DEF Byte, Addr

LEMMA NextAddress ==
  ASSUME NEW x \in Addr
  PROVE  (x + 1) % (Bytes * Bytes) \in Addr
<1> DEFINE size == Bytes * Bytes
<1>1. size \in Nat /\ size > 1 BY Sizes
<1>2. x \in Nat BY Sizes
<1> HIDE DEF size
<1>3. (x + 1) % size \in 0..(size - 1) BY <1>1, <1>2, SMT
<1> QED BY <1>3 DEF size, Addr

LEMMA NextByte ==
  ASSUME NEW x \in Byte
  PROVE  (x + 1) % Bytes \in Byte
BY Sizes, SMT DEF Byte

LEMMA PointerType ==
  ASSUME NEW ram \in Rams, NEW x \in Addr
  PROVE  Pointer(ram, x) \in Rams
BY AddressBytes, Sizes DEF Pointer, Rams

LEMMA ApuFields ==
  ASSUME NEW a \in Apus
  PROVE  /\ a.in \in Ports /\ a.out \in Ports /\ a.ram \in Rams /\ a.ptr \in Addr
         /\ a.last \in Byte /\ a.expected \in Byte
         /\ \A p \in Port : a.in[p] \in Byte /\ a.out[p] \in Byte
         /\ Starts(a) \in Addr
<1>1. a.in \in Ports /\ a.out \in Ports /\ a.ram \in Rams /\ a.ptr \in Addr
      /\ a.last \in Byte /\ a.expected \in Byte
  BY DEF Apus, Ports, Rams
<1>2. \A p \in Port : a.in[p] \in Byte /\ a.out[p] \in Byte BY <1>1 DEF Ports
<1>3. 2 \in Port /\ 3 \in Port BY DEF Port
<1> QED BY <1>1, <1>2, <1>3, AddressOfBytes DEF Starts

LEMMA PortUpdate ==
  ASSUME NEW f \in Ports, NEW p \in Port, NEW v \in Byte
  PROVE  [f EXCEPT ![p] = v] \in Ports
BY DEF Ports

LEMMA CommandType ==
  ASSUME NEW a \in Apus, NEW signal \in Byte
  PROVE  Command(a, signal) \in Apus
<1> DEFINE o == [a.out EXCEPT ![0] = signal]
           r == Pointer(a.ram, Starts(a))
<1>1. Starts(a) \in Addr /\ 0 \in Byte /\ 0 \in Port /\ a.out \in Ports /\ a.ram \in Rams
  BY ApuFields, Sizes DEF Port
<1>a. o \in Ports BY <1>1, PortUpdate
<1>b. r \in Rams BY <1>1, PointerType
<1>2. Zone(Starts(a)) \in {"program", "wait", "transfer"} BY DEF Zone
<1>3. Command(a, signal) =
        IF a.in[1] = 0
        THEN [a EXCEPT !.out = o, !.ram = r, !.zone = Zone(Starts(a)), !.mode = "done"]
        ELSE [a EXCEPT !.out = o, !.ram = r, !.zone = "transfer", !.mode = "receive",
                       !.ptr = Starts(a), !.last = signal, !.expected = 0]
  BY Zenon DEF Command
<1> DEFINE z == Zone(Starts(a))
           s == Starts(a)
<1> HIDE DEF o, r, z, s
<1>4. CASE a.in[1] = 0
  <2>1. Command(a, signal) = [a EXCEPT !.out = o, !.ram = r, !.zone = z, !.mode = "done"]
    BY <1>3, <1>4 DEF z
  <2>2. z \in {"program", "wait", "transfer"}
    BY <1>2 DEF z
  <2>3. QED
    BY <1>a, <1>b, <2>1, <2>2 DEF Apus, Ports, Rams
<1>5. CASE a.in[1] # 0
  <2>1. Command(a, signal) =
          [a EXCEPT !.out = o, !.ram = r, !.zone = "transfer", !.mode = "receive",
                    !.ptr = s, !.last = signal, !.expected = 0]
    BY <1>3, <1>5 DEF s
  <2>2. s \in Addr /\ 0 \in Byte
    BY <1>1 DEF s
  <2>3. QED
    BY <1>a, <1>b, <2>1, <2>2 DEF Apus, Ports, Rams
<1>6. QED
  BY <1>4, <1>5

LEMMA StoreType ==
  ASSUME NEW a \in Apus
  PROVE  Store(a) \in Apus
<1> DEFINE next == (a.ptr + 1) % (Bytes * Bytes)
           o == [a.out EXCEPT ![0] = a.in[0]]
           r == Pointer([a.ram EXCEPT ![a.ptr] = a.in[1]], next)
           e == (a.expected + 1) % Bytes
<1>1. a.in[0] \in Byte /\ a.in[1] \in Byte BY ApuFields DEF Port
<1>2. next \in Addr /\ e \in Byte BY ApuFields, NextAddress, NextByte
<1>3. [a.ram EXCEPT ![a.ptr] = a.in[1]] \in Rams BY <1>1, ApuFields DEF Rams
<1>4. o \in Ports /\ r \in Rams BY <1>1, <1>2, <1>3, ApuFields, PortUpdate, PointerType DEF Port
<1>5. Store(a) = [a EXCEPT !.out = o, !.ram = r, !.ptr = next, !.last = a.in[0], !.expected = e]
  BY Zenon DEF Store
<1> HIDE DEF next, o, r, e
<1> QED BY <1>1, <1>2, <1>4, <1>5 DEF Apus, Ports, Rams

LEMMA EffectsType ==
  ASSUME NEW a \in Apus, NEW e \in Effects(a)
  PROVE  e \in Apus
<1>1. CASE \E z \in {"program", "wait", "transfer"} : e = [a EXCEPT !.zone = z]
  BY <1>1 DEF Apus
<1>2. ASSUME NEW ports, NEW w \in [Port -> ProgramBytes], e = Wrote(a, ports, w)
      PROVE  e \in Apus
  <2> DEFINE o == [p \in Port |-> IF p \in ports THEN w[p] ELSE a.out[p]]
  <2>1. o \in Ports BY ApuAssumption, ApuFields DEF Ports
  <2>2. e = [a EXCEPT !.out = o] BY <1>2, Zenon DEF Wrote
  <2> HIDE DEF o
  <2> QED BY <2>1, <2>2 DEF Apus, Ports
<1>3. ASSUME NEW ports, NEW h \in {"no", "Stop", "TestTrigger", "Sleep"},
             e = [Cleared(a, ports) EXCEPT !.halted = h]
      PROVE  e \in Apus
  <2> DEFINE i == [p \in Port |-> IF p \in ports THEN 0 ELSE a.in[p]]
             c == Cleared(a, ports)
  <2>1. i \in Ports BY ApuFields, Sizes DEF Ports
  <2>2. c = [a EXCEPT !.in = i] BY Zenon DEF Cleared
  <2> HIDE DEF i
  <2>3. c \in Apus BY <2>1, <2>2 DEF Apus, Ports
  <2> HIDE DEF c
  <2>4. [c EXCEPT !.halted = h] \in Apus BY <2>3 DEF Apus
  <2> QED BY <1>3, <2>4 DEF c
<1> QED
  <2>1. ASSUME e \in Jumps(a) PROVE e \in Apus BY <1>1, <2>1 DEF Jumps
  <2>2. ASSUME e \in Stores(a) PROVE e \in Apus
    <3>1. PICK ports \in {{p} : p \in Port} \union {{p, p + 1} : p \in Port},
               w \in [Port -> ProgramBytes] : e = Wrote(a, ports, w)
      BY <2>2 DEF Stores
    <3> QED BY <1>2, <3>1, Zenon
  <2>3. ASSUME e \in Controls(a) PROVE e \in Apus BY <1>3, <2>3 DEF Controls
  <2> QED BY <2>1, <2>2, <2>3, Zenon DEF Effects

LEMMA StepsType ==
  ASSUME NEW a \in Apus, NEW s \in Steps(a)
  PROVE  s.apu \in Apus /\ s.cost \in Nat
<1>1. /\ 0 \in Nat /\ PollCost \in Nat /\ StoreCost \in Nat /\ KickCost \in Nat
      /\ BlockCost \in Nat /\ InstrCosts \subseteq Nat /\ Kick \in Byte
  BY ApuAssumption, Zenon
<1>2. CASE s = Ran(a, 0) BY <1>1, <1>2 DEF Ran
<1>3. CASE s = BootStep(a)
  <2>1. Command(a, Kick) \in Apus /\ Command(a, a.in[0]) \in Apus /\ Store(a) \in Apus
    BY <1>1, ApuFields, CommandType, StoreType DEF Port
  <2> QED BY <1>1, <1>3, <2>1 DEF BootStep, Ran
<1>4. CASE \E e \in Effects(a), c \in InstrCosts : s = Ran(e, c)
  BY <1>1, <1>4, EffectsType DEF Ran
<1> QED BY <1>2, <1>3, <1>4 DEF Steps

\* A halted APU does not change, and what is written to a port does not wake it.
LEMMA HaltStays ==
  ASSUME NEW a, a.halted # "no", NEW s \in Steps(a)
  PROVE  s.apu = a
BY DEF Steps, Ran

LEMMA ServiceType ==
  ASSUME NEW a \in Apus, NEW b \in Service(a)
  PROVE  b \in Apus /\ (b.halted = "no" => a.halted = "no")
BY StepsType, HaltStays DEF Service

LEMMA PutType ==
  ASSUME NEW a \in Apus, access.port \in Port, access.value \in Byte
  PROVE  Put(a) \in Apus /\ Put(a).halted = a.halted
<1> DEFINE i == [a.in EXCEPT ![access.port] = access.value]
<1>1. i \in Ports BY ApuFields, PortUpdate
<1>2. Put(a) = [a EXCEPT !.in = i] BY Zenon DEF Put
<1> HIDE DEF i
<1> QED BY <1>1, <1>2 DEF Apus, Ports

LEMMA WrittenType ==
  ASSUME apu \in Apus, access.port \in Port, access.value \in Byte, NEW b \in Written
  PROVE  b \in Apus /\ (b.halted = "no" => apu.halted = "no")
<1>1. CASE OverwritesKick
  <2>1. PICK a \in Service(apu) : b = Put(a) BY <1>1 DEF Written
  <2>2. a \in Apus /\ (a.halted = "no" => apu.halted = "no") BY ServiceType
  <2> QED BY <2>1, <2>2, PutType
<1>2. CASE ~OverwritesKick /\ ServedAfter
  <2>1. b \in Service(Put(apu)) BY <1>2 DEF Written
  <2>2. Put(apu) \in Apus /\ Put(apu).halted = apu.halted BY PutType
  <2> QED BY <2>1, <2>2, ServiceType
<1>3. CASE ~OverwritesKick /\ ~ServedAfter
  BY <1>3, PutType DEF Written
<1> QED BY <1>1, <1>2, <1>3

LEMMA HaltFaultType ==
  ASSUME NEW a, fault \in {"none", "Apu"}
  PROVE  HaltFault(a) \in {"none", "Apu"}
BY DEF HaltFault

-----------------------------------------------------------------------------
(* The clock.                                                              *)

\* Whole cycles and the remainder.
LEMMA Cycles ==
  ASSUME NEW x \in Nat
  PROVE  x \div Den \in Nat /\ x % Den \in 0..(Den - 1) /\ x = Den * (x \div Den) + (x % Den)
<1>1. Den \in Nat /\ Den > 0 BY ApuAssumption, SMT
<1> QED BY <1>1, SMT

\* The part of the invariant about time: a budget is only run once the debt is repaid,
\* and all but the last step of it fitted.
Overrun ==
  /\ loop.toRun > 0 => clock.debt = 0
  /\ loop.ran > 0 => loop.toRun > 0 /\ loop.ran < loop.toRun + hist.last
  /\ stage \in {"cpu", "at"} => loop.toRun = 0 /\ loop.ran = 0

TimeInv == TimeExact /\ OneStepAhead /\ Overrun

\* The clock's types, and what they need of the rest.
ClockOK ==
  /\ clock \in [accum : 0..(Den - 1), debt : Nat]
  /\ loop \in [toRun : Nat, ran : Nat]
  /\ hist \in [given : Int, last : Nat]

LEMMA StartKeepsTime ==
  ASSUME NEW delta \in Nat, ClockOK, TimeInv, stage \in {"cpu", "at"}, StartCatchUp(delta)
  PROVE  /\ ClockOK' /\ OneStepAhead' /\ lag' = 0
         /\ loop.toRun' > 0 => clock.debt' = 0
         /\ loop.ran' = 0
         /\ apu.halted = "no" =>
              hist.given' = clock.accum' + Den * (loop.toRun' - loop.ran' - clock.debt')
<1>1. Den \in Nat /\ Num \in Nat BY ApuAssumption, SMT
<1>2. /\ clock.accum \in Nat /\ clock.debt \in Nat /\ hist.given \in Int /\ hist.last \in Nat
      /\ loop.toRun = 0 /\ loop.ran = 0
  BY <1>1, SMT DEF ClockOK, TimeInv, Overrun
<1> DEFINE gain == delta * Num
           total == clock.accum + gain
           budget == total \div Den
           rest == total % Den
           repaid == IF clock.debt < budget THEN clock.debt ELSE budget
<1>3. gain \in Nat BY <1>1, SMT
<1>4. /\ lag' = 0 /\ clock' = [accum |-> rest, debt |-> clock.debt - repaid]
      /\ loop' = [toRun |-> budget - repaid, ran |-> 0]
      /\ hist' = [hist EXCEPT !.given = IF apu.halted = "no" THEN @ + gain ELSE @]
  BY Zenon DEF StartCatchUp
<1> HIDE DEF gain
<1>5. total \in Nat BY <1>2, <1>3, SMT
<1> HIDE DEF total
<1>6. budget \in Nat /\ rest \in 0..(Den - 1) /\ total = Den * budget + rest BY <1>5, Cycles
<1> HIDE DEF budget, rest
<1>7. repaid \in Nat /\ repaid <= budget /\ repaid <= clock.debt
      /\ (repaid = budget \/ repaid = clock.debt)
  BY <1>2, <1>6, SMT
<1> HIDE DEF repaid
<1>8. /\ clock.accum' = rest /\ clock.debt' = clock.debt - repaid
      /\ loop.toRun' = budget - repaid /\ loop.ran' = 0 /\ hist.last' = hist.last
      /\ hist.given' = IF apu.halted = "no" THEN hist.given + gain ELSE hist.given
  BY <1>4 DEF ClockOK
<1>9. ClockOK' BY <1>2, <1>3, <1>4, <1>6, <1>7, SMT DEF ClockOK
<1>10. OneStepAhead' BY <1>2, <1>7, <1>8, SMT DEF OneStepAhead, TimeInv
<1>11. ASSUME apu.halted = "no"
       PROVE  hist.given' = clock.accum' + Den * (loop.toRun' - loop.ran' - clock.debt')
  <2>1. hist.given = clock.accum + Den * (0 - clock.debt)
    BY <1>2, <1>11, SMT DEF TimeInv, TimeExact
  <2>2. hist.given' = total + Den * (0 - clock.debt)
    BY <2>1, <1>2, <1>3, <1>8, <1>11, <1>1, SMT DEF total
  <2>3. loop.toRun' - loop.ran' - clock.debt' = budget - clock.debt
    BY <1>2, <1>6, <1>7, <1>8, SMT
  <2>4. Den * (budget - clock.debt) = Den * budget + Den * (0 - clock.debt)
    BY <1>1, <1>2, <1>6, SMT
  <2> QED BY <2>2, <2>3, <2>4, <1>1, <1>2, <1>6, <1>8, SMT
<1> QED BY <1>4, <1>7, <1>8, <1>9, <1>10, <1>11, <1>2, <1>6, SMT

LEMMA EndKeepsTime ==
  ASSUME ClockOK, TimeInv, EndCatchUp, UNCHANGED hist, apu.halted = "no" => loop.ran >= loop.toRun
  PROVE  /\ ClockOK' /\ OneStepAhead' /\ loop.toRun' = 0 /\ loop.ran' = 0
         /\ apu.halted = "no" =>
              hist.given' = clock.accum' + Den * (loop.toRun' - loop.ran' - clock.debt')
<1>1. Den \in Nat BY ApuAssumption, SMT
<1>2. /\ clock.accum \in Nat /\ clock.debt \in Nat /\ hist.given \in Int /\ hist.last \in Nat
      /\ loop.toRun \in Nat /\ loop.ran \in Nat
  BY <1>1, SMT DEF ClockOK
<1> DEFINE over == IF loop.ran > loop.toRun THEN loop.ran - loop.toRun ELSE 0
<1>3. /\ clock' = [clock EXCEPT !.debt = @ + over] /\ loop' = [toRun |-> 0, ran |-> 0]
  BY Zenon DEF EndCatchUp
<1>4. over \in Nat BY <1>2, SMT
<1>5. /\ clock.accum' = clock.accum /\ clock.debt' = clock.debt + over
      /\ loop.toRun' = 0 /\ loop.ran' = 0
      /\ hist.given' = hist.given /\ hist.last' = hist.last
  BY <1>3 DEF ClockOK
<1>6. ClockOK' BY <1>2, <1>3, <1>4, SMT DEF ClockOK
<1>7. OneStepAhead' BY <1>2, <1>5, SMT DEF OneStepAhead, TimeInv, Overrun
<1>8. ASSUME apu.halted = "no"
      PROVE  hist.given' = clock.accum' + Den * (loop.toRun' - loop.ran' - clock.debt')
  <2>1. loop.toRun' - loop.ran' - clock.debt' = loop.toRun - loop.ran - clock.debt
    BY <1>2, <1>5, <1>8, SMT
  <2> QED BY <2>1, <1>5, <1>8, SMT DEF TimeInv, TimeExact
<1> QED BY <1>5, <1>6, <1>7, <1>8

-----------------------------------------------------------------------------
(* The invariant.                                                          *)

\* All but the clock's types.
RestOK ==
  /\ lag \in Nat
  /\ apu \in Apus
  /\ pending \in [kick : BOOLEAN, strobe : BOOLEAN]
  /\ stage \in {"cpu", "before", "at", "after", "line"}
  /\ access \in [op : {"none", "read", "write"}, port : Port, value : Byte, deferred : BOOLEAN]
  /\ mdr \in Byte
  /\ fault \in {"none", "Apu"}

IInv == ClockOK /\ RestOK /\ TimeInv

LEMMA AccessType ==
  ASSUME RestOK
  PROVE  /\ access.port \in Port /\ access.value \in Byte
         /\ NoAccess \in [op : {"none", "read", "write"}, port : Port, value : Byte,
                          deferred : BOOLEAN]
BY Sizes DEF RestOK, NoAccess, Port

LEMMA KickAfterType ==
  ASSUME RestOK, NEW a
  PROVE  KickAfter(a) \in BOOLEAN
BY DEF KickAfter, Captured, OverwritesKick, ServedAfter

LEMMA InitHolds == Init => IInv
<1> SUFFICES ASSUME Init PROVE IInv OBVIOUS
<1> USE DEF Init
<1>1. Den \in Nat /\ Den > 0 BY ApuAssumption, SMT
<1>2. ClockOK BY <1>1, SMT DEF ClockOK
<1>3. apu \in Apus
  <2> DEFINE o == [p \in Port |-> IF p = 0 THEN ReadyA ELSE IF p = 1 THEN ReadyB ELSE 0]
  <2>1. ReadyA \in Byte /\ ReadyB \in Byte BY ApuAssumption, Zenon
  <2>2. o \in Ports BY <2>1, Sizes DEF Ports
  <2>3. [p \in Port |-> 0] \in Ports /\ [x \in Addr |-> 0] \in Rams BY Sizes DEF Ports, Rams
  <2> HIDE DEF o
  <2> QED BY <2>2, <2>3, Sizes DEF Apus, Ports, Rams, o
<1>4. RestOK BY <1>3, Sizes DEF RestOK, NoAccess, Port
<1>5. TimeInv BY <1>1, SMT DEF TimeInv, TimeExact, OneStepAhead, Overrun
<1> QED BY <1>2, <1>4, <1>5 DEF IInv

\* Steps that leave the clock alone.
LEMMA ClockAlone ==
  ASSUME IInv, UNCHANGED <<clock, loop, hist>>, apu.halted' = "no" => apu.halted = "no",
         stage' = stage \/ (stage = "cpu" /\ stage' = "at")
  PROVE  ClockOK' /\ TimeInv'
BY DEF IInv, ClockOK, TimeInv, TimeExact, OneStepAhead, Overrun

LEMMA StartsCatchUp ==
  ASSUME IInv, NEW delta \in Nat, StartCatchUp(delta), stage \in {"cpu", "at"},
         stage' \in {"before", "after", "line"}, apu'.halted = "no" => apu.halted = "no"
  PROVE  ClockOK' /\ TimeInv' /\ lag' \in Nat
<1>1. /\ ClockOK' /\ OneStepAhead' /\ lag' = 0
      /\ loop.toRun' > 0 => clock.debt' = 0
      /\ loop.ran' = 0
      /\ apu.halted = "no" =>
           hist.given' = clock.accum' + Den * (loop.toRun' - loop.ran' - clock.debt')
  BY StartKeepsTime DEF IInv
<1>2. TimeExact' BY <1>1 DEF TimeExact
<1>3. Overrun' BY <1>1 DEF Overrun
<1> QED BY <1>1, <1>2, <1>3 DEF TimeInv

LEMMA EndsCatchUp ==
  ASSUME IInv, EndCatchUp, LoopOver, UNCHANGED hist, apu'.halted = "no" => apu.halted = "no"
  PROVE  ClockOK' /\ TimeInv'
<1>1. /\ ClockOK' /\ OneStepAhead' /\ loop.toRun' = 0 /\ loop.ran' = 0
      /\ apu.halted = "no" =>
           hist.given' = clock.accum' + Den * (loop.toRun' - loop.ran' - clock.debt')
  BY EndKeepsTime DEF IInv, LoopOver
<1>2. TimeExact' BY <1>1 DEF TimeExact
<1>3. Overrun' BY <1>1 DEF Overrun
<1> QED BY <1>1, <1>2, <1>3 DEF TimeInv

LEMMA ApuStepKeeps == IInv /\ ApuStep => IInv'
<1> SUFFICES ASSUME IInv, ApuStep PROVE IInv' OBVIOUS
<1>1. Den \in Nat BY ApuAssumption, SMT
<1>2. apu \in Apus BY DEF IInv, RestOK
<1>3. PICK s \in Steps(apu) :
        /\ apu' = s.apu
        /\ loop' = [loop EXCEPT !.ran = @ + s.cost]
        /\ hist' = [hist EXCEPT !.given = @ - Den * s.cost, !.last = s.cost]
  BY DEF ApuStep
<1>4. UNCHANGED <<lag, clock, pending, stage, access, mdr, fault>> /\ apu.halted = "no"
      /\ ~(loop.ran >= loop.toRun) /\ stage \in {"before", "after", "line"}
  BY DEF ApuStep, LoopOver, Running
<1>5. s.apu \in Apus /\ s.cost \in Nat BY <1>2, <1>3, StepsType
<1>6. /\ clock.accum \in Nat /\ clock.debt \in Nat /\ hist.given \in Int /\ hist.last \in Nat
      /\ loop.toRun \in Nat /\ loop.ran \in Nat
  BY <1>1, SMT DEF IInv, ClockOK
<1> DEFINE used == Den * s.cost
<1>7. used \in Nat BY <1>1, <1>5, SMT
<1>8. /\ loop.toRun' = loop.toRun /\ loop.ran' = loop.ran + s.cost
      /\ hist.given' = hist.given - used /\ hist.last' = s.cost
  BY <1>3 DEF IInv, ClockOK
<1>9. ClockOK'
  <2>1. loop' \in [toRun : Nat, ran : Nat] BY <1>3, <1>5, <1>6, SMT DEF IInv, ClockOK
  <2>2. hist.given - used \in Int BY <1>6, <1>7, SMT
  <2>3. hist' = [hist EXCEPT !.given = hist.given - used, !.last = s.cost] BY <1>3, Zenon
  <2> HIDE DEF used
  <2>4. hist' \in [given : Int, last : Nat] BY <2>2, <2>3, <1>5 DEF IInv, ClockOK
  <2> QED BY <2>1, <2>4, <1>4 DEF IInv, ClockOK
<1>10. RestOK' BY <1>3, <1>4, <1>5 DEF IInv, RestOK
<1>11. clock.debt = 0 BY <1>4, <1>6, SMT DEF IInv, TimeInv, Overrun
<1>12. OneStepAhead' BY <1>4, <1>11 DEF OneStepAhead
<1>13. Overrun' BY <1>4, <1>5, <1>6, <1>8, <1>11, SMT DEF Overrun
<1>14. hist.given' = clock.accum + Den * (loop.toRun' - loop.ran' - clock.debt)
  <2>1. hist.given = clock.accum + Den * (loop.toRun - loop.ran - clock.debt)
    BY <1>4 DEF IInv, TimeInv, TimeExact
  <2>2. Den * (loop.toRun - (loop.ran + s.cost) - clock.debt)
          = Den * (loop.toRun - loop.ran - clock.debt) - used
    BY <1>1, <1>5, <1>6, SMT
  <2> QED BY <2>1, <2>2, <1>1, <1>5, <1>6, <1>7, <1>8, SMT
<1>15. TimeExact' BY <1>4, <1>14 DEF TimeExact
<1> QED BY <1>9, <1>10, <1>12, <1>13, <1>15 DEF IInv, TimeInv

LEMMA BeginKeeps ==
  ASSUME IInv, NEW op \in {"read", "write"}, NEW p \in Port, NEW v \in Byte,
         NEW c \in AccessClocks, Begin(op, p, v, c)
  PROVE  IInv'
<1>1. lag + c \in Nat /\ stage = "cpu" BY ApuAssumption, SMT DEF IInv, RestOK, Begin, Idle
<1>2. Deferred(op, p) \in BOOLEAN BY DEF Deferred
<1>3. access' = [op |-> op, port |-> p, value |-> v, deferred |-> Deferred(op, p)]
      /\ UNCHANGED <<apu, pending, mdr, fault>>
  BY DEF Begin
<1>4. access' \in [op : {"none", "read", "write"}, port : Port, value : Byte, deferred : BOOLEAN]
  BY <1>2, <1>3
<1>5. CASE Deferred(op, p)
  <2>1. stage' = "at" /\ lag' = lag + c /\ UNCHANGED <<clock, loop, hist>> BY <1>5 DEF Begin
  <2>2. ClockOK' /\ TimeInv' BY <1>1, <1>3, <2>1, ClockAlone
  <2> QED BY <1>1, <1>3, <1>4, <2>1, <2>2 DEF IInv, RestOK
<1>6. CASE ~Deferred(op, p)
  <2>1. stage' = "before" /\ StartCatchUp(lag + c) BY <1>6 DEF Begin
  <2>2. ClockOK' /\ TimeInv' /\ lag' \in Nat BY <1>1, <1>3, <2>1, StartsCatchUp
  <2> QED BY <1>3, <1>4, <2>1, <2>2 DEF IInv, RestOK
<1> QED BY <1>5, <1>6

LEMMA ReadPortKeeps == IInv /\ ReadPort => IInv'
<1> SUFFICES ASSUME IInv, ReadPort PROVE IInv' OBVIOUS
<1>1. apu \in Apus BY DEF IInv, RestOK
<1>2. apu' \in Apus /\ (apu'.halted = "no" => apu.halted = "no")
  <2>1. CASE pending.kick BY <1>1, <2>1, ServiceType DEF ReadPort
  <2>2. CASE ~pending.kick BY <1>1, <2>2 DEF ReadPort
  <2> QED BY <2>1, <2>2
<1>3. ClockOK' /\ TimeInv' BY <1>2, EndsCatchUp DEF ReadPort
<1>4. mdr' \in Byte BY <1>2, ApuFields, AccessType DEF ReadPort, IInv
<1>5. HaltFault(apu') \in {"none", "Apu"} BY HaltFaultType DEF IInv, RestOK
<1>6. pending' \in [kick : BOOLEAN, strobe : BOOLEAN] BY DEF ReadPort, IInv, RestOK
<1> QED BY <1>2, <1>3, <1>4, <1>5, <1>6, AccessType DEF ReadPort, IInv, RestOK

LEMMA WritePortKeeps == IInv /\ WritePort => IInv'
<1> SUFFICES ASSUME IInv, WritePort PROVE IInv' OBVIOUS
<1>1. apu' \in Apus /\ (apu'.halted = "no" => apu.halted = "no")
  BY WrittenType, AccessType DEF WritePort, IInv, RestOK
<1>2. ClockOK' /\ TimeInv' BY <1>1, EndsCatchUp DEF WritePort
<1>3. HaltFault(apu') \in {"none", "Apu"} BY HaltFaultType DEF IInv, RestOK
<1>4. pending' \in [kick : BOOLEAN, strobe : BOOLEAN]
  <2>1. KickAfter(apu') \in BOOLEAN BY KickAfterType DEF IInv
  <2>2. (pending.strobe \/ (access.port = 0 /\ apu'.zone = "transfer")) \in BOOLEAN
    BY DEF IInv, RestOK
  <2> QED BY <2>1, <2>2 DEF WritePort
<1> QED BY <1>1, <1>2, <1>3, <1>4, AccessType DEF WritePort, IInv, RestOK

LEMMA WriteDeferredKeeps == IInv /\ WriteDeferred => IInv'
<1> SUFFICES ASSUME IInv, WriteDeferred PROVE IInv' OBVIOUS
<1>1. apu' \in Apus /\ (apu'.halted = "no" => apu.halted = "no")
  BY WrittenType, AccessType DEF WriteDeferred, IInv, RestOK
<1>2. ClockOK' /\ TimeInv' /\ lag' \in Nat
  BY <1>1, StartsCatchUp DEF WriteDeferred, IInv, RestOK
<1>3. HaltFault(apu') \in {"none", "Apu"} BY HaltFaultType DEF IInv, RestOK
<1>4. pending' \in [kick : BOOLEAN, strobe : BOOLEAN] BY KickAfterType DEF WriteDeferred, IInv
<1> QED BY <1>1, <1>2, <1>3, <1>4 DEF WriteDeferred, IInv, RestOK

LEMMA EndLineKeeps == IInv /\ EndLine => IInv'
<1> SUFFICES ASSUME IInv, EndLine PROVE IInv' OBVIOUS
<1>1. ClockOK' /\ TimeInv' /\ lag' \in Nat
  BY StartsCatchUp DEF EndLine, Idle, IInv, RestOK
<1> QED BY <1>1 DEF EndLine, IInv, RestOK

LEMMA CaughtUpKeeps == IInv /\ CaughtUp => IInv'
<1> SUFFICES ASSUME IInv, CaughtUp PROVE IInv' OBVIOUS
<1>1. ClockOK' /\ TimeInv' BY EndsCatchUp DEF CaughtUp
<1>2. HaltFault(apu) \in {"none", "Apu"} BY HaltFaultType DEF IInv, RestOK
<1> QED BY <1>1, <1>2, AccessType DEF CaughtUp, IInv, RestOK

LEMMA DmaReadKeeps ==
  ASSUME IInv, NEW p \in Port, NEW c \in AccessClocks, DmaRead(p, c)
  PROVE  IInv'
<1>1. lag' \in Nat BY ApuAssumption, SMT DEF IInv, RestOK, DmaRead
<1>2. mdr' \in Byte BY ApuFields DEF IInv, RestOK, DmaRead
<1>3. ClockOK' /\ TimeInv' BY ClockAlone DEF DmaRead
<1> QED BY <1>1, <1>2, <1>3 DEF IInv, RestOK, DmaRead

LEMMA DmaWriteKeeps ==
  ASSUME IInv, NEW p \in Port, NEW v \in Byte, NEW c \in AccessClocks, DmaWrite(p, v, c)
  PROVE  IInv'
<1>1. lag' \in Nat BY ApuAssumption, SMT DEF IInv, RestOK, DmaWrite
<1> DEFINE i == [apu.in EXCEPT ![p] = v]
<1>2. i \in Ports BY ApuFields, PortUpdate DEF IInv, RestOK
<1>3. apu' = [apu EXCEPT !.in = i] BY Zenon DEF DmaWrite
<1> HIDE DEF i
<1>4. apu' \in Apus /\ apu'.halted = apu.halted BY <1>2, <1>3 DEF IInv, RestOK, Apus, Ports
<1>5. ClockOK' /\ TimeInv' BY <1>4, ClockAlone DEF DmaWrite
<1> QED BY <1>1, <1>4, <1>5 DEF IInv, RestOK, DmaWrite

LEMMA NextKeeps == IInv /\ [Next]_vars => IInv'
<1> SUFFICES ASSUME IInv, [Next]_vars PROVE IInv' OBVIOUS
<1>1. CASE Device
  BY <1>1, ApuStepKeeps, ReadPortKeeps, WritePortKeeps, WriteDeferredKeeps, EndLineKeeps,
     CaughtUpKeeps DEF Device
<1>2. CASE Program
  BY <1>2, BeginKeeps, DmaReadKeeps, DmaWriteKeeps, Sizes DEF Program
<1>3. CASE UNCHANGED vars
  BY <1>3 DEF vars, IInv, ClockOK, RestOK, TimeInv, TimeExact, OneStepAhead, Overrun
<1> QED BY <1>1, <1>2, <1>3 DEF Next

-----------------------------------------------------------------------------
(* Theorems.                                                               *)

\* The invariant holds of any program on either side of the ports.
THEOREM Inductive == Spec => []IInv
<1> QED BY InitHolds, NextKeeps, PTL DEF Spec

\* Every variable keeps its shape; ports, pointers and indices stay in range.
THEOREM TypeCorrect == Spec => []TypeOK
<1>1. IInv => TypeOK BY DEF IInv, ClockOK, RestOK, TypeOK
<1> QED BY <1>1, Inductive, PTL

\* No cycle of the APU is lost or run twice, however accesses and line ends cut time up
\* (advance_master_cycles' debt and remainder).
THEOREM TimeIsExact == Spec => []TimeExact
<1>1. IInv => TimeExact BY DEF IInv, TimeInv
<1> QED BY <1>1, Inductive, PTL

\* The APU is ahead of the CPU by less than one of its instructions.
THEOREM AheadByLessThanAStep == Spec => []OneStepAhead
<1>1. IInv => OneStepAhead BY DEF IInv, TimeInv
<1> QED BY <1>1, Inductive, PTL

\* The CPU's clock and the APU's keep together whatever runs on either side.
THEOREM ClocksKeepTogether == Spec => []ClockKept
<1> QED BY TimeIsExact, AheadByLessThanAStep, PTL DEF ClockKept

-----------------------------------------------------------------------------
(* The upload is one of those programs.                                    *)

Progress ==
  [block : Nat, index : Nat, signal : Byte, echoed : BOOLEAN, free : Nat]
Writes == [port : Port, value : Byte, joined : BOOLEAN]

\* What it writes are bytes, and it counts blocks and their bytes.
SentOK ==
  /\ todo \in Seq(Writes)
  /\ sent \in Progress

LEMMA BlockAt ==
  ASSUME NEW b \in Nat
  PROVE  AddressOf(b + 1) \in Addr /\ BytesOf(b) \in Seq(Byte)
<1>0. Blocks \in Seq([addr : Addr, bytes : Seq(Byte)]) /\ Entry \in Addr BY UploadAssumption
<1> DEFINE S == [addr : Addr, bytes : Seq(Byte)]
<1>1. \A x \in 1..Len(Blocks) : Blocks[x] \in S
  <2>1. Blocks \in Seq(S) BY <1>0
  <2> HIDE DEF S
  <2> QED BY <2>1
<1>2. \A x \in 1..Len(Blocks) : Blocks[x].addr \in Addr /\ Blocks[x].bytes \in Seq(Byte)
  <2> TAKE x \in 1..Len(Blocks)
  <2>1. Blocks[x] \in [addr : Addr, bytes : Seq(Byte)] BY <1>1
  <2> QED BY <2>1
<1>3. Len(Blocks) \in Nat /\ DOMAIN Blocks = 1..Len(Blocks) BY <1>0
<1>4. AddressOf(b + 1) \in Addr BY <1>0, <1>2, <1>3 DEF AddressOf
<1>5. <<>> \in Seq(Byte) OBVIOUS
<1>6. BytesOf(b) \in Seq(Byte)
  <2>1. CASE b \in DOMAIN Blocks BY <1>2, <1>3, <2>1 DEF BytesOf
  <2>2. CASE b \notin DOMAIN Blocks BY <1>5, <2>2 DEF BytesOf
  <2> QED BY <2>1, <2>2
<1> QED BY <1>4, <1>6

LEMMA RemainderByte == ASSUME NEW i \in Nat PROVE i % Bytes \in Byte
<1>1. Bytes \in Nat /\ Bytes > 0 BY Sizes
<1> QED BY <1>1, SMT DEF Byte

LEMMA ProgressMade ==
  ASSUME NEW r \in Progress, NEW b \in Nat, NEW i \in Nat, NEW s \in Byte
  PROVE  /\ [r EXCEPT !.block = b, !.index = i, !.signal = s, !.echoed = FALSE] \in Progress
         /\ [r EXCEPT !.index = i, !.signal = s, !.echoed = FALSE] \in Progress
BY DEF Progress

LEMMA WritesAre ==
  ASSUME NEW v \in Byte, NEW p \in Port
  PROVE  W(p, v) \in Writes /\ J(p, v) \in Writes
BY DEF W, J, Writes

LEMMA HeaderWrites ==
  ASSUME NEW x \in Addr, NEW c \in Byte, NEW s \in Byte, NEW word \in BOOLEAN
  PROVE  Header(x, c, s, word) \in Seq(Writes)
<1>1. x % Bytes \in Byte /\ x \div Bytes \in Byte BY AddressBytes
<1>2. 0 \in Port /\ 1 \in Port /\ 2 \in Port /\ 3 \in Port BY DEF Port
<1>3. W(2, x % Bytes) \in Writes /\ J(3, x \div Bytes) \in Writes
  BY <1>1, <1>2, WritesAre
<1>4. W(0, s) \in Writes /\ J(1, c) \in Writes /\ W(1, c) \in Writes
  BY <1>2, WritesAre
<1> QED BY <1>3, <1>4 DEF Header

LEMMA DataWrites ==
  ASSUME NEW i \in Byte, NEW v \in Byte, NEW word \in BOOLEAN
  PROVE  Data(i, v, word) \in Seq(Writes)
<1>1. 0 \in Port /\ 1 \in Port BY DEF Port
<1> QED BY <1>1, WritesAre DEF Data

LEMMA UploadStarts == UploadInit => Init /\ SentOK
<1>1. 0 \in Byte BY Sizes
<1> QED BY <1>1 DEF UploadInit, SentOK, Progress

LEMMA UploadKeeps == SentOK /\ [UploadNext]_allVars => SentOK' /\ [Next]_vars
<1> SUFFICES ASSUME SentOK, [UploadNext]_allVars PROVE SentOK' /\ [Next]_vars OBVIOUS
<1>f. sent.block \in Nat /\ sent.index \in Nat BY DEF SentOK, Progress
<1>0. 0 \in Byte /\ 1 \in Byte /\ Kick \in Byte /\ 0 \in Port BY Sizes, ApuAssumption DEF Port, Byte
<1>1. ASSUME NEW s \in Byte, NEW word \in BOOLEAN, SendBlock(s, word) PROVE SentOK' /\ [Next]_vars
  <2>1. AddressOf(sent.block + 1) \in Addr
    BY <1>f, BlockAt
  <2>2. todo' \in Seq(Writes)
    BY <1>0, <1>1, <2>1, HeaderWrites DEF SendBlock
  <2> DEFINE b == sent.block + 1
  <2>3. sent' \in Progress
    <3>1. sent' = [sent EXCEPT !.block = b, !.index = 0, !.signal = s, !.echoed = FALSE]
      BY <1>1, Zenon DEF SendBlock
    <3>2. b \in Nat BY <1>f
    <3> HIDE DEF b
    <3> QED BY <3>1, <3>2, ProgressMade DEF SentOK
  <2> QED BY <1>1, <2>2, <2>3 DEF SendBlock, SentOK
<1>2. ASSUME NEW word \in BOOLEAN, sent.index < Len(BytesOf(sent.block)), Next8(word)
      PROVE  SentOK' /\ [Next]_vars
  <2>1. BytesOf(sent.block) \in Seq(Byte)
    BY <1>f, BlockAt
  <2>2. BytesOf(sent.block)[sent.index + 1] \in Byte
    BY <1>f, <1>2, <2>1
  <2>3. sent.index % Bytes \in Byte
    BY <1>f, Sizes, RemainderByte
  <2>4. todo' \in Seq(Writes)
    BY <1>2, <2>2, <2>3, DataWrites DEF Next8
  <2> DEFINE i == sent.index + 1
  <2> DEFINE s == sent.index % Bytes
  <2>5. sent' \in Progress
    <3>1. sent' = [sent EXCEPT !.index = i, !.signal = s, !.echoed = FALSE]
      BY <1>2, Zenon DEF Next8
    <3>2. i \in Nat BY <1>f
    <3> HIDE DEF i, s
    <3> QED BY <2>3, <3>1, <3>2, ProgressMade DEF SentOK, s
  <2> QED BY <1>2, <2>4, <2>5 DEF Next8, SentOK
<1>3. CASE SendAtOnce
  <2>1. sent.index < Len(BytesOf(sent.block))
    <3>1. BytesOf(1) \in Seq(Byte) BY BlockAt
    <3>2. Len(BytesOf(1)) > 0 BY <1>3, <3>1 DEF SendAtOnce
    <3> QED BY <1>3, <3>2 DEF SendAtOnce
  <2> QED BY <1>2, <1>3, <2>1 DEF SendAtOnce
<1>4. ASSUME NEW c \in AccessClocks, WriteNext(c) PROVE SentOK' /\ [Next]_vars
  <2>1. Head(todo) \in Writes /\ Tail(todo) \in Seq(Writes) BY <1>4 DEF WriteNext, SentOK
  <2>2. Program
    BY <1>4, <2>1 DEF WriteNext, Program, Writes
  <2> QED BY <1>4, <2>1, <2>2 DEF WriteNext, SentOK, Next
<1>5. ASSUME NEW c \in AccessClocks, Poll(c) PROVE SentOK' /\ [Next]_vars
  <2>1. Program BY <1>0, <1>5 DEF Poll, Program
  <2> QED BY <1>5, <2>1 DEF Poll, SentOK, Next
<1>6. CASE Polled
  <2>1. sent' \in Progress BY <1>6 DEF Polled, SentOK, Progress
  <2> QED BY <1>6, <2>1 DEF Polled, SentOK, Next, Device
<1>7. CASE Answer \/ LineEnds
  BY <1>7 DEF Answer, LineEnds, SentOK, Next, Device
<1>8. ASSUME NEW c \in AccessClocks, Talk(c) PROVE SentOK' /\ [Next]_vars
  <2>1. {0, 1} \subseteq Port /\ FreeBytes \subseteq Byte BY UploadAssumption DEF Port
  <2>2. Program BY <1>8, <2>1 DEF Talk, Program
  <2> QED BY <1>8, <2>2 DEF Talk, SentOK, Progress, Next
<1>9. CASE UNCHANGED allVars
  BY <1>9 DEF allVars, SentOK
<1>10. CASE Upload
  BY <1>1, <1>2, <1>4, <1>5, <1>6, <1>7, <1>10 DEF Upload, SendByte
<1> QED BY <1>3, <1>7, <1>8, <1>9, <1>10 DEF UploadNext

\* Every step of the upload is one of a program on the ports or leaves the device alone,
\* so that what was proved of any program holds of the upload.
THEOREM UploadIsAProgram == UploadSpec => Spec
<1> QED BY UploadStarts, UploadKeeps, PTL DEF UploadSpec, Spec
-----------------------------------------------------------------------------
(* What was acknowledged is in memory.                                     *)

\* The message that is sent: where a block goes, or a byte of it.
Message(s, word) ==
  IF s.index = 0
  THEN Header(AddressOf(s.block), IF s.block <= Len(Blocks) THEN 1 ELSE 0, s.signal, word)
  ELSE Data(s.signal, BytesOf(s.block)[s.index], word)

\* The write of it that the APU waits for.
SignalAt(m, word) == IF word THEN Len(m) - 1 ELSE Len(m)

\* Before the first block; and at byte i of block b.
Waiting(a) ==
  /\ a.mode = "wait" /\ a.zone = "wait" /\ a.halted = "no" /\ a.out[0] # Kick
  /\ \A x \in Addr \ {0, 1} : a.ram[x] = 0

Receiving(a, b, i) ==
  /\ b \in DOMAIN Blocks /\ i \in 0..Len(BytesOf(b))
  /\ a.mode = "receive" /\ a.zone = "transfer" /\ a.halted = "no"
  /\ a.out[0] = a.last /\ a.expected = i % Bytes /\ a.ptr = At(b, i + 1)
  /\ Holds(a.ram, b, i)

\* The APU is where it was before s was sent, and the signal of s is news to it.
Behind(a, s) ==
  /\ IF s.index > 0 THEN Receiving(a, s.block, s.index - 1)
     ELSE IF s.block = 1 THEN Waiting(a)
     ELSE Receiving(a, s.block - 1, Len(BytesOf(s.block - 1)))
  /\ IF a.mode = "wait" THEN s.signal = Kick
     ELSE s.signal # a.last /\ (s.index > 0 <=> s.signal = a.expected)

\* It has acknowledged s.
There(a, s) ==
  IF s.block > Len(Blocks) THEN a.mode = "done"
  ELSE Receiving(a, s.block, s.index) /\ a.last = s.signal /\ a.in[0] = s.signal

\* It has nothing to do.
Quiet(a) == a.in[0] = IF a.mode = "wait" THEN 0 ELSE a.last

\* The first byte is sent before the kick was seen; it is not lost, since it is pending.
KickedOff(a) == Waiting(a) /\ a.in[0] = Kick /\ a.in[1] = 1 /\ Starts(a) = AddressOf(1)

\* What it has been sent is on its ports.
Shown(a, s) ==
  /\ a.in[0] = s.signal
  /\ IF s.index = 0
     THEN a.in[1] = (IF s.block <= Len(Blocks) THEN 1 ELSE 0) /\ Starts(a) = AddressOf(s.block)
     ELSE a.in[1] = BytesOf(s.block)[s.index]

InAccess == access.op = "write" /\ stage \in {"before", "at"}
Made(m) == Len(m) - Len(todo) - IF InAccess THEN 1 ELSE 0

\* Of the message m the first n writes are made, one may be under way, and the rest is to do.
Follows(m, n) ==
  /\ Len(todo) <= Len(m) /\ n \in 0..Len(m)
  /\ \A k \in 1..Len(todo) : todo[k] = m[Len(m) - Len(todo) + k]
  /\ InAccess => access.port = m[n + 1].port /\ access.value = m[n + 1].value
  /\ apu.mode # "done" => \A k \in 1..n : apu.in[m[k].port] = m[k].value

\* Before the signal, between the signal and the rest of its store, and after.
Unsignalled(word) ==
  \/ Behind(apu, sent) /\ Quiet(apu)
  \/ word /\ sent.block = 1 /\ sent.index = 1 /\ sent.signal = 0 /\ KickedOff(apu) /\ pending.kick

HalfStored ==
  /\ Behind(apu, sent) /\ apu.mode = "receive"
  /\ pending.strobe /\ stage \in {"cpu", "at"}

Signalled ==
  \/ Behind(apu, sent) /\ (apu.mode = "wait" => pending.kick)
  \/ There(apu, sent)

\* The message m is under way: n writes are made, and z is its signal.
UnderWayAt(word, m, n, z) ==
  /\ Follows(m, n)
  /\ sent.block = 1 /\ sent.index = 0 => ~word
  /\ n < z => Unsignalled(word)
  /\ z <= n /\ n < Len(m) => HalfStored
  /\ n = Len(m) => Signalled

UnderWay(word) ==
  LET m == Message(sent, word) IN UnderWayAt(word, m, Made(m), SignalAt(m, word))

\* A signal is never the one before it.
SignalOK(s) ==
  s.block > 0 => IF s.index = 0 THEN s.signal # 0 ELSE s.signal = (s.index - 1) % Bytes

AccessOK ==
  /\ stage = "cpu" => access = NoAccess
  /\ stage = "at" => access.op = "write" /\ access.port # 0
  /\ ~sent.echoed /\ access.op = "read" => access.port = 0

SentTo ==
  sent.block \in 0..(Len(Blocks) + 1) /\ sent.index \in 0..Len(BytesOf(sent.block)) /\ SignalOK(sent)

Rested ==
  /\ todo = <<>> /\ (InAccess => Finished)
  /\ IF sent.block = 0 THEN Waiting(apu) /\ Quiet(apu) ELSE There(apu, sent)

Held ==
  IF sent.echoed THEN Rested ELSE sent.block > 0 /\ \E word \in BOOLEAN : UnderWay(word)

UploadInv == AccessOK /\ SentTo /\ Held

-----------------------------------------------------------------------------
(* Memory, byte by byte.                                                   *)

LEMMA BlockIs ==
  ASSUME NEW b \in DOMAIN Blocks
  PROVE  /\ b \in 1..Len(Blocks) /\ BytesOf(b) = Blocks[b].bytes /\ BytesOf(b) \in Seq(Byte)
         /\ AddressOf(b) = Blocks[b].addr /\ AddressOf(b) \in Addr
<1>1. Blocks \in Seq([addr : Addr, bytes : Seq(Byte)])
  BY UploadAssumption
<1>2. b \in 1..Len(Blocks) /\ Len(Blocks) \in Nat
  BY <1>1
<1>3. PICK c \in Nat : b = c + 1
  <2>1. b - 1 \in Nat /\ b = (b - 1) + 1
    BY <1>2
  <2>2. QED
    BY <2>1
<1>4. AddressOf(b) \in Addr
  BY <1>3, BlockAt
<1>5. BytesOf(b) \in Seq(Byte)
  BY <1>2, BlockAt
<1>6. QED
  BY <1>2, <1>4, <1>5 DEF BytesOf, AddressOf

\* The bytes of the blocks have their places.
LEMMA AtType ==
  ASSUME NEW b \in DOMAIN Blocks, NEW i \in Int
  PROVE  At(b, i) \in Addr /\ At(b, i + 1) = (At(b, i) + 1) % (Bytes * Bytes)
<1>1. PICK S \in Nat : S = Bytes * Bytes /\ S > 1
  BY Sizes
<1>2. PICK d \in Addr : d = Blocks[b].addr
  BY BlockIs
<1>3. d \in Nat
  BY Sizes
<1>4. PICK x \in Int : x = d + i - 1
  BY <1>3
<1>5. At(b, i) = x % S /\ At(b, i + 1) = (x + 1) % S
  <2>1. d + (i + 1) - 1 = x + 1
    BY <1>3, <1>4
  <2>2. QED
    BY <1>1, <1>2, <1>4, <2>1 DEF At
<1>6. x % S \in 0..(S - 1)
  BY <1>1
<1>7. ((x % S) + 1) % S = (x + 1) % S
  <2>1. S \in Nat /\ S > 0 /\ x \in Int /\ 1 \in Int
    BY <1>1, <1>4
  <2>2. QED
    BY <2>1, RemainderPlus, Zenon
<1>8. PICK y : y = x % S
  OBVIOUS
<1>9. y \in Addr
  BY <1>1, <1>6, <1>8 DEF Addr
<1>10. At(b, i) = y /\ At(b, i + 1) = (y + 1) % S
  BY <1>5, <1>7, <1>8
<1>11. QED
  BY <1>1, <1>9, <1>10

\* Another byte of a block.
LEMMA HoldsMore ==
  ASSUME NEW b \in DOMAIN Blocks, NEW i \in Nat, i < Len(BytesOf(b)),
         NEW ram, Holds(ram, b, i), NEW r,
         \A x \in Addr \ {0, 1} : r[x] = IF x = At(b, i + 1) THEN BytesOf(b)[i + 1] ELSE ram[x]
  PROVE  Holds(r, b, i + 1)
<1>1. b \in Nat /\ b > 0
  BY BlockIs
<1>2. ASSUME NEW o \in 1..b PROVE SentOf(o, b, i + 1) = SentOf(o, b, i) \cup (IF o = b THEN {i + 1} ELSE {})
  BY <1>1, <1>2 DEF SentOf
<1>3. i + 1 \in SentOf(b, b, i + 1)
  BY DEF SentOf
<1>4. ASSUME NEW j \in SentOf(b, b, i + 1) PROVE j <= i + 1
  BY <1>4 DEF SentOf
<1>5. SUFFICES ASSUME NEW x \in Addr \ {0, 1}
               PROVE  \/ /\ r[x] = 0
                         /\ \A o \in 1..b : \A j \in SentOf(o, b, i + 1) : At(o, j) # x
                      \/ \E o \in 1..b : \E j \in SentOf(o, b, i + 1) :
                           /\ At(o, j) = x /\ r[x] = BytesOf(o)[j]
                           /\ \A p \in o..b : \A k \in SentOf(p, b, i + 1) :
                                At(p, k) = x => p = o /\ k <= j
  BY DEF Holds
<1>6. CASE x = At(b, i + 1)
  <2>1. At(b, i + 1) = x /\ r[x] = BytesOf(b)[i + 1]
    BY <1>6
  <2>2. \A p \in b..b : \A k \in SentOf(p, b, i + 1) : At(p, k) = x => p = b /\ k <= i + 1
    BY <1>1, <1>4
  <2>3. b \in 1..b
    BY <1>1
  <2>4. QED
    BY <1>3, <2>1, <2>2, <2>3
<1>7. CASE x # At(b, i + 1)
  <2>1. r[x] = ram[x]
    BY <1>7
  <2>2. CASE ram[x] = 0 /\ \A o \in 1..b : \A j \in SentOf(o, b, i) : At(o, j) # x
    <3>1. \A o \in 1..b : \A j \in SentOf(o, b, i + 1) : At(o, j) # x
      BY <1>2, <1>7, <2>2
    <3>2. QED
      BY <2>1, <2>2, <3>1
  <2>3. ASSUME NEW o \in 1..b, NEW j \in SentOf(o, b, i), At(o, j) = x, ram[x] = BytesOf(o)[j],
               \A p \in o..b : \A k \in SentOf(p, b, i) : At(p, k) = x => p = o /\ k <= j
        PROVE  \E n \in SentOf(o, b, i + 1) :
                 /\ At(o, n) = x /\ r[x] = BytesOf(o)[n]
                 /\ \A p \in o..b : \A k \in SentOf(p, b, i + 1) : At(p, k) = x => p = o /\ k <= n
    <3>1. j \in SentOf(o, b, i + 1)
      BY <1>2
    <3>2. ASSUME NEW p \in o..b, NEW k \in SentOf(p, b, i + 1), At(p, k) = x
          PROVE  p = o /\ k <= j
      <4>1. p \in 1..b
        BY <1>1
      <4>2. k \in SentOf(p, b, i)
        BY <1>2, <1>7, <3>2, <4>1
      <4>3. QED
        BY <2>3, <3>2, <4>2
    <3>3. QED
      BY <2>1, <2>3, <3>1, <3>2
  <2>4. QED
    BY <2>2, <2>3 DEF Holds
<1>8. QED
  BY <1>6, <1>7

\* The next block, of which no byte was sent.
LEMMA HoldsNext ==
  ASSUME NEW b \in Nat, NEW ram, Holds(ram, b, Len(BytesOf(b))), NEW r,
         \A x \in Addr \ {0, 1} : r[x] = ram[x]
  PROVE  Holds(r, b + 1, 0)
<1>1. ASSUME NEW o \in 1..b PROVE SentOf(o, b + 1, 0) = SentOf(o, b, Len(BytesOf(b)))
  BY <1>1 DEF SentOf
<1>2. SentOf(b + 1, b + 1, 0) = {}
  BY DEF SentOf
<1>3. \A o \in 1..(b + 1) : o \in 1..b \/ o = b + 1
  OBVIOUS
<1>4. SUFFICES ASSUME NEW x \in Addr \ {0, 1}
               PROVE  \/ /\ r[x] = 0
                         /\ \A o \in 1..(b + 1) : \A j \in SentOf(o, b + 1, 0) : At(o, j) # x
                      \/ \E o \in 1..(b + 1) : \E j \in SentOf(o, b + 1, 0) :
                           /\ At(o, j) = x /\ r[x] = BytesOf(o)[j]
                           /\ \A p \in o..(b + 1) : \A k \in SentOf(p, b + 1, 0) :
                                At(p, k) = x => p = o /\ k <= j
  BY DEF Holds
<1>5. r[x] = ram[x]
  BY <1>4
<1>6. CASE ram[x] = 0 /\ \A o \in 1..b : \A j \in SentOf(o, b, Len(BytesOf(b))) : At(o, j) # x
  BY <1>1, <1>2, <1>3, <1>5, <1>6
<1>7. ASSUME NEW o \in 1..b, NEW j \in SentOf(o, b, Len(BytesOf(b))), At(o, j) = x,
             ram[x] = BytesOf(o)[j],
             \A p \in o..b : \A k \in SentOf(p, b, Len(BytesOf(b))) :
               At(p, k) = x => p = o /\ k <= j
      PROVE  \E n \in SentOf(o, b + 1, 0) :
               /\ At(o, n) = x /\ r[x] = BytesOf(o)[n]
               /\ \A p \in o..(b + 1) : \A k \in SentOf(p, b + 1, 0) :
                    At(p, k) = x => p = o /\ k <= n
  <2>1. j \in SentOf(o, b + 1, 0)
    BY <1>1
  <2>2. ASSUME NEW p \in o..(b + 1), NEW k \in SentOf(p, b + 1, 0), At(p, k) = x
        PROVE  p = o /\ k <= j
    <3>1. p # b + 1
      BY <1>2
    <3>2. p \in 1..b /\ p \in o..b
      BY <3>1
    <3>3. QED
      BY <1>1, <1>7, <2>2, <3>2
  <2>3. QED
    BY <1>5, <1>7, <2>1, <2>2
<1>8. \A o \in 1..b : o \in 1..(b + 1)
  OBVIOUS
<1>9. QED
  BY <1>4, <1>6, <1>7, <1>8 DEF Holds

\* The first block, into empty memory.
LEMMA HoldsNone ==
  ASSUME NEW ram, \A x \in Addr \ {0, 1} : ram[x] = 0
  PROVE  Holds(ram, 1, 0)
<1>1. \A o \in 1..1 : SentOf(o, 1, 0) = {}
  BY DEF SentOf
<1>2. QED
  BY <1>1 DEF Holds

-----------------------------------------------------------------------------
(* What the boot protocol does with what it is sent.                       *)

LEMMA PointerKeeps ==
  ASSUME NEW ram \in Rams, NEW y
  PROVE  \A x \in Addr \ {0, 1} : Pointer(ram, y)[x] = ram[x]
BY DEF Pointer, Rams

LEMMA Jumped ==
  ASSUME NEW a \in Apus, NEW signal \in Byte, a.in[1] = 0
  PROVE  Command(a, signal).mode = "done"
<1> DEFINE o == [a.out EXCEPT ![0] = signal]
           r == Pointer(a.ram, Starts(a))
           z == Zone(Starts(a))
<1>1. Command(a, signal) = [a EXCEPT !.out = o, !.ram = r, !.zone = z, !.mode = "done"]
  BY Zenon DEF Command
<1> HIDE DEF o, r, z
<1>2. QED
  BY <1>1 DEF Apus

LEMMA Commanded ==
  ASSUME NEW a \in Apus, NEW signal \in Byte, a.in[1] # 0, NEW c, c = Command(a, signal)
  PROVE  /\ c.mode = "receive" /\ c.zone = "transfer" /\ c.halted = a.halted /\ c.in = a.in
         /\ c.out[0] = signal /\ c.last = signal /\ c.expected = 0 /\ c.ptr = Starts(a)
         /\ \A x \in Addr \ {0, 1} : c.ram[x] = a.ram[x]
<1> DEFINE o == [a.out EXCEPT ![0] = signal]
           r == Pointer(a.ram, Starts(a))
           s == Starts(a)
<1>1. c = [a EXCEPT !.out = o, !.ram = r, !.zone = "transfer",
                    !.mode = "receive", !.ptr = s, !.last = signal, !.expected = 0]
  BY Zenon DEF Command
<1>2. o[0] = signal
  BY ApuFields DEF Ports, Port
<1>3. \A x \in Addr \ {0, 1} : r[x] = a.ram[x]
  BY ApuFields, PointerKeeps
<1> HIDE DEF o, r, s
<1>4. /\ c.mode = "receive" /\ c.zone = "transfer" /\ c.halted = a.halted /\ c.in = a.in
      /\ c.out = o /\ c.last = signal /\ c.expected = 0 /\ c.ptr = s /\ c.ram = r
  BY <1>1 DEF Apus
<1>5. QED
  BY <1>2, <1>3, <1>4 DEF s

LEMMA Stored ==
  ASSUME NEW a \in Apus, NEW c, c = Store(a)
  PROVE  /\ c.mode = a.mode /\ c.zone = a.zone /\ c.halted = a.halted /\ c.in = a.in
         /\ c.out[0] = a.in[0] /\ c.last = a.in[0] /\ c.expected = (a.expected + 1) % Bytes
         /\ c.ptr = (a.ptr + 1) % (Bytes * Bytes)
         /\ \A x \in Addr \ {0, 1} : c.ram[x] = IF x = a.ptr THEN a.in[1] ELSE a.ram[x]
<1> DEFINE next == (a.ptr + 1) % (Bytes * Bytes)
           o == [a.out EXCEPT ![0] = a.in[0]]
           m == [a.ram EXCEPT ![a.ptr] = a.in[1]]
           r == Pointer(m, next)
           e == (a.expected + 1) % Bytes
           l == a.in[0]
<1>1. c = [a EXCEPT !.out = o, !.ram = r, !.ptr = next, !.last = l, !.expected = e]
  BY Zenon DEF Store
<1>2. o[0] = l
  BY ApuFields DEF Ports, Port
<1>3. m \in Rams /\ \A x \in Addr : m[x] = IF x = a.ptr THEN a.in[1] ELSE a.ram[x]
  <2>1. a.in[1] \in Byte /\ a.ram \in Rams
    BY ApuFields DEF Port
  <2>2. QED
    BY <2>1 DEF Rams
<1>4. \A x \in Addr \ {0, 1} : r[x] = m[x]
  <2> HIDE DEF m, next
  <2>1. QED
    BY <1>3, PointerKeeps DEF r
<1> HIDE DEF next, o, m, r, e, l
<1>5. /\ c.mode = a.mode /\ c.zone = a.zone /\ c.halted = a.halted /\ c.in = a.in
      /\ c.out = o /\ c.last = l /\ c.expected = e /\ c.ptr = next /\ c.ram = r
  BY <1>1 DEF Apus
<1>6. \A x \in Addr \ {0, 1} : r[x] = IF x = a.ptr THEN a.in[1] ELSE a.ram[x]
  BY <1>3, <1>4
<1>7. QED
  BY <1>2, <1>5, <1>6 DEF next, e, l

\* After the jump the boot protocol does not come back.
LEMMA DoneStays ==
  ASSUME NEW a \in Apus, a.mode = "done", NEW s \in Steps(a)
  PROVE  s.apu.mode = "done"
<1>1. ASSUME NEW e \in Effects(a) PROVE e.mode = "done"
  <2>1. CASE e \in Jumps(a)
    BY <2>1 DEF Jumps, Apus
  <2>2. CASE e \in Stores(a)
    <3>1. PICK ports, w : e = Wrote(a, ports, w)
      BY <2>2 DEF Stores
    <3> DEFINE o == [p \in Port |-> IF p \in ports THEN w[p] ELSE a.out[p]]
    <3>2. e = [a EXCEPT !.out = o]
      BY <3>1, Zenon DEF Wrote
    <3> HIDE DEF o
    <3>3. QED
      BY <3>2 DEF Apus
  <2>3. CASE e \in Controls(a)
    <3>1. PICK ports, h : e = [Cleared(a, ports) EXCEPT !.halted = h]
      BY <2>3 DEF Controls
    <3> DEFINE i == [p \in Port |-> IF p \in ports THEN 0 ELSE a.in[p]]
    <3>2. Cleared(a, ports) = [a EXCEPT !.in = i]
      BY Zenon DEF Cleared
    <3>3. PICK c : c = Cleared(a, ports)
      OBVIOUS
    <3> HIDE DEF i
    <3>4. c = [a EXCEPT !.in = i] /\ e = [c EXCEPT !.halted = h]
      BY <3>1, <3>2, <3>3
    <3>5. QED
      BY <3>4 DEF Apus
  <2>4. QED
    BY <2>1, <2>2, <2>3, Zenon DEF Effects
<1>2. CASE a.halted # "no"
  BY <1>2, HaltStays
<1>3. CASE a.halted = "no"
  BY <1>1, <1>3 DEF Steps, Ran
<1>4. QED
  BY <1>2, <1>3

LEMMA BootSteps ==
  ASSUME NEW a \in Apus, a.mode # "done", a.halted = "no", NEW s \in Steps(a)
  PROVE  s.apu = IF a.mode = "wait" THEN (IF a.in[0] = Kick THEN Command(a, Kick) ELSE a)
                 ELSE IF a.in[0] = a.last THEN a
                 ELSE IF a.in[0] = a.expected THEN Store(a)
                 ELSE Command(a, a.in[0])
BY DEF Steps, BootStep, Ran

LEMMA StaysQuiet ==
  ASSUME NEW a \in Apus, a.mode # "done", a.halted = "no", Quiet(a), NEW s \in Steps(a)
  PROVE  s.apu = a
BY BootSteps, ApuAssumption DEF Quiet

LEMMA StaysThere ==
  ASSUME NEW a \in Apus, NEW s, There(a, s), NEW r \in Steps(a)
  PROVE  There(r.apu, s)
<1>1. CASE s.block > Len(Blocks)
  BY <1>1, DoneStays DEF There
<1>2. CASE ~(s.block > Len(Blocks))
  <2>1. a.mode = "receive" /\ a.halted = "no" /\ a.in[0] = a.last
    BY <1>2 DEF There, Receiving
  <2>2. r.apu = a
    BY <2>1, StaysQuiet DEF Quiet
  <2>3. QED
    BY <2>2
<1>3. QED
  BY <1>1, <1>2

\* Shown a byte it stores it, shown where a block goes it turns to it, and acknowledges.
LEMMA Serves ==
  ASSUME NEW a \in Apus, NEW s \in Progress, s.block \in 1..(Len(Blocks) + 1),
         s.index \in 0..Len(BytesOf(s.block)), Behind(a, s), Shown(a, s), NEW r \in Steps(a)
  PROVE  There(r.apu, s)
<1>0. /\ s.block \in Nat /\ s.index \in Nat /\ s.signal \in Byte /\ Kick \in Byte
      /\ Len(Blocks) \in Nat /\ DOMAIN Blocks = 1..Len(Blocks) /\ 0 \in Byte /\ Bytes > 1 /\ Bytes \in Nat
  <2>1. Blocks \in Seq([addr : Addr, bytes : Seq(Byte)])
    BY UploadAssumption
  <2>2. Len(Blocks) \in Nat /\ DOMAIN Blocks = 1..Len(Blocks)
    BY <2>1
  <2>3. QED
    BY <2>2, ApuAssumption, Sizes DEF Progress
<1>1. CASE s.index > 0
  <2>1. Receiving(a, s.block, s.index - 1) /\ s.signal # a.last /\ s.signal = a.expected
    BY <1>1 DEF Behind, Receiving
  <2>2. r.apu = Store(a) /\ a.mode = "receive" /\ a.halted = "no" /\ a.zone = "transfer"
    BY <2>1, BootSteps DEF Receiving, Shown
  <2>3. PICK i \in Nat : s.index = i + 1
    <3>1. s.index - 1 \in Nat /\ s.index = (s.index - 1) + 1
      BY <1>0, <1>1
    <3>2. QED
      BY <3>1
  <2>4. Receiving(a, s.block, i) /\ i + 1 = s.index /\ s.index - 1 = i
    BY <2>1, <2>3
  <2>5. s.block \in DOMAIN Blocks /\ i < Len(BytesOf(s.block)) /\ i + 1 \in 0..Len(BytesOf(s.block))
    <3>1. s.block \in DOMAIN Blocks
      BY <2>4 DEF Receiving
    <3>2. Len(BytesOf(s.block)) \in Nat
      BY <3>1, BlockIs
    <3>3. QED
      BY <2>3, <3>1, <3>2
  <2>6. PICK c : c = r.apu
    OBVIOUS
  <2>7. /\ c.mode = "receive" /\ c.zone = "transfer" /\ c.halted = "no" /\ c.in = a.in
        /\ c.out[0] = a.in[0] /\ c.last = a.in[0] /\ c.expected = (a.expected + 1) % Bytes
        /\ c.ptr = (a.ptr + 1) % (Bytes * Bytes)
        /\ \A x \in Addr \ {0, 1} : c.ram[x] = IF x = a.ptr THEN a.in[1] ELSE a.ram[x]
    BY <2>2, <2>6, Stored
  <2>8. a.in[0] = s.signal /\ a.in[1] = BytesOf(s.block)[i + 1]
    BY <1>1, <2>3 DEF Shown
  <2>9. a.ptr = At(s.block, i + 1) /\ a.expected = i % Bytes /\ Holds(a.ram, s.block, i)
    BY <2>4 DEF Receiving
  <2>10. c.expected = (i + 1) % Bytes
    <3>1. ((i % Bytes) + 1) % Bytes = (i + 1) % Bytes
      <4>1. Bytes \in Nat /\ Bytes > 0 /\ i \in Int /\ 1 \in Int
        BY <1>0
      <4>2. QED
        BY <4>1, RemainderPlus, Zenon
    <3>2. QED
      BY <2>7, <2>9, <3>1
  <2>11. c.ptr = At(s.block, i + 1 + 1)
    <3>1. PICK k \in Int : k = i + 1
      BY <2>3
    <3>2. At(s.block, k + 1) = (At(s.block, k) + 1) % (Bytes * Bytes)
      BY <2>5, AtType
    <3>3. QED
      BY <2>7, <2>9, <3>1, <3>2
  <2>12. Holds(c.ram, s.block, i + 1)
    <3>1. \A x \in Addr \ {0, 1} :
            c.ram[x] = IF x = At(s.block, i + 1) THEN BytesOf(s.block)[i + 1] ELSE a.ram[x]
      BY <2>7, <2>8, <2>9
    <3>2. QED
      BY <2>5, <2>9, <3>1, HoldsMore
  <2>13. Receiving(c, s.block, i + 1)
    BY <2>5, <2>7, <2>10, <2>11, <2>12 DEF Receiving
  <2>14. ~(s.block > Len(Blocks))
    BY <1>0, <2>5
  <2>15. QED
    BY <2>4, <2>6, <2>7, <2>8, <2>13, <2>14 DEF There
<1>2. CASE s.index = 0
  <2>1. a.mode # "done" /\ a.halted = "no" /\ a.in[0] = s.signal
        /\ a.in[1] = (IF s.block <= Len(Blocks) THEN 1 ELSE 0) /\ Starts(a) = AddressOf(s.block)
    BY <1>0, <1>2 DEF Behind, Waiting, Receiving, Shown
  <2>2. r.apu = Command(a, s.signal)
    <3>1. CASE a.mode = "wait"
      BY <2>1, <3>1, BootSteps DEF Behind
    <3>2. CASE a.mode # "wait"
      <4>1. s.signal # a.last /\ s.signal # a.expected
        BY <1>2, <3>2, <1>0 DEF Behind
      <4>2. QED
        BY <2>1, <3>2, <4>1, BootSteps
    <3>3. QED
      BY <3>1, <3>2
  <2>3. CASE s.block > Len(Blocks)
    <3>1. a.in[1] = 0
      BY <1>0, <2>1, <2>3
    <3>2. QED
      BY <1>0, <2>2, <2>3, <3>1, Jumped DEF There
  <2>4. CASE s.block <= Len(Blocks)
    <3>1. a.in[1] # 0 /\ s.block \in DOMAIN Blocks
      BY <1>0, <2>1, <2>4
    <3>2. PICK c : c = r.apu
      OBVIOUS
    <3>3. /\ c.mode = "receive" /\ c.zone = "transfer" /\ c.halted = "no" /\ c.in = a.in
          /\ c.out[0] = s.signal /\ c.last = s.signal /\ c.expected = 0 /\ c.ptr = Starts(a)
          /\ \A x \in Addr \ {0, 1} : c.ram[x] = a.ram[x]
      BY <1>0, <2>1, <2>2, <3>1, <3>2, Commanded
    <3>4. c.ptr = At(s.block, 1)
      <4>1. PICK d \in Addr : d = Blocks[s.block].addr /\ d = AddressOf(s.block)
        BY <3>1, BlockIs
      <4>2. PICK S \in Nat : S = Bytes * Bytes /\ S > 1
        BY Sizes
      <4>3. d \in 0..(S - 1)
        BY <4>2 DEF Addr
      <4>4. d + 1 - 1 = d /\ d % S = d
        BY <4>2, <4>3
      <4>5. QED
        BY <2>1, <3>3, <4>1, <4>2, <4>4 DEF At
    <3>5. Holds(c.ram, s.block, 0)
      <4>1. CASE s.block = 1
        <5>1. \A x \in Addr \ {0, 1} : a.ram[x] = 0
          BY <1>2, <4>1 DEF Behind, Waiting
        <5>2. \A x \in Addr \ {0, 1} : c.ram[x] = 0
          BY <3>3, <5>1
        <5>3. QED
          BY <4>1, <5>2, HoldsNone
      <4>2. CASE s.block # 1
        <5>1. PICK b \in Nat : s.block = b + 1 /\ s.block - 1 = b
          <6>1. s.block - 1 \in Nat /\ s.block = (s.block - 1) + 1
            BY <1>0
          <6>2. QED
            BY <6>1
        <5>2. Holds(a.ram, b, Len(BytesOf(b)))
          BY <1>0, <1>2, <4>2, <5>1 DEF Behind, Receiving
        <5>3. QED
          BY <3>3, <5>1, <5>2, HoldsNext
      <4>3. QED
        BY <4>1, <4>2
    <3>6. 0 \in 0..Len(BytesOf(s.block)) /\ 0 % Bytes = 0 /\ 0 + 1 = 1
      <4>1. Len(BytesOf(s.block)) \in Nat
        BY <3>1, BlockIs
      <4>2. QED
        BY <4>1, <1>0
    <3>7. Receiving(c, s.block, 0)
      BY <3>1, <3>3, <3>4, <3>5, <3>6 DEF Receiving
    <3>8. QED
      BY <1>0, <1>2, <2>1, <2>4, <3>2, <3>3, <3>7 DEF There
  <2>5. QED
    BY <1>0, <2>3, <2>4
<1>3. QED
  BY <1>0, <1>1, <1>2

-----------------------------------------------------------------------------
(* What is sent.                                                           *)

LEMMA BlocksShape ==
  /\ Len(Blocks) \in Nat /\ DOMAIN Blocks = 1..Len(Blocks)
  /\ Kick \in Byte /\ Kick # 0 /\ Kick # ReadyA /\ Bytes \in Nat /\ Bytes > 1
  /\ 0 \in Byte /\ 1 \in Byte /\ 0 \in Port /\ 1 \in Port /\ 2 \in Port /\ 3 \in Port
<1>1. Blocks \in Seq([addr : Addr, bytes : Seq(Byte)])
  BY UploadAssumption
<1>2. Len(Blocks) \in Nat /\ DOMAIN Blocks = 1..Len(Blocks)
  BY <1>1
<1>3. QED
  BY <1>2, ApuAssumption, Sizes DEF Port

LEMMA LowHigh ==
  ASSUME NEW x \in Addr
  PROVE  (x % Bytes) + Bytes * (x \div Bytes) = x
<1>1. Bytes \in Nat /\ Bytes > 0 /\ x \in Nat
  BY Sizes
<1>2. x = Bytes * (x \div Bytes) + (x % Bytes)
  BY <1>1
<1>3. x \div Bytes \in Nat /\ x % Bytes \in Nat
  BY <1>1
<1>4. Bytes * (x \div Bytes) \in Nat
  BY <1>1, <1>3
<1>5. QED
  BY <1>2, <1>3, <1>4

\* A message writes each port once, and the signal before nothing but the other half of
\* its store.
MessageOK(m, z, s, word) ==
  /\ m \in Seq(Writes) /\ Len(m) \in Nat /\ z \in 1..Len(m)
  /\ m[z].port = 0 /\ m[z].value = s.signal
  /\ \A k \in 1..Len(m) : k # z => m[k].port # 0
  /\ \A k, l \in 1..Len(m) : m[k].port = m[l].port => k = l
  /\ z < Len(m) => word /\ z + 1 = Len(m) /\ m[Len(m)].port = 1 /\ m[Len(m)].joined
  /\ s.index > 0 /\ word => z = 1

LEMMA MessageType ==
  ASSUME NEW s \in Progress, s.block \in 1..(Len(Blocks) + 1),
         s.index \in 0..Len(BytesOf(s.block)), NEW word \in BOOLEAN
  PROVE  Message(s, word) \in Seq(Writes)
<1>1. PICK b \in Nat : s.block = b + 1
  <2>1. s.block - 1 \in Nat /\ s.block = (s.block - 1) + 1
    BY BlocksShape DEF Progress
  <2>2. QED
    BY <2>1
<1>2. s.signal \in Byte /\ s.index \in Nat /\ s.block \in Nat
  BY DEF Progress
<1>3. CASE s.index = 0
  <2>1. AddressOf(s.block) \in Addr
    BY <1>1, BlockAt
  <2>2. PICK c \in Byte : c = IF s.block <= Len(Blocks) THEN 1 ELSE 0
    BY BlocksShape
  <2>3. Message(s, word) = Header(AddressOf(s.block), c, s.signal, word)
    BY <1>3, <2>2 DEF Message
  <2>4. QED
    BY <1>2, <2>1, <2>3, HeaderWrites
<1>4. CASE s.index # 0
  <2>1. BytesOf(s.block) \in Seq(Byte)
    BY <1>2, BlockAt
  <2>2. PICK v \in Byte : v = BytesOf(s.block)[s.index]
    BY <1>2, <1>4, <2>1
  <2>3. Message(s, word) = Data(s.signal, v, word)
    BY <1>4, <2>2 DEF Message
  <2>4. QED
    BY <1>2, <2>3, DataWrites
<1>5. QED
  BY <1>3, <1>4

LEMMA MessageIs ==
  ASSUME NEW s \in Progress, s.block \in 1..(Len(Blocks) + 1),
         s.index \in 0..Len(BytesOf(s.block)), NEW word \in BOOLEAN,
         NEW m, m = Message(s, word)
  PROVE  MessageOK(m, SignalAt(m, word), s, word)
<1>0. m \in Seq(Writes)
  BY MessageType
<1>1. CASE s.index = 0
  <2>1. PICK x : x = AddressOf(s.block)
    OBVIOUS
  <2>2. PICK c : c = IF s.block <= Len(Blocks) THEN 1 ELSE 0
    OBVIOUS
  <2>3. m = Header(x, c, s.signal, word)
    BY <1>1, <2>1, <2>2 DEF Message
  <2>4. CASE word
    <3>1. m = <<W(2, x % Bytes), J(3, x \div Bytes), W(0, s.signal), J(1, c)>>
      BY <2>3, <2>4 DEF Header
    <3>9. Len(m) = 4
      BY <3>1
    <3>2. SignalAt(m, word) = 3
      <4>1. SignalAt(m, word) = Len(m) - 1
        BY <2>4, Zenon DEF SignalAt
      <4>2. QED
        BY <3>9, <4>1
    <3>3. m[1].port = 2 /\ m[2].port = 3 /\ m[3].port = 0 /\ m[4].port = 1
      BY <3>1 DEF W, J
    <3>4. m[3].value = s.signal /\ m[4].joined
      BY <3>1 DEF W, J
    <3>5. /\ Len(m) \in Nat /\ 3 \in 1..Len(m) /\ 3 + 1 = Len(m) /\ ~(s.index > 0)
          /\ \A k \in 1..Len(m) : k # 3 => m[k].port # 0
          /\ \A k, l \in 1..Len(m) : m[k].port = m[l].port => k = l
          /\ m[Len(m)].port = 1 /\ m[Len(m)].joined
      BY <1>1, <3>9, <3>3, <3>4
    <3>6. QED
      BY <1>0, <2>4, <3>2, <3>3, <3>4, <3>5, Zenon DEF MessageOK
  <2>5. CASE ~word
    <3>1. m = <<W(2, x % Bytes), J(3, x \div Bytes), W(1, c), W(0, s.signal)>>
      BY <2>3, <2>5 DEF Header
    <3>2. Len(m) = 4 /\ SignalAt(m, word) = 4
      BY <2>5, <3>1 DEF SignalAt
    <3>3. m[1].port = 2 /\ m[2].port = 3 /\ m[3].port = 1 /\ m[4].port = 0
      BY <3>1 DEF W, J
    <3>4. m[4].value = s.signal
      BY <3>1 DEF W
    <3>5. QED
      BY <1>0, <1>1, <2>5, <3>2, <3>3, <3>4 DEF MessageOK
  <2>6. QED
    BY <2>4, <2>5
<1>2. CASE s.index # 0
  <2>1. PICK v : v = BytesOf(s.block)[s.index]
    OBVIOUS
  <2>2. m = IF word THEN <<W(0, s.signal), J(1, v)>> ELSE <<W(1, v), W(0, s.signal)>>
    BY <1>2, <2>1 DEF Message, Data
  <2>4. CASE word
    <3>1. m = <<W(0, s.signal), J(1, v)>>
      BY <2>2, <2>4
    <3>9. Len(m) = 2
      BY <3>1
    <3>2. SignalAt(m, word) = 1
      <4>1. SignalAt(m, word) = Len(m) - 1
        BY <2>4, Zenon DEF SignalAt
      <4>2. QED
        BY <3>9, <4>1
    <3>3. m[1].port = 0 /\ m[2].port = 1 /\ m[1].value = s.signal /\ m[2].joined
      BY <3>1 DEF W, J
    <3>4. /\ Len(m) \in Nat /\ 1 \in 1..Len(m) /\ 1 + 1 = Len(m)
          /\ \A k \in 1..Len(m) : k # 1 => m[k].port # 0
          /\ \A k, l \in 1..Len(m) : m[k].port = m[l].port => k = l
          /\ m[Len(m)].port = 1 /\ m[Len(m)].joined
      BY <3>9, <3>3
    <3>5. QED
      BY <1>0, <2>4, <3>2, <3>3, <3>4, Zenon DEF MessageOK
  <2>5. CASE ~word
    <3>1. m = <<W(1, v), W(0, s.signal)>>
      BY <2>2, <2>5
    <3>2. Len(m) = 2 /\ SignalAt(m, word) = 2
      BY <2>5, <3>1 DEF SignalAt
    <3>3. m[1].port = 1 /\ m[2].port = 0 /\ m[2].value = s.signal
      BY <3>1 DEF W
    <3>4. QED
      BY <1>0, <1>2, <2>5, <3>2, <3>3 DEF MessageOK
  <2>6. QED
    BY <2>4, <2>5
<1>3. QED
  BY <1>1, <1>2

\* Once all of it is on the ports, it is shown.
LEMMA AllShown ==
  ASSUME NEW s \in Progress, s.block \in 1..(Len(Blocks) + 1),
         s.index \in 0..Len(BytesOf(s.block)), NEW word \in BOOLEAN,
         NEW m, m = Message(s, word), NEW a,
         \A k \in 1..Len(m) : a.in[m[k].port] = m[k].value
  PROVE  Shown(a, s)
<1>1. CASE s.index = 0
  <2>1. PICK x : x = AddressOf(s.block)
    OBVIOUS
  <2>2. PICK c : c = IF s.block <= Len(Blocks) THEN 1 ELSE 0
    OBVIOUS
  <2>3. m = Header(x, c, s.signal, word)
    BY <1>1, <2>1, <2>2 DEF Message
  <2>4. a.in[0] = s.signal /\ a.in[1] = c /\ a.in[2] = x % Bytes /\ a.in[3] = x \div Bytes
    <3>1. CASE word
      <4>1. m = <<W(2, x % Bytes), J(3, x \div Bytes), W(0, s.signal), J(1, c)>>
        BY <2>3, <3>1 DEF Header
      <4>2. Len(m) = 4
        BY <4>1
      <4>3. /\ m[1].port = 2 /\ m[2].port = 3 /\ m[3].port = 0 /\ m[4].port = 1
            /\ m[1].value = x % Bytes /\ m[2].value = x \div Bytes
            /\ m[3].value = s.signal /\ m[4].value = c
        BY <4>1 DEF W, J
      <4>4. \A k \in {1, 2, 3, 4} : a.in[m[k].port] = m[k].value
        BY <4>2
      <4>5. QED
        BY <4>3, <4>4
    <3>2. CASE ~word
      <4>1. m = <<W(2, x % Bytes), J(3, x \div Bytes), W(1, c), W(0, s.signal)>>
        BY <2>3, <3>2 DEF Header
      <4>2. Len(m) = 4
        BY <4>1
      <4>3. /\ m[1].port = 2 /\ m[2].port = 3 /\ m[3].port = 1 /\ m[4].port = 0
            /\ m[1].value = x % Bytes /\ m[2].value = x \div Bytes
            /\ m[4].value = s.signal /\ m[3].value = c
        BY <4>1 DEF W, J
      <4>4. \A k \in {1, 2, 3, 4} : a.in[m[k].port] = m[k].value
        BY <4>2
      <4>5. QED
        BY <4>3, <4>4
    <3>3. QED
      BY <3>1, <3>2
  <2>5. x \in Addr
    <3>1. PICK b \in Nat : s.block = b + 1
      <4>1. s.block - 1 \in Nat /\ s.block = (s.block - 1) + 1
        BY BlocksShape DEF Progress
      <4>2. QED
        BY <4>1
    <3>2. QED
      BY <2>1, <3>1, BlockAt
  <2>6. Starts(a) = x
    BY <2>4, <2>5, LowHigh DEF Starts
  <2>7. QED
    BY <1>1, <2>1, <2>2, <2>4, <2>6 DEF Shown
<1>2. CASE s.index # 0
  <2>1. PICK v : v = BytesOf(s.block)[s.index]
    OBVIOUS
  <2>2. m = IF word THEN <<W(0, s.signal), J(1, v)>> ELSE <<W(1, v), W(0, s.signal)>>
    BY <1>2, <2>1 DEF Message, Data
  <2>3. Len(m) = 2
    BY <2>2
  <2>4. \A k \in {1, 2} : a.in[m[k].port] = m[k].value
    BY <2>3
  <2>5. a.in[0] = s.signal /\ a.in[1] = v
    <3>1. CASE word
      <4>1. m[1].port = 0 /\ m[2].port = 1 /\ m[1].value = s.signal /\ m[2].value = v
        BY <2>2, <3>1 DEF W, J
      <4>2. QED
        BY <2>4, <4>1
    <3>2. CASE ~word
      <4>1. m[1].port = 1 /\ m[2].port = 0 /\ m[2].value = s.signal /\ m[1].value = v
        BY <2>2, <3>2 DEF W
      <4>2. QED
        BY <2>4, <4>1
    <3>3. QED
      BY <3>1, <3>2
  <2>6. QED
    BY <1>2, <2>1, <2>5 DEF Shown
<1>3. QED
  BY <1>1, <1>2

-----------------------------------------------------------------------------
(* What a port access does to the APU.                                     *)

\* All but the ports written by the CPU.
SameBut(a, b) ==
  /\ b.mode = a.mode /\ b.zone = a.zone /\ b.halted = a.halted /\ b.out = a.out
  /\ b.ram = a.ram /\ b.ptr = a.ptr /\ b.last = a.last /\ b.expected = a.expected

LEMMA BehindSame ==
  ASSUME NEW a, NEW b, SameBut(a, b), NEW s
  PROVE  Behind(a, s) => Behind(b, s)
<1>1. Waiting(a) => Waiting(b)
  BY DEF Waiting, SameBut
<1>2. \A o, i : Receiving(a, o, i) => Receiving(b, o, i)
  BY DEF Receiving, SameBut
<1>3. b.mode = a.mode /\ b.last = a.last /\ b.expected = a.expected
  BY DEF SameBut
<1>4. QED
  BY <1>1, <1>2, <1>3, Zenon DEF Behind

LEMMA PutIs ==
  ASSUME NEW a \in Apus, access.port \in Port, access.value \in Byte, NEW b, b = Put(a)
  PROVE  /\ SameBut(a, b)
         /\ \A p \in Port : b.in[p] = IF p = access.port THEN access.value ELSE a.in[p]
<1> DEFINE i == [a.in EXCEPT ![access.port] = access.value]
<1>1. b = [a EXCEPT !.in = i]
  BY Zenon DEF Put
<1>2. \A p \in Port : i[p] = IF p = access.port THEN access.value ELSE a.in[p]
  BY ApuFields DEF Ports
<1> HIDE DEF i
<1>3. b.in = i /\ SameBut(a, b)
  BY <1>1 DEF SameBut, Apus
<1>4. QED
  BY <1>2, <1>3

\* A step only takes what is on the ports.
LEMMA InKept ==
  ASSUME NEW a \in Apus, a.mode # "done", a.halted = "no", NEW s \in Steps(a)
  PROVE  s.apu.mode = "done" \/ s.apu.in = a.in
<1>1. ASSUME NEW signal \in Byte PROVE Command(a, signal).mode = "done" \/ Command(a, signal).in = a.in
  <2>1. PICK c : c = Command(a, signal)
    OBVIOUS
  <2>2. QED
    BY <2>1, Jumped, Commanded
<1>2. Store(a).in = a.in
  <2>1. PICK c : c = Store(a)
    OBVIOUS
  <2>2. QED
    BY <2>1, Stored
<1>3. Kick \in Byte /\ a.in[0] \in Byte
  BY BlocksShape, ApuFields
<1>4. QED
  BY <1>1, <1>2, <1>3, BootSteps

LEMMA ServiceIs ==
  ASSUME NEW a, NEW b \in Service(a)
  PROVE  IF a.zone # "wait" \/ a.in[0] # Kick THEN b = a ELSE \E s \in Steps(a) : b = s.apu
BY DEF Service

\* A write changes the port only, unless a kick waits to be served.
LEMMA JustWritten ==
  ASSUME NEW b \in Written, apu \in Apus, access.port \in Port, access.value \in Byte,
         apu.zone # "wait" \/ apu.in[0] # Kick
  PROVE  b = Put(apu)
<1>1. PICK c : c = Put(apu)
  OBVIOUS
<1>2. SameBut(apu, c) /\ \A p \in Port : c.in[p] = IF p = access.port THEN access.value ELSE apu.in[p]
  BY <1>1, PutIs
<1>3. CASE OverwritesKick
  <2>1. PICK a \in Service(apu) : b = Put(a)
    BY <1>3 DEF Written
  <2>2. a = apu
    BY <2>1, ServiceIs
  <2>3. QED
    BY <2>1, <2>2
<1>4. CASE ~OverwritesKick /\ ServedAfter
  <2>1. b \in Service(c)
    BY <1>1, <1>4 DEF Written
  <2>2. c.zone # "wait" \/ c.in[0] # Kick
    BY <1>2, <1>4, BlocksShape DEF SameBut, ServedAfter
  <2>3. QED
    BY <1>1, <2>1, <2>2, ServiceIs
<1>5. CASE ~OverwritesKick /\ ~ServedAfter
  BY <1>5 DEF Written
<1>6. QED
  BY <1>3, <1>4, <1>5

LEMMA WrittenDone ==
  ASSUME NEW b \in Written, apu \in Apus, access.port \in Port, access.value \in Byte,
         apu.mode = "done"
  PROVE  b.mode = "done"
<1>1. ASSUME NEW a \in Apus, a.mode = "done", NEW c \in Service(a) PROVE c \in Apus /\ c.mode = "done"
  BY <1>1, ServiceIs, ServiceType, DoneStays
<1>2. ASSUME NEW a \in Apus, a.mode = "done" PROVE Put(a) \in Apus /\ Put(a).mode = "done"
  <2>1. PICK c : c = Put(a)
    OBVIOUS
  <2>2. SameBut(a, c)
    BY <2>1, PutIs
  <2>3. QED
    BY <1>2, <2>1, <2>2, PutType DEF SameBut
<1>3. CASE OverwritesKick
  <2>1. PICK a \in Service(apu) : b = Put(a)
    BY <1>3 DEF Written
  <2>2. QED
    BY <1>1, <1>2, <2>1
<1>4. CASE ~OverwritesKick /\ ServedAfter
  <2>1. b \in Service(Put(apu))
    BY <1>4 DEF Written
  <2>2. QED
    BY <1>1, <1>2, <2>1
<1>5. CASE ~OverwritesKick /\ ~ServedAfter
  <2>1. b = Put(apu)
    BY <1>5 DEF Written
  <2>2. QED
    BY <1>2, <2>1
<1>6. QED
  BY <1>3, <1>4, <1>5

\* The kick is served before the first byte's index takes its place.
LEMMA KickServed ==
  ASSUME NEW b \in Written, pending.kick, access.port = 0, access.value # Kick,
         apu.zone = "wait", apu.in[0] = Kick
  PROVE  \E s \in Steps(apu) : b = Put(s.apu)
<1>1. OverwritesKick
  BY DEF OverwritesKick
<1>2. PICK a \in Service(apu) : b = Put(a)
  BY <1>1 DEF Written
<1>3. QED
  BY <1>2, ServiceIs

LEMMA QuietBehind ==
  ASSUME NEW a \in Apus, NEW s, Behind(a, s), Quiet(a)
  PROVE  /\ a.mode # "done" /\ a.halted = "no" /\ (a.zone # "wait" \/ a.in[0] # Kick)
         /\ a.out[0] # s.signal
<1>1. Waiting(a) \/ \E o, i : Receiving(a, o, i)
  BY DEF Behind
<1>2. QED
  BY <1>1, BlocksShape DEF Behind, Quiet, Waiting, Receiving

LEMMA BehindIs ==
  ASSUME NEW a \in Apus, NEW s, Behind(a, s)
  PROVE  /\ a.mode \in {"wait", "receive"} /\ a.halted = "no" /\ a.out[0] # s.signal
         /\ a.mode = "wait" => a.zone = "wait" /\ s.signal = Kick
         /\ a.mode = "receive" => a.zone = "transfer"
<1>1. Waiting(a) \/ \E o, i : Receiving(a, o, i)
  BY DEF Behind
<1>2. QED
  BY <1>1 DEF Behind, Waiting, Receiving

\* Having served the kick it is ready for the first byte, if there is one.
LEMMA KickedOffServed ==
  ASSUME NEW a \in Apus, KickedOff(a), NEW s \in Progress, s.block = 1, s.index = 1, s.signal = 0,
         1 <= Len(BytesOf(1)), NEW r \in Steps(a)
  PROVE  Behind(r.apu, s) /\ Quiet(r.apu) /\ r.apu \in Apus
<1>1. PICK h \in Progress : h.block = 1 /\ h.index = 0 /\ h.signal = Kick
  <2>1. PICK h : h = [block |-> 1, index |-> 0, signal |-> Kick, echoed |-> FALSE, free |-> 0]
    OBVIOUS
  <2>2. h \in Progress
    BY <2>1, BlocksShape DEF Progress
  <2>3. QED
    BY <2>1, <2>2
<1>2. 1 \in DOMAIN Blocks
  <2>1. CASE 1 \notin DOMAIN Blocks
    <3>1. BytesOf(1) = <<>>
      BY <2>1 DEF BytesOf
    <3>2. QED
      BY <3>1
  <2>2. QED
    BY <2>1
<1>3. 1 <= Len(Blocks) /\ Len(BytesOf(1)) \in Nat
  BY <1>2, BlocksShape, BlockIs
<1>4. Behind(a, h)
  BY <1>1 DEF Behind, KickedOff, Waiting
<1>5. Shown(a, h)
  BY <1>1, <1>3 DEF Shown, KickedOff
<1>6. There(r.apu, h)
  <2>1. h.block \in 1..(Len(Blocks) + 1) /\ h.index \in 0..Len(BytesOf(h.block))
    BY <1>1, <1>3, BlocksShape
  <2>2. QED
    BY <1>4, <1>5, <2>1, Serves
<1>7. Receiving(r.apu, 1, 0) /\ r.apu.last = Kick /\ r.apu.in[0] = Kick
  BY <1>1, <1>3, <1>6, BlocksShape DEF There
<1>8. 0 % Bytes = 0
  BY BlocksShape
<1>9. r.apu.expected = 0 /\ r.apu.mode = "receive"
  BY <1>7, <1>8 DEF Receiving
<1>10. Behind(r.apu, s)
  <2>1. s.index - 1 = 0 /\ s.index > 0
    OBVIOUS
  <2>2. QED
    BY <1>7, <1>9, <2>1, BlocksShape DEF Behind
<1>11. QED
  BY <1>7, <1>9, <1>10, StepsType DEF Quiet

-----------------------------------------------------------------------------
(* The message under way, when the APU steps and when a write is made.     *)

\* What is known of it.
MessageHeld(word, m, n, z) ==
  /\ m = Message(sent, word) /\ n = Made(m) /\ z = SignalAt(m, word)
  /\ MessageOK(m, z, sent, word) /\ UnderWayAt(word, m, n, z)
  /\ n \in Nat /\ n <= Len(m) /\ Len(todo) \in Nat /\ (InAccess => n < Len(m))

LEMMA BlockSent ==
  ASSUME SentOK, SentTo, sent.block > 0
  PROVE  /\ sent \in Progress /\ sent.block \in 1..(Len(Blocks) + 1)
         /\ sent.index \in 0..Len(BytesOf(sent.block)) /\ sent.index \in Nat
BY BlocksShape DEF SentOK, SentTo, Progress

LEMMA HoldsMessage ==
  ASSUME SentOK, SentTo, sent.block > 0, NEW word \in BOOLEAN, UnderWay(word)
  PROVE  \E m, n, z : MessageHeld(word, m, n, z)
<1>1. PICK m : m = Message(sent, word)
  OBVIOUS
<1>2. PICK n : n = Made(m)
  OBVIOUS
<1>3. PICK z : z = SignalAt(m, word)
  OBVIOUS
<1>4. UnderWayAt(word, m, n, z)
  BY <1>1, <1>2, <1>3 DEF UnderWay
<1>5. MessageOK(m, z, sent, word)
  BY <1>1, <1>3, BlockSent, MessageIs
<1>6. Len(todo) \in Nat /\ Len(m) \in Nat
  BY <1>5 DEF SentOK, MessageOK
<1>7. n \in Nat /\ n <= Len(m)
  BY <1>4, <1>6 DEF UnderWayAt, Follows
<1>8. InAccess => n < Len(m)
  BY <1>2, <1>6 DEF Made
<1>9. QED
  BY <1>1, <1>2, <1>3, <1>4, <1>5, <1>6, <1>7, <1>8 DEF MessageHeld

\* A step of the APU brings it to where the message, as far as it is written, takes it.
LEMMA Advances ==
  ASSUME TypeOK, SentOK, SentTo, sent.block > 0, NEW word \in BOOLEAN,
         NEW m, NEW n, NEW z, MessageHeld(word, m, n, z),
         stage \in {"before", "after", "line"}, NEW r \in Steps(apu), NEW b, b = r.apu
  PROVE  /\ n < z => Behind(b, sent) /\ Quiet(b)
         /\ ~(z <= n /\ n < Len(m))
         /\ n = Len(m) => There(b, sent)
         /\ b.mode # "done" => \A k \in 1..n : b.in[m[k].port] = m[k].value
<1>0. apu \in Apus /\ z \in 1..Len(m) /\ n \in Nat /\ Len(m) \in Nat
  BY DEF TypeOK, MessageHeld, MessageOK
<1>1. ~(z <= n /\ n < Len(m))
  BY DEF MessageHeld, UnderWayAt, HalfStored
<1>2. CASE n < z
  <2>1. CASE Behind(apu, sent) /\ Quiet(apu)
    <3>1. b = apu
      BY <1>0, <2>1, QuietBehind, StaysQuiet
    <3>2. apu.mode # "done"
      BY <1>0, <2>1, QuietBehind
    <3>3. n # Len(m)
      BY <1>0, <1>2
    <3>4. \A k \in 1..n : apu.in[m[k].port] = m[k].value
      BY <3>2 DEF MessageHeld, UnderWayAt, Follows
    <3>5. QED
      BY <1>1, <2>1, <3>1, <3>3, <3>4
  <2>2. CASE ~(Behind(apu, sent) /\ Quiet(apu))
    <3>1. word /\ sent.block = 1 /\ sent.index = 1 /\ sent.signal = 0 /\ KickedOff(apu)
      BY <1>2, <2>2 DEF MessageHeld, UnderWayAt, Unsignalled
    <3>2. 1 <= Len(BytesOf(1))
      <4>1. BytesOf(1) \in Seq(Byte)
        BY BlockAt
      <4>2. Len(BytesOf(1)) \in Nat
        BY <4>1
      <4>3. QED
        BY <3>1, <4>2 DEF SentTo
    <3>3. Behind(b, sent) /\ Quiet(b)
      BY <1>0, <3>1, <3>2, BlockSent, KickedOffServed
    <3>4. z = 1
      <4>1. sent.index > 0
        BY <3>1
      <4>2. QED
        BY <3>1, <4>1 DEF MessageHeld, MessageOK
    <3>5. n = 0
      BY <1>0, <1>2, <3>4
    <3>6. n # Len(m) /\ 1..n = {}
      BY <1>0, <3>4, <3>5
    <3>7. QED
      BY <1>1, <3>3, <3>6
  <2>3. QED
    BY <2>1, <2>2
<1>3. CASE n = Len(m)
  <2>0. ~(n < z)
    BY <1>0, <1>3
  <2>1. Signalled
    BY <1>3 DEF MessageHeld, UnderWayAt
  <2>2. CASE Behind(apu, sent)
    <3>1. apu.mode # "done" /\ apu.halted = "no"
      BY <1>0, <2>2, BehindIs
    <3>2. \A k \in 1..n : apu.in[m[k].port] = m[k].value
      BY <3>1 DEF MessageHeld, UnderWayAt, Follows
    <3>3. Shown(apu, sent)
      BY <1>3, <3>2, BlockSent, AllShown DEF MessageHeld
    <3>4. There(b, sent)
      BY <1>0, <2>2, <3>3, BlockSent, Serves
    <3>5. b.mode = "done" \/ b.in = apu.in
      BY <1>0, <3>1, InKept
    <3>6. QED
      BY <1>1, <2>0, <3>2, <3>4, <3>5
  <2>3. CASE There(apu, sent)
    <3>1. There(b, sent)
      BY <1>0, <2>3, StaysThere
    <3>2. ASSUME b.mode # "done" PROVE \A k \in 1..n : b.in[m[k].port] = m[k].value
      <4>1. apu.mode # "done"
        BY <1>0, <3>2, DoneStays
      <4>2. apu.halted = "no"
        BY <2>3, <4>1 DEF There, Receiving
      <4>3. b.in = apu.in
        BY <1>0, <3>2, <4>1, <4>2, InKept
      <4>4. QED
        BY <4>1, <4>3 DEF MessageHeld, UnderWayAt, Follows
    <3>3. QED
      BY <1>1, <2>0, <3>1, <3>2
  <2>4. QED
    BY <2>1, <2>2, <2>3 DEF Signalled
<1>4. QED
  <2>1. n < z \/ n = Len(m)
    BY <1>0, <1>1 DEF MessageHeld
  <2>2. QED
    BY <1>2, <1>3, <2>1

\* A write makes one more of its ports true, and only the signal is news to the APU.
LEMMA Writing ==
  ASSUME TypeOK, SentOK, SentTo, sent.block > 0, NEW word \in BOOLEAN,
         NEW m, NEW n, NEW z, MessageHeld(word, m, n, z), InAccess, NEW b \in Written
  PROVE  /\ \A k \in 1..(n + 1) : b.in[m[k].port] = m[k].value
         /\ Behind(b, sent) /\ b.mode # "done"
         /\ n + 1 < z => Quiet(b)
         /\ n + 1 = z => access.port = 0 /\ access.value = sent.signal
         /\ n + 1 = z /\ z < Len(m) => b.mode = "receive"
         /\ z <= n => n + 1 = Len(m) /\ stage = "at" /\ b.mode = "receive"
<1>0. /\ apu \in Apus /\ z \in 1..Len(m) /\ n \in Nat /\ Len(m) \in Nat /\ n < Len(m)
      /\ access.port \in Port /\ access.value \in Byte
      /\ access.port = m[n + 1].port /\ access.value = m[n + 1].value
      /\ m[z].port = 0 /\ m[z].value = sent.signal
  BY DEF TypeOK, MessageHeld, MessageOK, UnderWayAt, Follows
<1>1. \A k \in 1..Len(m) : k # n + 1 => m[k].port # access.port
  BY <1>0 DEF MessageHeld, MessageOK
<1>2. \A k \in 1..Len(m) : m[k].port \in Port
  <2>1. m \in Seq(Writes)
    BY DEF MessageHeld, MessageOK
  <2>2. \A k \in 1..Len(m) : m[k] \in Writes
    BY <2>1
  <2>3. QED
    BY <2>2 DEF Writes
<1>3. n + 1 = z => access.port = 0 /\ access.value = sent.signal
  BY <1>0
<1>4. n + 1 # z => access.port # 0
  BY <1>0 DEF MessageHeld, MessageOK
<1>5. ASSUME NEW c \in Apus, b = Put(c), \A k \in 1..n : c.in[m[k].port] = m[k].value
      PROVE  /\ \A k \in 1..(n + 1) : b.in[m[k].port] = m[k].value
             /\ SameBut(c, b) /\ (n + 1 # z => b.in[0] = c.in[0])
  <2>1. SameBut(c, b) /\ \A p \in Port : b.in[p] = IF p = access.port THEN access.value ELSE c.in[p]
    BY <1>0, <1>5, PutIs
  <2>2. ASSUME NEW k \in 1..(n + 1) PROVE b.in[m[k].port] = m[k].value
    <3>1. CASE k = n + 1
      BY <1>0, <2>1, <3>1
    <3>2. CASE k # n + 1
      <4>1. k \in 1..n /\ k \in 1..Len(m)
        BY <1>0, <3>2
      <4>2. m[k].port \in Port /\ m[k].port # access.port
        BY <1>1, <1>2, <3>2, <4>1
      <4>3. QED
        BY <1>5, <2>1, <4>1, <4>2
    <3>3. QED
      BY <3>1, <3>2
  <2>3. n + 1 # z => b.in[0] = c.in[0]
    BY <1>4, <2>1, BlocksShape
  <2>4. QED
    BY <2>1, <2>2, <2>3
<1>6. ASSUME Behind(b, sent), z < Len(m) PROVE b.mode = "receive"
  <2>1. word
    BY <1>6 DEF MessageHeld, MessageOK
  <2>2. ~(sent.block = 1 /\ sent.index = 0)
    BY <2>1 DEF MessageHeld, UnderWayAt
  <2>3. sent.index \in Nat
    BY BlockSent
  <2>4. sent.index = 0 \/ sent.index > 0
    BY <2>3
  <2>5. \E o, i : Receiving(b, o, i)
    BY <1>6, <2>2, <2>4 DEF Behind
  <2>6. QED
    BY <2>5 DEF Receiving
<1>7. CASE n < z /\ Behind(apu, sent) /\ Quiet(apu)
  <2>1. apu.mode # "done" /\ (apu.zone # "wait" \/ apu.in[0] # Kick)
    BY <1>0, <1>7, QuietBehind
  <2>2. b = Put(apu)
    BY <1>0, <2>1, JustWritten
  <2>3. \A k \in 1..n : apu.in[m[k].port] = m[k].value
    BY <2>1 DEF MessageHeld, UnderWayAt, Follows
  <2>4. /\ \A k \in 1..(n + 1) : b.in[m[k].port] = m[k].value
        /\ SameBut(apu, b) /\ (n + 1 # z => b.in[0] = apu.in[0])
    BY <1>0, <1>5, <2>2, <2>3
  <2>5. Behind(b, sent)
    BY <1>7, <2>4, BehindSame
  <2>6. n + 1 < z => Quiet(b)
    <3>1. ASSUME n + 1 < z PROVE n + 1 # z
      BY <1>0, <3>1
    <3>2. QED
      BY <1>7, <2>4, <3>1 DEF Quiet, SameBut
  <2>7. ~(z <= n)
    BY <1>0, <1>7
  <2>8. b.mode # "done"
    BY <2>1, <2>4 DEF SameBut
  <2>9. QED
    BY <1>3, <1>6, <2>4, <2>5, <2>6, <2>7, <2>8
<1>8. CASE n < z /\ ~(Behind(apu, sent) /\ Quiet(apu))
  <2>1. /\ word /\ sent.block = 1 /\ sent.index = 1 /\ sent.signal = 0
        /\ KickedOff(apu) /\ pending.kick
    BY <1>8 DEF MessageHeld, UnderWayAt, Unsignalled
  <2>2. z = 1
    <3>1. sent.index > 0
      BY <2>1
    <3>2. QED
      BY <2>1, <3>1 DEF MessageHeld, MessageOK
  <2>3. n = 0 /\ n + 1 = z /\ 1..n = {} /\ ~(n + 1 < z) /\ ~(z <= n)
    BY <1>0, <1>8, <2>2
  <2>4. access.port = 0 /\ access.value # Kick
    BY <1>3, <2>1, <2>3, BlocksShape
  <2>5. apu.zone = "wait" /\ apu.in[0] = Kick
    BY <2>1 DEF KickedOff, Waiting
  <2>6. PICK r \in Steps(apu) : b = Put(r.apu)
    BY <2>1, <2>4, <2>5, KickServed
  <2>7. PICK c : c = r.apu
    OBVIOUS
  <2>8. 1 <= Len(BytesOf(1))
    <3>1. BytesOf(1) \in Seq(Byte)
      BY BlockAt
    <3>2. Len(BytesOf(1)) \in Nat
      BY <3>1
    <3>3. QED
      BY <2>1, <3>2 DEF SentTo
  <2>9. Behind(c, sent) /\ c \in Apus
    BY <1>0, <2>1, <2>7, <2>8, BlockSent, KickedOffServed
  <2>10. /\ \A k \in 1..(n + 1) : b.in[m[k].port] = m[k].value
         /\ SameBut(c, b)
    BY <1>5, <2>3, <2>6, <2>7, <2>9
  <2>11. Behind(b, sent)
    BY <2>9, <2>10, BehindSame
  <2>12. b.mode # "done"
    BY <2>9, <2>10, BehindIs DEF SameBut
  <2>13. QED
    BY <1>3, <1>6, <2>3, <2>10, <2>11, <2>12
<1>9. CASE z <= n
  <2>1. HalfStored
    BY <1>0, <1>9 DEF MessageHeld, UnderWayAt
  <2>2. Behind(apu, sent) /\ apu.mode = "receive" /\ stage = "at"
    BY <2>1 DEF HalfStored, InAccess
  <2>3. apu.zone = "transfer"
    BY <1>0, <2>2, BehindIs
  <2>4. b = Put(apu)
    BY <1>0, <2>3, JustWritten
  <2>5. \A k \in 1..n : apu.in[m[k].port] = m[k].value
    BY <2>2 DEF MessageHeld, UnderWayAt, Follows
  <2>6. /\ \A k \in 1..(n + 1) : b.in[m[k].port] = m[k].value
        /\ SameBut(apu, b)
    BY <1>0, <1>5, <2>4, <2>5
  <2>7. Behind(b, sent) /\ b.mode = "receive"
    BY <2>2, <2>6, BehindSame DEF SameBut
  <2>8. n + 1 = Len(m) /\ ~(n + 1 < z) /\ n + 1 # z
    <3>1. z < Len(m)
      BY <1>0, <1>9
    <3>2. z + 1 = Len(m)
      BY <3>1 DEF MessageHeld, MessageOK
    <3>3. QED
      BY <1>0, <1>9, <3>2
  <2>9. QED
    BY <2>2, <2>6, <2>7, <2>8
<1>10. QED
  BY <1>0, <1>7, <1>8, <1>9

-----------------------------------------------------------------------------
(* Each step of the device.                                                *)

LEMMA SameMessage ==
  ASSUME NEW s, NEW t, t.block = s.block, t.index = s.index, t.signal = s.signal
  PROVE  /\ \A word : Message(t, word) = Message(s, word)
         /\ \A a : (Behind(a, s) => Behind(a, t)) /\ (There(a, s) => There(a, t))
BY DEF Message, Behind, There

LEMMA ApuStepHeld ==
  ASSUME TypeOK, SentOK, SentTo, Held, ApuStep, UNCHANGED <<todo, sent>>
  PROVE  Held'
<1>1. PICK r \in Steps(apu) : apu' = r.apu
  BY DEF ApuStep
<1>2. UNCHANGED <<pending, stage, access, todo, sent>> /\ apu.halted = "no"
      /\ stage \in {"before", "after", "line"}
  BY DEF ApuStep, Running, LoopOver
<1>3. apu \in Apus
  BY DEF TypeOK
<1>4. (InAccess <=> InAccess') /\ (Finished <=> Finished')
  BY <1>2 DEF InAccess, Finished
<1>5. CASE sent.echoed
  <2>1. Rested
    BY <1>5 DEF Held
  <2>2. CASE sent.block = 0
    <3>1. Waiting(apu) /\ Quiet(apu)
      BY <2>1, <2>2 DEF Rested
    <3>2. apu' = apu
      BY <1>1, <1>3, <3>1, StaysQuiet DEF Waiting
    <3>3. QED
      BY <1>2, <1>4, <1>5, <2>1, <3>2 DEF Held, Rested
  <2>3. CASE sent.block # 0
    <3>1. There(apu', sent)
      BY <1>1, <1>3, <2>1, <2>3, StaysThere DEF Rested
    <3>2. QED
      BY <1>2, <1>4, <1>5, <2>1, <2>3, <3>1 DEF Held, Rested
  <2>4. QED
    BY <2>2, <2>3
<1>6. CASE ~sent.echoed
  <2>1. PICK word \in BOOLEAN : UnderWay(word)
    BY <1>6 DEF Held
  <2>2. sent.block > 0
    BY <1>6 DEF Held
  <2>3. PICK m, n, z : MessageHeld(word, m, n, z)
    BY <2>1, <2>2, HoldsMessage
  <2>4. /\ n < z => Behind(apu', sent) /\ Quiet(apu')
        /\ ~(z <= n /\ n < Len(m))
        /\ n = Len(m) => There(apu', sent)
        /\ apu'.mode # "done" => \A k \in 1..n : apu'.in[m[k].port] = m[k].value
    <3>1. PICK b : b = apu'
      OBVIOUS
    <3>2. b = r.apu
      BY <1>1, <3>1
    <3>3. QED
      BY <1>2, <2>2, <2>3, <3>1, <3>2, Advances
  <2>5. m = Message(sent', word) /\ z = SignalAt(m, word) /\ n = Made(m)'
    BY <1>2, <1>4, <2>3 DEF MessageHeld, Made
  <2>6. Follows(m, n)'
    BY <1>2, <1>4, <2>3, <2>4 DEF MessageHeld, UnderWayAt, Follows
  <2>7. (n < z => Unsignalled(word)') /\ (n = Len(m) => Signalled')
    BY <1>2, <2>4 DEF Unsignalled, Signalled
  <2>8. sent'.block = 1 /\ sent'.index = 0 => ~word
    BY <1>2, <2>3 DEF MessageHeld, UnderWayAt
  <2>9. UnderWayAt(word, m, n, z)'
    BY <2>4, <2>6, <2>7, <2>8 DEF UnderWayAt
  <2>10. UnderWay(word)'
    BY <2>5, <2>9 DEF UnderWay
  <2>11. QED
    BY <1>2, <1>6, <2>2, <2>10 DEF Held
<1>7. QED
  BY <1>5, <1>6

\* Reading an echo: it is seen only if the APU is there.
LEMMA PolledHeld ==
  ASSUME TypeOK, SentOK, SentTo, AccessOK, Held, Polled
  PROVE  Held'
<1>1. /\ stage = "before" /\ access.op = "read" /\ stage' = "cpu" /\ access' = NoAccess
      /\ todo' = todo /\ mdr' = apu'.out[access.port]
      /\ apu' \in (IF pending.kick THEN Service(apu) ELSE {apu})
  BY DEF Polled, ReadPort
<1>2. apu \in Apus /\ sent \in Progress /\ Len(todo) \in Nat
  BY DEF TypeOK, SentOK
<1>3. ~InAccess /\ ~InAccess'
  BY <1>1 DEF InAccess
<1>4. /\ sent'.block = sent.block /\ sent'.index = sent.index /\ sent'.signal = sent.signal
      /\ sent'.echoed = (sent.echoed \/ mdr' = sent.signal)
  BY <1>2 DEF Polled, Progress
<1>5. apu' = apu \/ \E r \in Steps(apu) : apu' = r.apu
  <2>1. CASE pending.kick
    <3>1. apu' \in Service(apu)
      BY <1>1, <2>1
    <3>2. QED
      BY <2>1, <3>1, ServiceIs
  <2>2. CASE ~pending.kick
    BY <1>1, <2>2
  <2>3. QED
    BY <2>1, <2>2
<1>6. pending.kick /\ apu.zone = "wait" /\ apu.in[0] = Kick => \E r \in Steps(apu) : apu' = r.apu
  <2>1. SUFFICES ASSUME pending.kick, apu.zone = "wait", apu.in[0] = Kick
                 PROVE  \E r \in Steps(apu) : apu' = r.apu
    OBVIOUS
  <2>2. apu' \in Service(apu)
    BY <1>1, <2>1
  <2>3. QED
    BY <2>1, <2>2, ServiceIs
<1>7. CASE sent.echoed
  <2>1. Rested /\ sent'.echoed
    BY <1>4, <1>7 DEF Held
  <2>2. CASE sent.block = 0
    <3>1. Waiting(apu) /\ Quiet(apu)
      BY <2>1, <2>2 DEF Rested
    <3>2. apu.mode # "done" /\ apu.halted = "no"
      BY <3>1 DEF Waiting
    <3>3. apu' = apu
      BY <1>2, <1>5, <3>1, <3>2, StaysQuiet
    <3>4. QED
      BY <1>1, <1>3, <1>4, <2>1, <2>2, <3>1, <3>3 DEF Held, Rested
  <2>3. CASE sent.block # 0
    <3>1. There(apu', sent)
      BY <1>2, <1>5, <2>1, <2>3, StaysThere DEF Rested
    <3>2. There(apu', sent')
      BY <1>4, <3>1, SameMessage
    <3>3. QED
      BY <1>1, <1>3, <1>4, <2>1, <2>3, <3>2 DEF Held, Rested
  <2>4. QED
    BY <2>2, <2>3
<1>8. CASE ~sent.echoed
  <2>1. PICK word \in BOOLEAN : UnderWay(word)
    BY <1>8 DEF Held
  <2>2. sent.block > 0
    BY <1>8 DEF Held
  <2>3. PICK m, n, z : MessageHeld(word, m, n, z)
    BY <2>1, <2>2, HoldsMessage
  <2>4. access.port = 0 /\ z \in 1..Len(m) /\ n \in Nat /\ Len(m) \in Nat
    BY <1>1, <1>8, <2>3 DEF AccessOK, MessageHeld, MessageOK
  <2>5. ~(z <= n /\ n < Len(m))
    BY <1>1, <2>3 DEF MessageHeld, UnderWayAt, HalfStored
  <2>6. /\ n < z => Behind(apu', sent) /\ Quiet(apu')
        /\ n = Len(m) => There(apu', sent) \/ (Behind(apu', sent) /\ apu'.mode # "wait")
        /\ apu'.mode # "done" => \A k \in 1..n : apu'.in[m[k].port] = m[k].value
        /\ apu' \in Apus
    <3>1. CASE \E r \in Steps(apu) : apu' = r.apu
      <4>1. PICK r \in Steps(apu) : apu' = r.apu
        BY <3>1
      <4>2. PICK b : b = apu'
        OBVIOUS
      <4>3. b = r.apu /\ stage \in {"before", "after", "line"}
        BY <1>1, <4>1, <4>2
      <4>4. /\ n < z => Behind(b, sent) /\ Quiet(b)
            /\ n = Len(m) => There(b, sent)
            /\ b.mode # "done" => \A k \in 1..n : b.in[m[k].port] = m[k].value
        BY <2>2, <2>3, <4>3, Advances
      <4>5. b \in Apus
        BY <1>2, <4>1, <4>3, StepsType
      <4>6. QED
        BY <4>2, <4>4, <4>5
    <3>2. CASE ~\E r \in Steps(apu) : apu' = r.apu
      <4>1. (apu' = apu) /\ ~(pending.kick /\ apu.zone = "wait" /\ apu.in[0] = Kick)
        BY <1>5, <1>6, <3>2
      <4>2. ASSUME n < z PROVE Behind(apu, sent) /\ Quiet(apu)
        BY <2>3, <4>1, <4>2 DEF MessageHeld, UnderWayAt, Unsignalled, KickedOff, Waiting
      <4>3. ASSUME n = Len(m) PROVE There(apu, sent) \/ (Behind(apu, sent) /\ apu.mode # "wait")
        <5>1. Signalled
          BY <2>3, <4>3 DEF MessageHeld, UnderWayAt
        <5>2. ASSUME Behind(apu, sent), apu.mode = "wait" PROVE FALSE
          <6>1. pending.kick \/ There(apu, sent)
            BY <5>1, <5>2 DEF Signalled
          <6>2. ~There(apu, sent)
            BY <5>2 DEF There, Receiving
          <6>3. apu.zone = "wait" /\ sent.signal = Kick
            BY <1>2, <5>2, BehindIs
          <6>4. \A k \in 1..n : apu.in[m[k].port] = m[k].value
            BY <2>3, <5>2 DEF MessageHeld, UnderWayAt, Follows
          <6>5. z \in 1..n /\ m[z].port = 0 /\ m[z].value = sent.signal
            BY <2>3, <2>4, <4>3 DEF MessageHeld, MessageOK
          <6>6. apu.in[0] = Kick
            BY <6>3, <6>4, <6>5
          <6>7. QED
            BY <4>1, <6>1, <6>2, <6>3, <6>6
        <5>3. Behind(apu, sent) \/ There(apu, sent)
          BY <5>1 DEF Signalled
        <5>4. QED
          BY <5>2, <5>3
      <4>4. apu.mode # "done" => \A k \in 1..n : apu.in[m[k].port] = m[k].value
        BY <2>3 DEF MessageHeld, UnderWayAt, Follows
      <4>5. QED
        BY <1>2, <4>1, <4>2, <4>3, <4>4
    <3>3. QED
      BY <3>1, <3>2
  <2>7. Behind(apu', sent) => mdr' # sent.signal
    <3>1. PICK b : b = apu'
      OBVIOUS
    <3>2. b \in Apus
      BY <2>6, <3>1
    <3>3. Behind(b, sent) => b.out[0] # sent.signal
      BY <3>2, BehindIs
    <3>4. QED
      BY <1>1, <2>4, <3>1, <3>3
  <2>8. CASE There(apu', sent) /\ n = Len(m) /\ sent'.echoed
    <3>1. Len(todo) = 0
      BY <1>2, <1>3, <2>3, <2>4, <2>8 DEF MessageHeld, Made
    <3>2. todo = <<>>
      BY <3>1 DEF SentOK
    <3>3. There(apu', sent')
      BY <1>4, <2>8, SameMessage
    <3>4. QED
      BY <1>1, <1>3, <1>4, <2>2, <2>8, <3>2, <3>3 DEF Held, Rested
  <2>9. CASE ~(There(apu', sent) /\ n = Len(m) /\ sent'.echoed)
    <3>1. ~sent'.echoed
      <4>1. n < z \/ n = Len(m)
        BY <2>3, <2>4, <2>5 DEF MessageHeld
      <4>2. ASSUME n = Len(m) PROVE ~sent'.echoed
        BY <1>4, <1>8, <2>6, <2>7, <2>9, <4>2
      <4>3. ASSUME n < z PROVE ~sent'.echoed
        BY <1>4, <1>8, <2>6, <2>7, <4>3
      <4>4. QED
        BY <4>1, <4>2, <4>3
    <3>2. m = Message(sent', word) /\ z = SignalAt(m, word) /\ n = Made(m)'
      <4>1. Message(sent', word) = Message(sent, word)
        BY <1>4, SameMessage
      <4>2. QED
        BY <1>1, <1>3, <2>3, <4>1 DEF MessageHeld, Made
    <3>3. Follows(m, n)'
      BY <1>1, <1>3, <2>3, <2>6 DEF MessageHeld, UnderWayAt, Follows
    <3>4. n < z => Unsignalled(word)'
      <4>1. SUFFICES ASSUME n < z PROVE Unsignalled(word)'
        OBVIOUS
      <4>2. Behind(apu', sent') /\ Quiet(apu')
        BY <1>4, <2>6, <4>1, SameMessage
      <4>3. QED
        BY <4>2 DEF Unsignalled
    <3>5. n = Len(m) => Signalled'
      <4>1. SUFFICES ASSUME n = Len(m) PROVE Signalled'
        OBVIOUS
      <4>2. There(apu', sent') \/ (Behind(apu', sent') /\ apu'.mode # "wait")
        BY <1>4, <2>6, <4>1, SameMessage
      <4>3. QED
        BY <4>2 DEF Signalled
    <3>6. sent'.block = 1 /\ sent'.index = 0 => ~word
      BY <1>4, <2>3 DEF MessageHeld, UnderWayAt
    <3>7. UnderWayAt(word, m, n, z)'
      BY <2>5, <3>3, <3>4, <3>5, <3>6 DEF UnderWayAt
    <3>8. UnderWay(word)'
      BY <3>2, <3>7 DEF UnderWay
    <3>9. QED
      BY <1>4, <2>2, <3>1, <3>8 DEF Held
  <2>10. QED
    BY <2>8, <2>9
<1>9. QED
  BY <1>7, <1>8

\* A write that is made.
LEMMA WriteHeld ==
  ASSUME TypeOK, SentOK, SentTo, AccessOK, Held, WritePort \/ WriteDeferred,
         UNCHANGED <<todo, sent>>
  PROVE  Held'
<1>1. InAccess /\ ~InAccess' /\ apu' \in Written
  BY DEF WritePort, WriteDeferred, InAccess, AccessOK
<1>2. apu \in Apus /\ Len(todo) \in Nat /\ access.port \in Port /\ access.value \in Byte
  BY DEF TypeOK, SentOK
<1>3. CASE sent.echoed
  <2>1. Rested /\ Finished
    BY <1>1, <1>3 DEF Held, Rested
  <2>2. sent.block # 0 /\ sent.block > Len(Blocks)
    BY <2>1, BlocksShape DEF Finished
  <2>3. apu.mode = "done"
    BY <2>1, <2>2 DEF Rested, There
  <2>4. apu'.mode = "done"
    BY <1>1, <1>2, <2>3, WrittenDone
  <2>5. There(apu', sent)
    BY <2>2, <2>4 DEF There
  <2>6. QED
    BY <1>1, <1>3, <2>1, <2>2, <2>5 DEF Held, Rested
<1>4. CASE ~sent.echoed
  <2>1. PICK word \in BOOLEAN : UnderWay(word)
    BY <1>4 DEF Held
  <2>2. sent.block > 0
    BY <1>4 DEF Held
  <2>3. PICK m, n, z : MessageHeld(word, m, n, z)
    BY <2>1, <2>2, HoldsMessage
  <2>4. z \in 1..Len(m) /\ n \in Nat /\ Len(m) \in Nat /\ n < Len(m)
    BY <1>1, <2>3 DEF MessageHeld, MessageOK
  <2>5. PICK b \in Written : b = apu'
    BY <1>1
  <2>6. /\ \A k \in 1..(n + 1) : b.in[m[k].port] = m[k].value
        /\ Behind(b, sent) /\ b.mode # "done"
        /\ n + 1 < z => Quiet(b)
        /\ n + 1 = z => access.port = 0 /\ access.value = sent.signal
        /\ n + 1 = z /\ z < Len(m) => b.mode = "receive"
        /\ z <= n => n + 1 = Len(m) /\ stage = "at" /\ b.mode = "receive"
    BY <1>1, <2>2, <2>3, Writing
  <2>7. b \in Apus
    BY <1>2, <2>5, WrittenType
  <2>8. PICK k \in Nat : k = n + 1
    BY <2>4
  <2>9. m = Message(sent', word) /\ z = SignalAt(m, word) /\ k = Made(m)'
    BY <1>1, <1>2, <2>3, <2>4, <2>8 DEF MessageHeld, Made
  <2>10. Follows(m, k)'
    BY <1>1, <2>3, <2>4, <2>5, <2>6, <2>8 DEF MessageHeld, UnderWayAt, Follows
  <2>11. k < z => Unsignalled(word)'
    BY <2>5, <2>6, <2>8 DEF Unsignalled
  <2>12. z <= k /\ k < Len(m) => HalfStored'
    <3>1. SUFFICES ASSUME z <= k, k < Len(m) PROVE HalfStored'
      OBVIOUS
    <3>2. ~(z <= n) /\ n + 1 = z /\ z < Len(m)
      BY <2>4, <2>6, <2>8, <3>1
    <3>3. access.port = 0 /\ b.mode = "receive" /\ b.zone = "transfer"
      BY <2>6, <2>7, <3>2, BehindIs
    <3>4. WritePort
      BY <3>3 DEF WriteDeferred, AccessOK
    <3>5. pending'.strobe /\ stage' = "cpu"
      BY <2>5, <3>3, <3>4 DEF WritePort
    <3>6. QED
      BY <2>5, <2>6, <3>3, <3>5 DEF HalfStored
  <2>13. k = Len(m) => Signalled'
    <3>1. SUFFICES ASSUME k = Len(m) PROVE Signalled'
      OBVIOUS
    <3>2. ASSUME b.mode = "wait" PROVE pending'.kick
      <4>1. n + 1 = z
        BY <2>4, <2>6, <2>8, <3>1, <3>2
      <4>2. access.port = 0 /\ access.value = Kick /\ b.zone = "wait"
        BY <2>6, <2>7, <3>2, <4>1, BehindIs
      <4>3. KickAfter(b)
        BY <4>2 DEF KickAfter, Captured
      <4>4. QED
        BY <2>5, <4>3 DEF WritePort, WriteDeferred
    <3>3. QED
      BY <2>5, <2>6, <3>2 DEF Signalled
  <2>14. sent'.block = 1 /\ sent'.index = 0 => ~word
    BY <2>3 DEF MessageHeld, UnderWayAt
  <2>15. UnderWayAt(word, m, k, z)'
    BY <2>10, <2>11, <2>12, <2>13, <2>14 DEF UnderWayAt
  <2>16. UnderWay(word)'
    BY <2>9, <2>15 DEF UnderWay
  <2>17. QED
    BY <1>4, <2>2, <2>16 DEF Held
<1>5. QED
  BY <1>3, <1>4

-----------------------------------------------------------------------------
(* Steps that leave the APU alone, and what is sent next.                  *)

LEMMA UntouchedHeld ==
  ASSUME SentOK, SentTo, Held, UNCHANGED <<apu, pending, todo, sent>>, ~InAccess, ~InAccess',
         \A word \in BOOLEAN : \A m, n, z :
           MessageHeld(word, m, n, z) /\ z <= n /\ n < Len(m) => stage' \in {"cpu", "at"}
  PROVE  Held'
<1>1. CASE sent.echoed
  BY <1>1 DEF Held, Rested
<1>2. CASE ~sent.echoed
  <2>1. PICK word \in BOOLEAN : UnderWay(word)
    BY <1>2 DEF Held
  <2>2. sent.block > 0
    BY <1>2 DEF Held
  <2>3. PICK m, n, z : MessageHeld(word, m, n, z)
    BY <2>1, <2>2, HoldsMessage
  <2>4. m = Message(sent', word) /\ z = SignalAt(m, word) /\ n = Made(m)'
    BY <2>3 DEF MessageHeld, Made
  <2>5. Follows(m, n)'
    BY <2>3 DEF MessageHeld, UnderWayAt, Follows
  <2>6. (n < z => Unsignalled(word)') /\ (n = Len(m) => Signalled')
    BY <2>3 DEF MessageHeld, UnderWayAt, Unsignalled, Signalled
  <2>7. z <= n /\ n < Len(m) => HalfStored'
    BY <2>3 DEF MessageHeld, UnderWayAt, HalfStored
  <2>8. sent'.block = 1 /\ sent'.index = 0 => ~word
    BY <2>3 DEF MessageHeld, UnderWayAt
  <2>9. UnderWayAt(word, m, n, z)'
    BY <2>5, <2>6, <2>7, <2>8 DEF UnderWayAt
  <2>10. UnderWay(word)'
    BY <2>4, <2>9 DEF UnderWay
  <2>11. QED
    BY <1>2, <2>2, <2>10 DEF Held
<1>3. QED
  BY <1>1, <1>2

LEMMA CaughtUpHeld ==
  ASSUME SentOK, SentTo, Held, CaughtUp, UNCHANGED <<todo, sent>>
  PROVE  Held'
<1>1. UNCHANGED <<apu, pending, todo, sent>> /\ ~InAccess /\ ~InAccess' /\ stage' = "cpu"
  BY DEF CaughtUp, InAccess
<1>2. QED
  BY <1>1, UntouchedHeld

\* A line does not end within a store.
LEMMA LineEndsHeld ==
  ASSUME SentOK, SentTo, Held, LineEnds
  PROVE  Held'
<1>1. /\ UNCHANGED <<apu, pending, todo, sent>> /\ ~InAccess /\ ~InAccess'
      /\ ~(todo # <<>> /\ Head(todo).joined)
  BY DEF LineEnds, EndLine, Idle, InAccess
<1>2. ASSUME NEW word \in BOOLEAN, NEW m, NEW n, NEW z, MessageHeld(word, m, n, z), z <= n, n < Len(m)
      PROVE  FALSE
  <2>1. /\ z \in 1..Len(m) /\ Len(m) \in Nat /\ n \in Nat /\ Len(todo) \in Nat
        /\ n = Len(m) - Len(todo)
    BY <1>1, <1>2 DEF MessageHeld, MessageOK, Made
  <2>2. z < Len(m)
    BY <1>2, <2>1
  <2>3. z + 1 = Len(m) /\ m[Len(m)].joined
    BY <1>2, <2>2 DEF MessageHeld, MessageOK
  <2>4. Len(todo) = 1
    <3>1. PICK l \in Nat, t \in Nat : l = Len(m) /\ t = Len(todo)
      BY <2>1
    <3>2. n = l - t /\ z <= n /\ n < l /\ z + 1 = l
      BY <1>2, <2>1, <2>3, <3>1
    <3>3. QED
      BY <2>1, <3>1, <3>2
  <2>5. todo[1] = m[Len(m)]
    <3>1. todo[1] = m[Len(m) - Len(todo) + 1]
      BY <1>2, <2>4 DEF MessageHeld, UnderWayAt, Follows
    <3>2. Len(m) - Len(todo) + 1 = Len(m)
      BY <2>1, <2>4
    <3>3. QED
      BY <3>1, <3>2
  <2>6. todo # <<>> /\ Head(todo) = todo[1]
    BY <2>4 DEF SentOK
  <2>7. QED
    BY <1>1, <2>3, <2>5, <2>6
<1>3. QED
  BY <1>1, <1>2, UntouchedHeld

LEMMA PollHeld ==
  ASSUME SentOK, SentTo, Held, NEW c, Poll(c)
  PROVE  Held'
<1>1. /\ UNCHANGED <<apu, pending, todo, sent>> /\ ~InAccess /\ ~InAccess' /\ todo = <<>>
  BY DEF Poll, Begin, Idle, InAccess, Deferred
<1>2. ASSUME NEW word \in BOOLEAN, NEW m, NEW n, NEW z, MessageHeld(word, m, n, z), z <= n, n < Len(m)
      PROVE  FALSE
  <2>1. Len(m) \in Nat /\ n = Len(m) - Len(todo) /\ Len(todo) = 0
    BY <1>1, <1>2 DEF MessageHeld, MessageOK, Made
  <2>2. QED
    BY <1>2, <2>1
<1>3. QED
  BY <1>1, <1>2, UntouchedHeld

\* The second half of a store is not delayed, and nothing comes between.
LEMMA WriteNextHeld ==
  ASSUME TypeOK, SentOK, SentTo, Held, NEW c, WriteNext(c)
  PROVE  Held'
<1>1. /\ todo # <<>> /\ todo' = Tail(todo) /\ UNCHANGED <<sent, apu, pending>> /\ stage = "cpu"
      /\ access' = [op |-> "write", port |-> Head(todo).port, value |-> Head(todo).value,
                    deferred |-> Deferred("write", Head(todo).port)]
      /\ stage' = IF Deferred("write", Head(todo).port) THEN "at" ELSE "before"
  BY DEF WriteNext, Begin, Idle
<1>2. ~InAccess /\ InAccess'
  BY <1>1 DEF InAccess
<1>3. Len(todo) \in Nat /\ Len(todo) > 0 /\ Len(todo') = Len(todo) - 1 /\ Head(todo) = todo[1]
      /\ \A k \in 1..Len(todo') : todo'[k] = todo[k + 1]
  <2>1. todo \in Seq(Writes)
    BY DEF SentOK
  <2>2. QED
    BY <1>1, <2>1
<1>4. ~sent.echoed
  BY <1>1 DEF Held, Rested
<1>5. PICK word \in BOOLEAN : UnderWay(word)
  BY <1>4 DEF Held
<1>6. sent.block > 0
  BY <1>4 DEF Held
<1>7. PICK m, n, z : MessageHeld(word, m, n, z)
  BY <1>5, <1>6, HoldsMessage
<1>8. /\ z \in 1..Len(m) /\ Len(m) \in Nat /\ n \in Nat /\ n = Len(m) - Len(todo)
      /\ Len(todo) <= Len(m)
  BY <1>2, <1>7 DEF MessageHeld, MessageOK, Made, UnderWayAt, Follows
<1>9. m = Message(sent', word) /\ z = SignalAt(m, word) /\ n = Made(m)'
  BY <1>1, <1>2, <1>3, <1>7, <1>8 DEF MessageHeld, Made
<1>10. Head(todo) = m[n + 1]
  <2>1. todo[1] = m[Len(m) - Len(todo) + 1]
    BY <1>3, <1>7 DEF MessageHeld, UnderWayAt, Follows
  <2>2. QED
    BY <1>3, <1>8, <2>1
<1>11. Follows(m, n)'
  <2>1. Len(todo') <= Len(m)
    BY <1>3, <1>8
  <2>2. ASSUME NEW k \in 1..Len(todo') PROVE todo'[k] = m[Len(m) - Len(todo') + k]
    <3>1. k + 1 \in 1..Len(todo) /\ Len(m) - Len(todo) + (k + 1) = Len(m) - Len(todo') + k
      BY <1>3, <1>8
    <3>2. todo[k + 1] = m[Len(m) - Len(todo) + (k + 1)]
      BY <1>7, <3>1 DEF MessageHeld, UnderWayAt, Follows
    <3>3. QED
      BY <1>3, <3>1, <3>2
  <2>3. access'.port = m[n + 1].port /\ access'.value = m[n + 1].value
    BY <1>1, <1>10
  <2>4. QED
    BY <1>1, <1>7, <2>1, <2>2, <2>3 DEF MessageHeld, UnderWayAt, Follows
<1>12. n < z => Unsignalled(word)'
  BY <1>1, <1>7 DEF MessageHeld, UnderWayAt, Unsignalled
<1>13. n < Len(m)
  BY <1>3, <1>8
<1>14. z <= n => HalfStored'
  <2>1. SUFFICES ASSUME z <= n PROVE HalfStored'
    OBVIOUS
  <2>2. HalfStored
    BY <1>7, <1>13, <2>1 DEF MessageHeld, UnderWayAt
  <2>3. apu.zone = "transfer" /\ pending.strobe
    BY <2>2, BehindIs DEF HalfStored, TypeOK
  <2>4. n + 1 # z /\ n + 1 \in 1..Len(m)
    BY <1>8, <1>13, <2>1
  <2>5. Head(todo).port # 0
    BY <1>7, <1>10, <2>4 DEF MessageHeld, MessageOK
  <2>6. stage' = "at"
    BY <1>1, <2>3, <2>5, Zenon DEF Deferred
  <2>7. QED
    BY <1>1, <2>2, <2>6 DEF HalfStored
<1>15. n # Len(m)
  BY <1>8, <1>13
<1>16. sent'.block = 1 /\ sent'.index = 0 => ~word
  BY <1>1, <1>7 DEF MessageHeld, UnderWayAt
<1>17. UnderWayAt(word, m, n, z)'
  BY <1>11, <1>12, <1>14, <1>15, <1>16 DEF UnderWayAt
<1>18. UnderWay(word)'
  BY <1>9, <1>17 DEF UnderWay
<1>19. QED
  BY <1>1, <1>4, <1>6, <1>18 DEF Held

\* A new message, of which nothing is written.
LEMMA Sends ==
  ASSUME stage = "cpu", UNCHANGED vars, NEW word \in BOOLEAN,
         sent' \in Progress, sent'.block \in 1..(Len(Blocks) + 1),
         sent'.index \in 0..Len(BytesOf(sent'.block)),
         todo' = Message(sent', word), ~sent'.echoed,
         sent'.block = 1 /\ sent'.index = 0 => ~word, Unsignalled(word)'
  PROVE  Held'
<1>1. PICK m : m = Message(sent', word)
  OBVIOUS
<1>2. PICK z : z = SignalAt(m, word)
  OBVIOUS
<1>3. MessageOK(m, z, sent', word)
  <2>1. PICK s \in Progress : s = sent'
    OBVIOUS
  <2>2. s.block \in 1..(Len(Blocks) + 1) /\ s.index \in 0..Len(BytesOf(s.block)) /\ m = Message(s, word)
    BY <1>1, <2>1
  <2>3. QED
    BY <1>2, <2>1, <2>2, MessageIs
<1>4. z \in 1..Len(m) /\ Len(m) \in Nat
  BY <1>3 DEF MessageOK
<1>5. ~InAccess'
  BY DEF InAccess, vars
<1>6. Made(m)' = 0
  <2>1. todo' = m
    BY <1>1
  <2>2. Made(m)' = Len(m) - Len(m) - 0
    BY <1>5, <2>1, Zenon DEF Made
  <2>3. QED
    BY <1>4, <2>2
<1>7. Follows(m, 0)'
  <2>1. todo' = m
    BY <1>1
  <2>2. \A k \in 1..Len(m) : Len(m) - Len(m) + k = k
    BY <1>4
  <2>3. 1..0 = {} /\ 0 \in 0..Len(m)
    BY <1>4
  <2>4. QED
    BY <1>4, <1>5, <2>1, <2>2, <2>3 DEF Follows
<1>8. UnderWayAt(word, m, 0, z)'
  <2>1. ~(z <= 0) /\ 0 # Len(m)
    BY <1>4
  <2>2. QED
    BY <1>7, <2>1 DEF UnderWayAt
<1>9. UnderWay(word)'
  BY <1>1, <1>2, <1>6, <1>8 DEF UnderWay
<1>10. sent'.block > 0
  BY BlocksShape
<1>11. QED
  BY <1>9, <1>10 DEF Held

LEMMA SentNext ==
  ASSUME sent \in Progress, NEW b \in Nat, NEW i \in Nat, NEW s \in Byte,
         sent' = [sent EXCEPT !.block = b, !.index = i, !.signal = s, !.echoed = FALSE]
  PROVE  /\ sent' \in Progress /\ sent'.block = b /\ sent'.index = i /\ sent'.signal = s
         /\ ~sent'.echoed
BY DEF Progress

LEMMA NoBlock == BytesOf(0) = <<>> /\ Len(BytesOf(0)) = 0
<1>1. 0 \notin DOMAIN Blocks
  BY BlocksShape
<1>2. QED
  BY <1>1 DEF BytesOf

\* The index of a byte is not the index of the one before it.
LEMMA SignalsDiffer ==
  ASSUME NEW i \in Nat, i > 0
  PROVE  i % Bytes # (i - 1) % Bytes
<1>1. PICK S \in Nat : S = Bytes /\ S > 1
  BY BlocksShape
<1>2. PICK a : a = (i - 1) % S
  OBVIOUS
<1>3. a \in 0..(S - 1)
  BY <1>1, <1>2
<1>4. (a + 1) % S = i % S
  <2>1. PICK j \in Int : j = i - 1
    OBVIOUS
  <2>2. S \in Nat /\ S > 0 /\ 1 \in Int
    BY <1>1
  <2>3. ((j % S) + 1) % S = (j + 1) % S
    BY <2>1, <2>2, RemainderPlus, Zenon
  <2>4. j + 1 = i
    BY <2>1
  <2>5. QED
    BY <1>2, <2>1, <2>3, <2>4
<1>5. (a + 1) % S # a
  <2>1. CASE a + 1 < S
    <3>1. (a + 1) % S = a + 1
      BY <1>1, <1>3, <2>1
    <3>2. QED
      BY <1>3, <3>1
  <2>2. CASE a + 1 = S
    <3>1. S % S = 0
      BY <1>1
    <3>2. QED
      BY <1>1, <2>2, <3>1
  <2>3. QED
    BY <1>1, <1>3, <2>1, <2>2
<1>6. QED
  BY <1>1, <1>2, <1>4, <1>5

\* The block that is sent next: its fields, and that they are in range.
LEMMA SendBlockSent ==
  ASSUME SentOK, SentTo, NEW s \in Byte, NEW word, SendBlock(s, word)
  PROVE  /\ sent' \in Progress /\ sent'.block = sent.block + 1 /\ sent'.index = 0
         /\ sent'.signal = s /\ ~sent'.echoed
         /\ sent.block \in 0..Len(Blocks) /\ s # 0
         /\ sent'.block \in 1..(Len(Blocks) + 1) /\ sent'.index \in 0..Len(BytesOf(sent'.block))
<1>1. sent \in Progress /\ sent.block \in Nat /\ sent.block \in 0..(Len(Blocks) + 1)
  BY DEF SentOK, SentTo, Progress
<1>2. sent.block \in 0..Len(Blocks)
  BY <1>1, BlocksShape DEF SendBlock, Acknowledged, Finished
<1>3. s # 0
  BY BlocksShape DEF SendBlock
<1>4. PICK b \in Nat : b = sent.block + 1
  BY <1>1
<1>5. sent' = [sent EXCEPT !.block = b, !.index = 0, !.signal = s, !.echoed = FALSE]
  BY <1>4, Zenon DEF SendBlock
<1>6. 0 \in Nat
  OBVIOUS
<1>7. /\ sent' \in Progress /\ sent'.block = b /\ sent'.index = 0 /\ sent'.signal = s
      /\ ~sent'.echoed
  BY <1>1, <1>5, <1>6, SentNext
<1>8. Len(BytesOf(b)) \in Nat
  <2>1. BytesOf(b) \in Seq(Byte)
    BY BlockAt
  <2>2. QED
    BY <2>1
<1>9. QED
  BY <1>2, <1>3, <1>4, <1>7, <1>8, BlocksShape

LEMMA SendBlockHeld ==
  ASSUME TypeOK, SentOK, SentTo, Held, NEW s \in Byte, NEW word \in BOOLEAN, SendBlock(s, word)
  PROVE  Held'
<1>1. /\ sent' \in Progress /\ sent'.block = sent.block + 1 /\ sent'.index = 0
      /\ sent'.signal = s /\ ~sent'.echoed
      /\ sent.block \in 0..Len(Blocks)
      /\ sent'.block \in 1..(Len(Blocks) + 1) /\ sent'.index \in 0..Len(BytesOf(sent'.block))
  BY SendBlockSent
<1>2. /\ stage = "cpu" /\ UNCHANGED vars /\ sent.echoed /\ sent.index = Len(BytesOf(sent.block))
      /\ IF sent.block = 0 THEN s = Kick /\ ~word ELSE s \notin {0, sent.signal, sent.index % Bytes}
  BY DEF SendBlock, Acknowledged, Idle
<1>3. todo' = Message(sent', word)
  <2>1. sent'.block <= Len(Blocks) <=> sent.block < Len(Blocks)
    BY <1>1, BlocksShape
  <2>2. QED
    BY <1>1, <2>1 DEF SendBlock, Message
<1>4. apu' = apu
  BY <1>2 DEF vars
<1>5. Rested
  BY <1>2 DEF Held
<1>6. Behind(apu, sent') /\ Quiet(apu)
  <2>1. CASE sent.block = 0
    <3>1. Waiting(apu) /\ Quiet(apu) /\ apu.mode = "wait"
      BY <1>5, <2>1 DEF Rested, Waiting
    <3>2. sent'.block = 1 /\ ~(sent'.index > 0) /\ sent'.signal = Kick
      BY <1>1, <1>2, <2>1
    <3>3. QED
      BY <3>1, <3>2 DEF Behind
  <2>2. CASE sent.block # 0
    <3>1. sent.block <= Len(Blocks) /\ ~(sent.block > Len(Blocks)) /\ sent'.block # 1
          /\ sent'.block - 1 = sent.block /\ ~(sent'.index > 0)
      BY <1>1, <2>2, BlocksShape
    <3>2. /\ Receiving(apu, sent.block, sent.index) /\ apu.last = sent.signal
          /\ apu.in[0] = sent.signal
      BY <1>5, <2>2, <3>1 DEF Rested, There
    <3>3. apu.mode = "receive" /\ apu.expected = sent.index % Bytes
      BY <3>2 DEF Receiving
    <3>4. s # apu.last /\ s # apu.expected
      BY <1>2, <2>2, <3>2, <3>3
    <3>5. Receiving(apu, sent'.block - 1, Len(BytesOf(sent'.block - 1)))
      BY <1>2, <3>1, <3>2
    <3>6. QED
      BY <1>1, <3>1, <3>2, <3>3, <3>4, <3>5 DEF Behind, Quiet
  <2>3. QED
    BY <2>1, <2>2
<1>7. Unsignalled(word)'
  BY <1>4, <1>6 DEF Unsignalled
<1>8. sent'.block = 1 /\ sent'.index = 0 => ~word
  <2>1. sent'.block = 1 => sent.block = 0
    BY <1>1, BlocksShape
  <2>2. QED
    BY <1>2, <2>1
<1>9. QED
  BY <1>1, <1>2, <1>3, <1>7, <1>8, Sends

LEMMA NextByteSent ==
  ASSUME SentOK, SentTo, NEW word, sent.index < Len(BytesOf(sent.block)), Next8(word)
  PROVE  /\ sent' \in Progress /\ sent'.block = sent.block /\ sent'.index = sent.index + 1
         /\ sent'.signal = sent.index % Bytes /\ ~sent'.echoed
         /\ sent.block \in DOMAIN Blocks /\ sent.block \in 1..(Len(Blocks) + 1)
         /\ sent'.index \in 0..Len(BytesOf(sent'.block)) /\ sent'.index - 1 = sent.index
         /\ sent'.index > 0 /\ todo' = Message(sent', word)
<1>1. sent \in Progress /\ sent.block \in Nat /\ sent.index \in Nat
  BY DEF SentOK, Progress
<1>2. BytesOf(sent.block) \in Seq(Byte)
  BY <1>1, BlockAt
<1>3. Len(BytesOf(sent.block)) \in Nat
  BY <1>2
<1>4. sent.block \in DOMAIN Blocks
  <2>1. SUFFICES ASSUME sent.block \notin DOMAIN Blocks PROVE FALSE
    OBVIOUS
  <2>2. BytesOf(sent.block) = <<>>
    BY <2>1 DEF BytesOf
  <2>3. QED
    BY <1>1, <2>2
<1>5. PICK b \in Nat : b = sent.block
  BY <1>1
<1>6. PICK i \in Nat : i = sent.index + 1
  BY <1>1
<1>7. PICK s \in Byte : s = sent.index % Bytes
  BY <1>1, RemainderByte
<1>8. sent' = [sent EXCEPT !.block = b, !.index = i, !.signal = s, !.echoed = FALSE]
  <2>1. sent' = [sent EXCEPT !.index = i, !.signal = s, !.echoed = FALSE]
    BY <1>6, <1>7, Zenon DEF Next8
  <2>2. QED
    BY <1>1, <1>5, <2>1 DEF Progress
<1>9. /\ sent' \in Progress /\ sent'.block = b /\ sent'.index = i /\ sent'.signal = s
      /\ ~sent'.echoed
  BY <1>1, <1>8, SentNext
<1>10. todo' = Message(sent', word)
  <2>1. todo' = Data(s, BytesOf(b)[i], word)
    BY <1>5, <1>6, <1>7, Zenon DEF Next8
  <2>2. i # 0
    BY <1>1, <1>6
  <2>3. QED
    BY <1>9, <2>1, <2>2, Zenon DEF Message
<1>11. i \in 0..Len(BytesOf(b)) /\ i - 1 = sent.index /\ i > 0
  BY <1>1, <1>3, <1>5, <1>6
<1>12. sent.block \in 1..(Len(Blocks) + 1)
  BY <1>4, BlocksShape
<1>13. QED
  BY <1>4, <1>5, <1>6, <1>7, <1>9, <1>10, <1>11, <1>12

LEMMA SendByteHeld ==
  ASSUME TypeOK, SentOK, SentTo, Held, NEW word \in BOOLEAN, SendByte(word)
  PROVE  Held'
<1>1. /\ stage = "cpu" /\ sent.echoed /\ sent.index < Len(BytesOf(sent.block)) /\ Next8(word)
      /\ UNCHANGED vars
  BY DEF SendByte, Acknowledged, Idle, Next8
<1>2. /\ sent' \in Progress /\ sent'.block = sent.block /\ sent'.index = sent.index + 1
      /\ sent'.signal = sent.index % Bytes /\ ~sent'.echoed
      /\ sent.block \in DOMAIN Blocks /\ sent.block \in 1..(Len(Blocks) + 1)
      /\ sent'.index \in 0..Len(BytesOf(sent'.block)) /\ sent'.index - 1 = sent.index
      /\ sent'.index > 0 /\ todo' = Message(sent', word)
  BY <1>1, NextByteSent
<1>3. sent.block # 0 /\ ~(sent.block > Len(Blocks)) /\ sent.index \in Nat
  BY <1>2, BlocksShape DEF SentOK, Progress
<1>4. apu' = apu
  BY <1>1 DEF vars
<1>5. /\ Receiving(apu, sent.block, sent.index) /\ apu.last = sent.signal
      /\ apu.in[0] = sent.signal
  BY <1>1, <1>3 DEF Held, Rested, There
<1>6. apu.mode = "receive" /\ apu.expected = sent.index % Bytes
  BY <1>5 DEF Receiving
<1>7. sent.index % Bytes # sent.signal
  <2>1. IF sent.index = 0 THEN sent.signal # 0 ELSE sent.signal = (sent.index - 1) % Bytes
    BY <1>2, BlocksShape DEF SentTo, SignalOK
  <2>2. CASE sent.index = 0
    <3>1. 0 % Bytes = 0
      BY BlocksShape
    <3>2. QED
      BY <2>1, <2>2, <3>1
  <2>3. CASE sent.index # 0
    <3>1. PICK i \in Nat : i = sent.index /\ i > 0
      BY <1>3, <2>3
    <3>2. i % Bytes # (i - 1) % Bytes
      BY <3>1, SignalsDiffer
    <3>3. QED
      BY <2>1, <2>3, <3>1, <3>2
  <2>4. QED
    BY <2>2, <2>3
<1>8. Behind(apu, sent') /\ Quiet(apu)
  BY <1>2, <1>5, <1>6, <1>7 DEF Behind, Quiet
<1>9. Unsignalled(word)'
  BY <1>4, <1>8 DEF Unsignalled
<1>10. ~(sent'.block = 1 /\ sent'.index = 0) /\ sent'.block \in 1..(Len(Blocks) + 1)
  BY <1>2
<1>11. QED
  BY <1>1, <1>2, <1>9, <1>10, Sends

\* The first byte may be sent while the kick is pending.
LEMMA SendAtOnceHeld ==
  ASSUME TypeOK, SentOK, SentTo, Held, SendAtOnce
  PROVE  Held'
<1>1. /\ stage = "cpu" /\ todo = <<>> /\ ~sent.echoed /\ sent.block = 1 /\ sent.index = 0
      /\ BytesOf(1) # <<>> /\ Next8(TRUE) /\ UNCHANGED vars
  BY DEF SendAtOnce, Idle, Next8
<1>2. sent.index < Len(BytesOf(sent.block))
  <2>1. BytesOf(1) \in Seq(Byte)
    BY BlockAt
  <2>2. Len(BytesOf(1)) > 0
    BY <1>1, <2>1
  <2>3. QED
    BY <1>1, <2>2
<1>3. /\ sent' \in Progress /\ sent'.block = sent.block /\ sent'.index = sent.index + 1
      /\ sent'.signal = sent.index % Bytes /\ ~sent'.echoed
      /\ sent.block \in DOMAIN Blocks /\ sent.block \in 1..(Len(Blocks) + 1)
      /\ sent'.index \in 0..Len(BytesOf(sent'.block)) /\ sent'.index - 1 = sent.index
      /\ sent'.index > 0 /\ todo' = Message(sent', TRUE)
  BY <1>1, <1>2, NextByteSent
<1>4. sent'.block = 1 /\ sent'.index = 1 /\ sent'.signal = 0 /\ 0 % Bytes = 0
  BY <1>1, <1>3, BlocksShape
<1>5. apu' = apu /\ pending' = pending
  BY <1>1 DEF vars
<1>6. PICK word \in BOOLEAN : UnderWay(word)
  BY <1>1 DEF Held
<1>7. sent.block > 0
  BY <1>1
<1>8. PICK m, n, z : MessageHeld(word, m, n, z)
  BY <1>6, <1>7, HoldsMessage
<1>9. n = Len(m)
  <2>1. ~InAccess /\ Len(todo) = 0
    BY <1>1 DEF InAccess
  <2>2. Len(m) \in Nat
    BY <1>8 DEF MessageHeld, MessageOK
  <2>3. n = Len(m) - Len(todo) - 0
    BY <1>8, <2>1, Zenon DEF MessageHeld, Made
  <2>4. QED
    BY <2>1, <2>2, <2>3
<1>10. Signalled
  BY <1>8, <1>9 DEF MessageHeld, UnderWayAt
<1>11. Unsignalled(TRUE)'
  <2>1. CASE There(apu, sent)
    <3>1. ~(sent.block > Len(Blocks))
      BY <1>3, BlocksShape
    <3>2. /\ Receiving(apu, 1, 0) /\ apu.last = sent.signal /\ apu.in[0] = sent.signal
      BY <1>1, <2>1, <3>1 DEF There
    <3>3. sent.signal # 0
      BY <1>1, <1>7 DEF SentTo, SignalOK
    <3>4. apu.mode = "receive" /\ apu.expected = 0
      BY <1>4, <3>2 DEF Receiving
    <3>5. Behind(apu, sent') /\ Quiet(apu)
      BY <1>3, <1>4, <1>1, <3>2, <3>3, <3>4 DEF Behind, Quiet
    <3>6. QED
      BY <1>5, <3>5 DEF Unsignalled
  <2>2. CASE ~There(apu, sent)
    <3>1. Behind(apu, sent) /\ (apu.mode = "wait" => pending.kick)
      BY <1>10, <2>2 DEF Signalled
    <3>2. Waiting(apu) /\ apu.mode = "wait" /\ sent.signal = Kick /\ pending.kick
      <4>1. Waiting(apu)
        BY <1>1, <3>1 DEF Behind
      <4>2. apu.mode = "wait"
        BY <4>1 DEF Waiting
      <4>3. QED
        BY <3>1, <4>1, <4>2 DEF Behind
    <3>3. \A k \in 1..n : apu.in[m[k].port] = m[k].value
      BY <1>8, <3>2 DEF MessageHeld, UnderWayAt, Follows
    <3>4. Shown(apu, sent)
      BY <1>7, <1>8, <1>9, <3>3, BlockSent, AllShown DEF MessageHeld
    <3>5. 1 <= Len(Blocks)
      BY <1>1, <1>3, BlocksShape
    <3>6. KickedOff(apu)
      BY <1>1, <3>2, <3>4, <3>5 DEF KickedOff, Shown
    <3>7. QED
      BY <1>4, <1>5, <3>2, <3>6 DEF Unsignalled
  <2>3. QED
    BY <2>1, <2>2
<1>12. ~(sent'.block = 1 /\ sent'.index = 0) /\ sent'.block \in 1..(Len(Blocks) + 1)
  BY <1>3, <1>4
<1>13. TRUE \in BOOLEAN
  OBVIOUS
<1>14. QED
  BY <1>1, <1>3, <1>11, <1>12, <1>13, Sends

\* After the jump nothing is sent any more.
LEMMA TalkHeld ==
  ASSUME TypeOK, SentOK, SentTo, Held, NEW c, Talk(c)
  PROVE  Held'
<1>1. Finished /\ todo' = todo /\ sent' = [sent EXCEPT !.free = @ + 1]
      /\ \E p \in {0, 1} :
           \/ Begin("read", p, 0, c) \/ DmaRead(p, c)
           \/ \E v \in FreeBytes : Begin("write", p, v, c) \/ DmaWrite(p, v, c)
  BY DEF Talk
<1>2. sent'.block = sent.block /\ sent'.echoed /\ sent.echoed
  BY <1>1 DEF SentOK, Progress, Finished
<1>3. Finished' /\ sent.block > Len(Blocks) /\ sent.block # 0
  BY <1>1, <1>2, BlocksShape DEF Finished
<1>4. apu.mode = "done" /\ todo = <<>>
  BY <1>2, <1>3 DEF Held, Rested, There
<1>5. apu'.mode = "done"
  <2>1. apu' = apu \/ \E p, v : apu' = [apu EXCEPT !.in[p] = v]
    BY <1>1 DEF Begin, DmaRead, DmaWrite
  <2>2. ASSUME NEW p, NEW v, apu' = [apu EXCEPT !.in[p] = v] PROVE apu'.mode = apu.mode
    <3> DEFINE i == [apu.in EXCEPT ![p] = v]
    <3>1. apu' = [apu EXCEPT !.in = i]
      BY <2>2, Zenon
    <3> HIDE DEF i
    <3>2. QED
      BY <3>1 DEF TypeOK, Apus
  <2>3. QED
    BY <1>4, <2>1, <2>2
<1>6. There(apu', sent')
  BY <1>2, <1>3, <1>5 DEF There
<1>7. QED
  BY <1>1, <1>2, <1>3, <1>4, <1>6 DEF Held, Rested

-----------------------------------------------------------------------------
(* The upload is faithful.                                                 *)

LEMMA AccessKeeps ==
  ASSUME SentOK, AccessOK, [UploadNext]_allVars
  PROVE  AccessOK'
<1>1. ASSUME NEW s \in Byte, NEW word \in BOOLEAN, SendBlock(s, word) PROVE AccessOK'
  BY <1>1 DEF SendBlock, Acknowledged, Idle, AccessOK, vars, NoAccess
<1>2. ASSUME NEW word \in BOOLEAN, Next8(word), stage = "cpu" PROVE AccessOK'
  BY <1>2 DEF Next8, AccessOK, vars, NoAccess
<1>3. ASSUME NEW op, NEW p, NEW v, NEW c, Begin(op, p, v, c),
             ~sent'.echoed => op # "read" \/ p = 0
      PROVE  AccessOK'
  BY <1>3 DEF Begin, AccessOK, Deferred
<1>4. ASSUME NEW c, WriteNext(c) PROVE AccessOK'
  BY <1>3, <1>4 DEF WriteNext
<1>5. ASSUME NEW c, Poll(c) PROVE AccessOK'
  BY <1>3, <1>5 DEF Poll
<1>6. CASE Polled
  BY <1>6 DEF Polled, ReadPort, AccessOK, NoAccess
<1>7. CASE Answer
  <2>1. sent' = sent
    BY <1>7 DEF Answer
  <2>2. CASE ApuStep
    <3>1. UNCHANGED <<stage, access>>
      BY <2>2 DEF ApuStep
    <3>2. QED
      BY <2>1, <3>1 DEF AccessOK
  <2>3. CASE WriteDeferred
    <3>1. stage' = "after" /\ access' = access
      BY <2>3 DEF WriteDeferred
    <3>2. QED
      BY <2>1, <3>1 DEF AccessOK
  <2>4. CASE WritePort \/ CaughtUp
    <3>1. stage' = "cpu" /\ access' = NoAccess
      BY <2>4 DEF WritePort, CaughtUp
    <3>2. QED
      BY <3>1 DEF AccessOK, NoAccess
  <2>5. QED
    BY <1>7, <2>2, <2>3, <2>4 DEF Answer
<1>8. CASE LineEnds
  BY <1>8 DEF LineEnds, EndLine, Idle, AccessOK
<1>9. ASSUME NEW c, Talk(c) PROVE AccessOK'
  <2>1. sent'.echoed
    BY <1>9 DEF Talk, SentOK, Progress, Finished
  <2>2. CASE \E p, v, op : Begin(op, p, v, c)
    BY <1>3, <2>1, <2>2
  <2>3. CASE \E p, v : DmaRead(p, c) \/ DmaWrite(p, v, c)
    BY <2>1, <2>3 DEF DmaRead, DmaWrite, AccessOK
  <2>4. QED
    BY <1>9, <2>2, <2>3 DEF Talk
<1>10. CASE SendAtOnce
  <2>1. Next8(TRUE) /\ stage = "cpu" /\ TRUE \in BOOLEAN
    BY <1>10 DEF SendAtOnce, Idle
  <2>2. QED
    BY <1>2, <2>1
<1>11. ASSUME NEW word \in BOOLEAN, SendByte(word) PROVE AccessOK'
  BY <1>2, <1>11 DEF SendByte, Acknowledged, Idle
<1>12. CASE UNCHANGED allVars
  BY <1>12 DEF allVars, vars, AccessOK
<1>13. QED
  BY <1>1, <1>4, <1>5, <1>6, <1>7, <1>8, <1>9, <1>10, <1>11, <1>12 DEF UploadNext, Upload

LEMMA SentToKeeps ==
  ASSUME SentOK, SentTo, [UploadNext]_allVars
  PROVE  SentTo'
<1>1. ASSUME NEW s \in Byte, NEW word \in BOOLEAN, SendBlock(s, word) PROVE SentTo'
  <2>1. /\ sent'.block = sent.block + 1 /\ sent'.index = 0 /\ sent'.signal = s /\ s # 0
        /\ sent'.block \in 1..(Len(Blocks) + 1) /\ sent'.index \in 0..Len(BytesOf(sent'.block))
    BY <1>1, SendBlockSent
  <2>2. QED
    BY <2>1, BlocksShape DEF SentTo, SignalOK
<1>2. ASSUME NEW word, sent.index < Len(BytesOf(sent.block)), Next8(word) PROVE SentTo'
  <2>1. /\ sent'.block = sent.block /\ sent'.signal = sent.index % Bytes
        /\ sent.block \in 1..(Len(Blocks) + 1) /\ sent'.index > 0
        /\ sent'.index \in 0..Len(BytesOf(sent'.block)) /\ sent'.index - 1 = sent.index
    BY <1>2, NextByteSent
  <2>2. QED
    BY <2>1, BlocksShape DEF SentTo, SignalOK
<1>3. ASSUME sent'.block = sent.block, sent'.index = sent.index, sent'.signal = sent.signal
      PROVE  SentTo'
  BY <1>3 DEF SentTo, SignalOK
<1>4. CASE Polled \/ \E c \in AccessClocks : Talk(c)
  BY <1>3, <1>4 DEF Polled, Talk, SentOK, Progress
<1>5. CASE Answer \/ LineEnds \/ \E c \in AccessClocks : WriteNext(c) \/ Poll(c)
  BY <1>3, <1>5 DEF Answer, LineEnds, WriteNext, Poll
<1>6. CASE SendAtOnce
  <2>1. BytesOf(1) \in Seq(Byte)
    BY BlockAt
  <2>2. Len(BytesOf(1)) > 0
    BY <1>6, <2>1 DEF SendAtOnce
  <2>3. QED
    BY <1>2, <1>6, <2>2 DEF SendAtOnce
<1>7. ASSUME NEW word, SendByte(word) PROVE SentTo'
  BY <1>2, <1>7 DEF SendByte
<1>8. CASE UNCHANGED allVars
  BY <1>3, <1>8 DEF allVars
<1>9. QED
  BY <1>1, <1>4, <1>5, <1>6, <1>7, <1>8 DEF UploadNext, Upload

LEMMA StutterHeld ==
  ASSUME Held, UNCHANGED allVars
  PROVE  Held'
BY DEF allVars, vars, Held, Rested, UnderWay, UnderWayAt, Follows, Made, InAccess, Unsignalled,
       HalfStored, Signalled, Finished

LEMMA HeldKeeps ==
  ASSUME TypeOK, SentOK, UploadInv, [UploadNext]_allVars
  PROVE  Held'
<1>0. SentTo /\ AccessOK /\ Held
  BY DEF UploadInv
<1>1. ASSUME NEW word \in BOOLEAN, SendByte(word) PROVE Held'
  BY <1>0, <1>1, SendByteHeld
<1>2. ASSUME NEW s \in Byte, NEW word \in BOOLEAN, SendBlock(s, word) PROVE Held'
  BY <1>0, <1>2, SendBlockHeld
<1>3. ASSUME NEW c, WriteNext(c) PROVE Held'
  BY <1>0, <1>3, WriteNextHeld
<1>4. ASSUME NEW c, Poll(c) PROVE Held'
  BY <1>0, <1>4, PollHeld
<1>5. CASE Polled
  BY <1>0, <1>5, PolledHeld
<1>6. CASE Answer
  BY <1>0, <1>6, ApuStepHeld, WriteHeld, CaughtUpHeld DEF Answer
<1>7. CASE SendAtOnce
  BY <1>0, <1>7, SendAtOnceHeld
<1>8. CASE LineEnds
  BY <1>0, <1>8, LineEndsHeld
<1>9. ASSUME NEW c, Talk(c) PROVE Held'
  BY <1>0, <1>9, TalkHeld
<1>10. CASE UNCHANGED allVars
  BY <1>0, <1>10, StutterHeld
<1>11. QED
  BY <1>1, <1>2, <1>3, <1>4, <1>5, <1>6, <1>7, <1>8, <1>9, <1>10 DEF UploadNext, Upload

LEMMA UploadBegins == UploadInit => UploadInv
<1> SUFFICES ASSUME UploadInit PROVE UploadInv
  OBVIOUS
<1>1. /\ todo = <<>> /\ sent.block = 0 /\ sent.index = 0 /\ sent.echoed
      /\ stage = "cpu" /\ access = NoAccess
  BY DEF UploadInit, Init
<1>2. /\ apu.mode = "wait" /\ apu.zone = "wait" /\ apu.halted = "no" /\ apu.out[0] = ReadyA
      /\ apu.in[0] = 0 /\ \A x \in Addr : apu.ram[x] = 0
  BY DEF UploadInit, Init, Port
<1>3. Waiting(apu) /\ Quiet(apu)
  BY <1>2, BlocksShape DEF Waiting, Quiet
<1>4. AccessOK
  BY <1>1 DEF AccessOK
<1>5. SentTo
  BY <1>1, NoBlock, BlocksShape DEF SentTo, SignalOK
<1>6. ~InAccess
  BY <1>1 DEF InAccess
<1>7. Held
  BY <1>1, <1>3, <1>6 DEF Held, Rested
<1>8. QED
  BY <1>4, <1>5, <1>7 DEF UploadInv

LEMMA HeldIsFaithful == UploadInv => UploadFaithful
<1> SUFFICES ASSUME UploadInv PROVE UploadFaithful
  OBVIOUS
<1>1. SUFFICES ASSUME Acknowledged
               PROVE  /\ ~Finished => Holds(apu.ram, sent.block, sent.index)
                      /\ InStep
  BY DEF UploadFaithful, RamAsSent, InStep
<1>2. sent.echoed /\ Rested /\ sent.block \in Nat
  BY <1>1, BlocksShape DEF UploadInv, Held, Acknowledged, SentTo
<1>3. CASE sent.block = 0
  <2>1. sent.index = 0 /\ Waiting(apu)
    BY <1>2, <1>3, NoBlock DEF UploadInv, SentTo, Rested
  <2>2. 1..0 = {}
    OBVIOUS
  <2>3. Holds(apu.ram, 0, 0)
    BY <2>1, <2>2 DEF Holds, Waiting
  <2>4. QED
    BY <1>3, <2>1, <2>3 DEF InStep
<1>4. CASE sent.block > 0 /\ sent.block <= Len(Blocks)
  <2>1. ~(sent.block > Len(Blocks)) /\ sent.block # 0
    BY <1>2, <1>4, BlocksShape
  <2>2. Receiving(apu, sent.block, sent.index)
    BY <1>2, <2>1 DEF Rested, There
  <2>3. QED
    BY <2>1, <2>2 DEF Receiving, InStep
<1>5. CASE sent.block > Len(Blocks)
  <2>1. sent.block # 0 /\ Finished
    BY <1>2, <1>5, BlocksShape DEF Finished
  <2>2. apu.mode = "done"
    BY <1>2, <1>5, <2>1 DEF Rested, There
  <2>3. QED
    BY <1>5, <2>1, <2>2 DEF InStep
<1>6. QED
  BY <1>2, <1>3, <1>4, <1>5, BlocksShape

\* An acknowledgement means what the sender takes it for, and what was acknowledged is in
\* memory (step_ipl_hle, write), for any upload, any clock ratio and costs, and wherever
\* the APU is caught up in between.
THEOREM UploadFaithfulHolds == UploadSpec => []UploadFaithful
<1>1. UploadSpec => []TypeOK
  BY UploadIsAProgram, TypeCorrect, PTL
<1>2. UploadInit => SentOK
  BY UploadStarts
<1>3. SentOK /\ [UploadNext]_allVars => SentOK'
  BY UploadKeeps
<1>4. TypeOK /\ SentOK /\ UploadInv /\ [UploadNext]_allVars => UploadInv'
  BY AccessKeeps, SentToKeeps, HeldKeeps DEF UploadInv
<1>5. QED
  BY <1>1, <1>2, <1>3, <1>4, UploadBegins, HeldIsFaithful, PTL DEF UploadSpec
=============================================================================

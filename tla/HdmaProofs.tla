----------------------------- MODULE HdmaProofs -----------------------------
(***************************************************************************)
(* What holds of Hdma for any number of channels, any tables in memory and *)
(* any program.                                                            *)
(***************************************************************************)
EXTENDS Hdma, NaturalsInduction, WellFoundedInduction, SequenceTheorems, TLAPS

-----------------------------------------------------------------------------
(* Induction in the form the provers can use: on a set of numbers instead  *)
(* of a predicate, from the well-foundedness of <.                         *)

\* A set of naturals that is not empty has a least element.
LEMMA Least ==
  ASSUME NEW T \in SUBSET Nat, T # {}
  PROVE  \E x \in T : \A y \in T : x <= y
<1> DEFINE R == OpToRel(<, Nat)
<1>1. R = {ss \in Nat \X Nat : ss[1] < ss[2]}
  BY Zenon DEF OpToRel
<1>2. IsWellFoundedOn(R, Nat)
  BY NatLessThanWellFounded
<1> HIDE DEF R
<1>3. PICK x \in T : \A y \in T : <<y, x>> \notin R
  BY <1>2, WFMin
<1>4. ASSUME NEW y \in T, y < x PROVE FALSE
  <2>1. <<y, x>> \in Nat \X Nat
    OBVIOUS
  <2>2. QED
    BY <1>1, <1>3, <1>4, <2>1
<1>5. QED
  BY <1>4

\* A set with 0 in it, and with n + 1 whenever n is, holds every natural number.
LEMMA Up ==
  ASSUME NEW T, 0 \in T, \A n \in Nat : n \in T => n + 1 \in T
  PROVE  \A n \in Nat : n \in T
<1> SUFFICES ASSUME NEW k \in Nat, k \notin T PROVE FALSE
  OBVIOUS
<1> DEFINE U == {n \in Nat : n \notin T}
<1>1. PICK m \in U : \A y \in U : m <= y
  <2>1. U \in SUBSET Nat /\ U # {}
    OBVIOUS
  <2> HIDE DEF U
  <2>2. QED
    BY <2>1, Least
<1>2. m - 1 \in Nat /\ m - 1 \notin U
  BY <1>1
<1>3. QED
  BY <1>1, <1>2

\* A number has one remainder.
LEMMA QuotientsEqual ==
  ASSUME NEW S \in Nat, S > 0, NEW a \in Int, NEW b \in Int,
         NEW r \in 0..(S - 1), NEW s \in 0..(S - 1), S * a + r = S * b + s
  PROVE  r = s
<1>1. ASSUME NEW x \in Int, NEW y \in Int, x < y PROVE S * x + S <= S * y
  <2>1. PICK d \in Nat : y = x + 1 + d
    <3>1. y - x - 1 \in Nat /\ y = x + 1 + (y - x - 1)
      BY <1>1
    <3>2. QED
      BY <3>1
  <2>2. S * d >= 0
    OBVIOUS
  <2>3. S * y = S * x + S + S * d
    BY <2>1
  <2>4. QED
    BY <2>2, <2>3
<1>2. ~(a < b)
  <2>1. S * a \in Int /\ S * b \in Int
    OBVIOUS
  <2>2. QED
    BY <1>1, <2>1
<1>3. ~(b < a)
  <2>1. S * a \in Int /\ S * b \in Int
    OBVIOUS
  <2>2. QED
    BY <1>1, <2>1
<1>4. a = b
  BY <1>2, <1>3
<1>5. QED
  BY <1>4

\* A number is a multiple of S and its remainder.
LEMMA Remainder ==
  ASSUME NEW S \in Nat, S > 0, NEW x \in Int
  PROVE  \E q \in Int : x = S * q + (x % S) /\ x % S \in 0..(S - 1)
<1>1. x = S * (x \div S) + (x % S) /\ x \div S \in Int /\ x % S \in 0..(S - 1)
  OBVIOUS
<1>2. QED
  BY <1>1

\* A remainder may be taken before or after an addition.
LEMMA RemainderPlus ==
  ASSUME NEW S \in Nat, S > 0, NEW x \in Int, NEW k \in Int
  PROVE  ((x % S) + k) % S = (x + k) % S
<1>1. PICK q \in Int : x = S * q + (x % S) /\ x % S \in 0..(S - 1)
  BY Remainder
<1>2. PICK r : r = x % S
  OBVIOUS
<1>3. r \in Int /\ r + k \in Int /\ x + k \in Int
  BY <1>1, <1>2
<1>4. PICK p \in Int : r + k = S * p + ((r + k) % S) /\ (r + k) % S \in 0..(S - 1)
  BY <1>3, Remainder
<1>5. PICK o \in Int : x + k = S * o + ((x + k) % S) /\ (x + k) % S \in 0..(S - 1)
  BY <1>3, Remainder
<1>6. PICK s : s = (r + k) % S
  OBVIOUS
<1>7. PICK t : t = (x + k) % S
  OBVIOUS
<1>8. S * o + t = S * (q + p) + s
  <2>1. S * (q + p) = S * q + S * p
    OBVIOUS
  <2>2. S * q \in Int /\ S * p \in Int /\ S * o \in Int /\ s \in Int /\ t \in Int
    BY <1>4, <1>5, <1>6, <1>7
  <2>3. x + k = S * q + S * p + s
    BY <1>1, <1>2, <1>3, <1>4, <1>6, <2>2
  <2>4. QED
    BY <1>5, <1>7, <2>1, <2>2, <2>3
<1>9. s = t
  <2>1. s \in 0..(S - 1) /\ t \in 0..(S - 1)
    BY <1>4, <1>5, <1>6, <1>7
  <2>2. PICK z \in Int : z = q + p
    BY <1>1, <1>4
  <2>3. QED
    BY <1>5, <1>8, <2>1, <2>2, QuotientsEqual
<1>10. QED
  BY <1>2, <1>6, <1>7, <1>9

-----------------------------------------------------------------------------
Walks == [ch : Registers, run : States, ended : BOOLEAN, units : Seq(Addresses), lines : Nat]

LEMMA WrapType == ASSUME NEW n \in Int PROVE Wrap(n) \in Addresses
<1>1. Space \in Nat /\ Space > 0
  BY HdmaAssumption
<1>2. n % Space \in 0..(Space - 1)
  BY <1>1, SMT
<1>3. QED
  BY <1>2 DEF Wrap, Addresses

\* Loading an entry keeps the shape of a walk.
LEMMA LoadEntryType ==
  ASSUME memory \in [Addresses -> Bytes], NEW w \in Walks
  PROVE  LoadEntry(w) \in Walks
<1> DEFINE count == memory[w.ch.a2a]
           data  == Wrap(w.ch.a2a + 1)
           regs  == [w.ch EXCEPT !.ntrl = count, !.a2a = data]
<1>1. /\ w.ch \in Registers /\ w.ch.a2a \in Addresses /\ w.ch.a2a \in Int
      /\ count \in Bytes
  BY DEF Walks, Registers, Addresses
<1>2. data \in Addresses /\ data \in Int
  BY <1>1, WrapType DEF Addresses
<1>3. regs \in Registers
  BY <1>1, <1>2 DEF Registers
<1>4. Word(data) \in Addresses /\ Wrap(data + 2) \in Addresses
  <2>1. Wrap(data + 1) \in Addresses /\ Wrap(data + 2) \in Addresses
    BY <1>2, WrapType
  <2>2. memory[data] \in Int /\ memory[Wrap(data + 1)] \in Int
    BY <1>2, <2>1 DEF Bytes
  <2>3. memory[data] + Page * memory[Wrap(data + 1)] \in Int
    BY <2>2, HdmaAssumption
  <2>4. QED
    BY <2>1, <2>3, WrapType DEF Word
<1>5. [regs EXCEPT !.a2a = Wrap(data + 2), !.das = Word(data)] \in Registers
  BY <1>3, <1>4 DEF Registers
<1>6. Idle \in States /\ [active |-> TRUE, transfer |-> TRUE] \in States
  BY DEF Idle, States
<1> HIDE DEF regs
<1>7. CASE count = 0
  BY <1>3, <1>6, <1>7 DEF LoadEntry, Walks, regs
<1>8. CASE count # 0
  BY <1>3, <1>5, <1>6, <1>8 DEF LoadEntry, Walks, regs
<1>9. QED
  BY <1>7, <1>8

LEMMA MoveBytesType ==
  ASSUME NEW w \in Walks, NEW k \in Int
  PROVE  MoveBytes(w, k) \in Walks
<1>1. /\ w.ch \in Registers /\ w.units \in Seq(Addresses)
      /\ w.ch.a2a \in Addresses /\ w.ch.das \in Addresses
  BY DEF Walks, Registers
<1>2. /\ Wrap(w.ch.a2a + k) \in Addresses /\ Wrap(w.ch.das + k) \in Addresses
  <2>1. w.ch.a2a + k \in Int /\ w.ch.das + k \in Int
    BY <1>1 DEF Addresses
  <2>2. QED
    BY <2>1, WrapType
<1>3. /\ Append(w.units, w.ch.das) \in Seq(Addresses)
      /\ Append(w.units, w.ch.a2a) \in Seq(Addresses)
  BY <1>1
<1>4. /\ [w.ch EXCEPT !.das = Wrap(@ + k)] \in Registers
      /\ [w.ch EXCEPT !.a2a = Wrap(@ + k)] \in Registers
  BY <1>1, <1>2 DEF Registers
<1>5. QED
  BY <1>3, <1>4 DEF MoveBytes, Walks

LEMMA ServeType ==
  ASSUME memory \in [Addresses -> Bytes], NEW w \in Walks
  PROVE  Serve(w) \in Walks
<1> DEFINE moved == IF w.run.transfer THEN MoveBytes(w, w.ch.mode.unit) ELSE w
           n     == (w.ch.ntrl - 1) % (2 * Half)
           down  == [moved EXCEPT !.ch.ntrl = n, !.lines = @ + 1]
<1>1. w.ch.mode.unit \in Int /\ w.ch.ntrl \in Int
  BY DEF Walks, Registers, Mode, Bytes
<1>2. moved \in Walks
  BY <1>1, MoveBytesType
<1>3. n \in Bytes /\ n \in Int
  <2>1. 2 * Half \in Nat /\ 2 * Half > 0
    BY HdmaAssumption
  <2> DEFINE H == 2 * Half
  <2> HIDE DEF H
  <2>2. (w.ch.ntrl - 1) % H \in 0..(H - 1)
    BY <1>1, <2>1 DEF H
  <2>3. QED
    BY <2>2, <2>1 DEF H, Bytes
<1> HIDE DEF n, moved
<1>4. down \in Walks
  <2>1. moved.ch \in Registers /\ moved.lines + 1 \in Nat
    BY <1>2 DEF Walks
  <2>2. [moved.ch EXCEPT !.ntrl = n] \in Registers
    BY <2>1, <1>3 DEF Registers
  <2>3. down = [moved EXCEPT !.ch = [moved.ch EXCEPT !.ntrl = n], !.lines = @ + 1]
    BY <1>2 DEF Walks
  <2>4. QED
    BY <1>2, <2>1, <2>2, <2>3 DEF Walks
<1> HIDE DEF down
<1>5. (n >= Half) \in BOOLEAN
  OBVIOUS
<1>6. [down EXCEPT !.run.transfer = n >= Half] \in Walks
  BY <1>4, <1>5 DEF Walks, States
<1>7. LoadEntry(down) \in Walks
  BY <1>4, LoadEntryType
<1>8. QED
  BY <1>6, <1>7 DEF Serve, down, n, moved

LEMMA WalkType == ASSUME TypeOK, NEW c \in Channels PROVE Walk(c) \in Walks
  BY DEF TypeOK, Walk, Walks, Histories

\* Setting every walk keeps the shape of what they are made of.
LEMMA SetWalksType ==
  ASSUME NEW walk, \A c \in Channels : walk[c] \in Walks, SetWalks(walk)
  PROVE  /\ ch' \in [Channels -> Registers]
         /\ run' \in [Channels -> States]
         /\ ended' \subseteq Channels
  BY DEF SetWalks, Walks

LEMMA RecordedType ==
  ASSUME NEW h \in Histories, NEW w \in Walks
  PROVE  Recorded(h, w) \in Histories
  BY DEF Recorded, Histories, Walks

LEMMA InitType == Init => TypeOK
<1> SUFFICES ASSUME Init PROVE TypeOK
  OBVIOUS
<1>1. 0 \in Addresses /\ 0 \in Bytes
  BY HdmaAssumption DEF Addresses, Bytes
<1>2. ch \in [Channels -> Registers]
  BY <1>1, HdmaAssumption DEF Init, Registers
<1>3. Idle \in States
  BY DEF Idle, States
<1>4. [known |-> FALSE, start |-> 0, lead |-> 0, units |-> <<>>, lines |-> 0] \in Histories
  BY <1>1 DEF Histories
<1>5. QED
  BY <1>1, <1>2, <1>3, <1>4, HdmaAssumption DEF Init, TypeOK

LEMMA RestartType ==
  ASSUME NEW w \in Walks, NEW r \in Registers
  PROVE  [w EXCEPT !.ch = r, !.ended = FALSE, !.units = <<>>, !.lines = 0] \in Walks
<1>1. <<>> \in Seq(Addresses)
  OBVIOUS
<1>2. QED
  BY <1>1 DEF Walks

LEMMA InitHdmaType == TypeOK /\ InitHdma => TypeOK'
<1> SUFFICES ASSUME TypeOK, InitHdma PROVE TypeOK'
  OBVIOUS
<1> DEFINE start(c) == [Walk(c) EXCEPT !.ch.a2a = ch[c].a1t, !.ended = FALSE,
                                       !.units = <<>>, !.lines = 0]
           walk == [c \in Channels |-> IF c \in hdmaen THEN LoadEntry(start(c))
                                       ELSE [Walk(c) EXCEPT !.run = Idle, !.ended = FALSE]]
           h(c) == [known |-> c \in hdmaen, start |-> ch[c].a1t, lead |-> 0,
                    units |-> <<>>, lines |-> 0]
<1>1. ASSUME NEW c \in Channels PROVE walk[c] \in Walks
  <2>1. Walk(c) \in Walks
    BY WalkType
  <2>2. [Walk(c) EXCEPT !.run = Idle, !.ended = FALSE] \in Walks
    BY <2>1 DEF Walks, Idle, States
  <2>3. start(c) \in Walks
    <3>1. [Walk(c).ch EXCEPT !.a2a = ch[c].a1t] \in Registers
      BY <2>1 DEF Walks, Registers, TypeOK
    <3>2. start(c) = [Walk(c) EXCEPT !.ch = [Walk(c).ch EXCEPT !.a2a = ch[c].a1t],
                                     !.ended = FALSE, !.units = <<>>, !.lines = 0]
      BY <2>1 DEF Walks
    <3>3. QED
      BY <2>1, <3>1, <3>2, RestartType
  <2>4. LoadEntry(start(c)) \in Walks
    BY <2>3, LoadEntryType DEF TypeOK
  <2>5. QED
    BY <2>2, <2>4
<1>2. ASSUME NEW c \in Channels PROVE h(c) \in Histories
  BY DEF Histories, TypeOK, Registers
<1>3. SetWalks(walk) /\ hist' = [c \in Channels |-> h(c)]
  BY DEF InitHdma
<1> HIDE DEF walk, h
<1>4. hist' \in [Channels -> Histories]
  BY <1>2, <1>3
<1>5. /\ ch' \in [Channels -> Registers] /\ run' \in [Channels -> States]
      /\ ended' \subseteq Channels
  BY <1>1, <1>3, SetWalksType
<1>6. line' \in 0..VisibleLines /\ frame' \in Nat
  <2>1. line' = 0 /\ frame' = frame + 1
    BY DEF InitHdma
  <2>2. QED
    BY <2>1, HdmaAssumption DEF TypeOK
<1>7. UNCHANGED <<memory, hdmaen, fault, writes>>
  BY DEF InitHdma
<1>8. QED
  BY <1>4, <1>5, <1>6, <1>7 DEF TypeOK

\* Lines served: the walks are served, moved or left alone.
LEMMA ServeStepType ==
  ASSUME TypeOK, NEW walk, \A c \in Channels : walk[c] \in Walks, SetWalks(walk),
         hist' = [c \in Channels |-> Recorded(hist[c], walk[c])]
  PROVE  /\ ch' \in [Channels -> Registers] /\ run' \in [Channels -> States]
         /\ ended' \subseteq Channels /\ hist' \in [Channels -> Histories]
<1>1. /\ ch' \in [Channels -> Registers] /\ run' \in [Channels -> States]
      /\ ended' \subseteq Channels
  BY SetWalksType
<1>2. ASSUME NEW c \in Channels PROVE Recorded(hist[c], walk[c]) \in Histories
  BY RecordedType DEF TypeOK
<1>3. QED
  BY <1>1, <1>2

LEMMA ExecuteHdmaType == TypeOK /\ ExecuteHdma => TypeOK'
<1> SUFFICES ASSUME TypeOK, ExecuteHdma PROVE TypeOK'
  OBVIOUS
<1> DEFINE walk == [c \in Channels |-> IF Live(c) THEN Serve(Walk(c)) ELSE Walk(c)]
<1>1. ASSUME NEW c \in Channels PROVE walk[c] \in Walks
  <2>1. Walk(c) \in Walks
    BY WalkType
  <2>2. Serve(Walk(c)) \in Walks
    BY <2>1, ServeType DEF TypeOK
  <2>3. QED
    BY <2>1, <2>2
<1>2. SetWalks(walk) /\ hist' = [c \in Channels |-> Recorded(hist[c], walk[c])]
  BY DEF ExecuteHdma
<1> HIDE DEF walk
<1>3. /\ ch' \in [Channels -> Registers] /\ run' \in [Channels -> States]
      /\ ended' \subseteq Channels /\ hist' \in [Channels -> Histories]
  BY <1>1, <1>2, ServeStepType
<1>4. line' \in 0..VisibleLines
  BY HdmaAssumption DEF ExecuteHdma, TypeOK
<1>5. UNCHANGED <<memory, hdmaen, frame, fault, writes>>
  BY DEF ExecuteHdma
<1>6. QED
  BY <1>3, <1>4, <1>5 DEF TypeOK

LEMMA ExecuteHdmaFaultsType ==
  ASSUME TypeOK, NEW f \in Channels, NEW k \in 1..4, ExecuteHdmaFaults(f, k)
  PROVE  TypeOK'
<1> DEFINE walk == [c \in Channels |-> IF ~Live(c) \/ c > f THEN Walk(c)
                                       ELSE IF c < f THEN Serve(Walk(c))
                                       ELSE MoveBytes(Walk(c), k)]
<1>1. ASSUME NEW c \in Channels PROVE walk[c] \in Walks
  <2>1. Walk(c) \in Walks
    BY WalkType
  <2>2. Serve(Walk(c)) \in Walks
    BY <2>1, ServeType DEF TypeOK
  <2>3. MoveBytes(Walk(c), k) \in Walks
    BY <2>1, MoveBytesType
  <2>4. QED
    BY <2>1, <2>2, <2>3
<1>2. SetWalks(walk) /\ hist' = [c \in Channels |-> Recorded(hist[c], walk[c])]
  BY DEF ExecuteHdmaFaults
<1> HIDE DEF walk
<1>3. /\ ch' \in [Channels -> Registers] /\ run' \in [Channels -> States]
      /\ ended' \subseteq Channels /\ hist' \in [Channels -> Histories]
  BY <1>1, <1>2, ServeStepType
<1>4. fault' = "BBusWrite" /\ UNCHANGED <<memory, hdmaen, line, frame, writes>>
  BY DEF ExecuteHdmaFaults
<1>5. QED
  BY <1>3, <1>4 DEF TypeOK

LEMMA ProgramType ==
  ASSUME TypeOK,
         \/ \E mask \in SUBSET Channels :
               \/ WriteHdmaen(mask) \/ KickDma(mask)
               \/ \E f \in Channels, n \in 0..(Space - 1) : KickDmaFaults(mask, f, n)
         \/ \E c \in Channels :
               \/ \E m \in Modes : WriteMode(c, m)
               \/ \E s \in Staged : WriteRegister(c, s)
  PROVE  TypeOK'
<1>1. ASSUME NEW h \in Histories PROVE Forget(h) \in Histories
  BY DEF Forget, Histories
<1>2. ASSUME NEW c \in Channels, NEW n \in Int PROVE Moved(c, n) \in Registers
  <2>1. /\ ch[c] \in Registers /\ ch[c].a1t \in Int /\ ch[c].das \in Int
        /\ ch[c].mode.step \in {-1, 0, 1}
    BY DEF TypeOK, Registers, Addresses, Mode
  <2>2. ch[c].a1t + n * ch[c].mode.step \in Int
    BY <2>1
  <2>3. Count(c) \in Int
    BY <2>1, HdmaAssumption DEF Count
  <2>4. Wrap(ch[c].a1t + n * ch[c].mode.step) \in Addresses /\ Wrap(Count(c) - n) \in Addresses
    BY <2>2, <2>3, WrapType
  <2>5. QED
    BY <2>1, <2>4 DEF Moved, Registers
<1>3. ASSUME NEW c \in Channels PROVE Count(c) \in Int
  BY HdmaAssumption DEF Count, TypeOK, Registers, Addresses
<1>4. ASSUME NEW done, Clobber(done) PROVE hist' \in [Channels -> Histories]
  BY <1>1, <1>4 DEF Clobber, TypeOK
<1>5. ASSUME Write PROVE writes' \in Nat
  BY <1>5 DEF Write, TypeOK
<1>6. ASSUME NEW mask \in SUBSET Channels, WriteHdmaen(mask) PROVE TypeOK'
  <2>1. run' \in [Channels -> States]
    BY <1>6 DEF WriteHdmaen, TypeOK, States
  <2>2. ASSUME NEW c \in Channels
        PROVE  [known |-> TRUE, start |-> ch[c].a2a, lead |-> 1, units |-> <<>>,
                lines |-> 0] \in Histories
    BY DEF TypeOK, Registers, Histories
  <2>3. hist' \in [Channels -> Histories]
    BY <1>6, <2>2 DEF WriteHdmaen, TypeOK
  <2>4. QED
    BY <1>5, <1>6, <2>1, <2>3 DEF WriteHdmaen, TypeOK
<1>7. ASSUME NEW mask \in SUBSET Channels, KickDma(mask) PROVE TypeOK'
  <2>1. ch' \in [Channels -> Registers]
    BY <1>2, <1>3, <1>7 DEF KickDma, TypeOK
  <2>2. hist' \in [Channels -> Histories]
    BY <1>4, <1>7 DEF KickDma, TypeOK
  <2>3. QED
    BY <1>5, <1>7, <2>1, <2>2 DEF KickDma, TypeOK
<1>8. ASSUME NEW mask \in SUBSET Channels, NEW f \in Channels, NEW n \in 0..(Space - 1),
             KickDmaFaults(mask, f, n)
      PROVE  TypeOK'
  <2>1. n \in Int
    OBVIOUS
  <2>2. ch' \in [Channels -> Registers]
    <3>1. ASSUME NEW c \in Channels PROVE Moved(c, IF c = f THEN n ELSE Count(c)) \in Registers
      BY <1>2, <1>3, <2>1
    <3>2. QED
      BY <1>8, <3>1 DEF KickDmaFaults, TypeOK
  <2>3. hist' \in [Channels -> Histories]
    BY <1>4, <1>8 DEF KickDmaFaults
  <2>4. QED
    BY <1>5, <1>8, <2>2, <2>3 DEF KickDmaFaults, TypeOK
<1>9. ASSUME NEW c \in Channels, NEW m \in Modes, WriteMode(c, m) PROVE TypeOK'
  <2>1. ch' \in [Channels -> Registers]
    BY <1>9, HdmaAssumption DEF WriteMode, TypeOK, Registers
  <2>2. hist' \in [Channels -> Histories]
    BY <1>1, <1>9 DEF WriteMode, TypeOK
  <2>3. QED
    BY <1>5, <1>9, <2>1, <2>2 DEF WriteMode, TypeOK
<1>10. ASSUME NEW c \in Channels, NEW s \in Staged, WriteRegister(c, s) PROVE TypeOK'
  <2>1. s.value \in Bytes /\ s.high \in BOOLEAN /\ s.reg \in {"a1t", "a2a", "das", "ntrl"}
    BY HdmaAssumption
  <2>2. ASSUME NEW word \in Addresses PROVE SetByte(word, s) \in Addresses
    <3>1. word \in Int /\ s.value \in Int /\ Page \in Nat /\ Page > 0
      BY <2>1, HdmaAssumption DEF Addresses, Bytes
    <3>2. word % Page \in Int
      BY <3>1
    <3>3. (word % Page) + Page * s.value \in Int /\ word - (word % Page) + s.value \in Int
      BY <3>1, <3>2
    <3>4. QED
      BY <3>3, WrapType DEF SetByte
  <2>3. ch' \in [Channels -> Registers]
    BY <1>10, <2>1, <2>2 DEF WriteRegister, TypeOK, Registers
  <2>4. hist' \in [Channels -> Histories]
    BY <1>1, <1>10 DEF WriteRegister, TypeOK
  <2>5. QED
    BY <1>5, <1>10, <2>3, <2>4 DEF WriteRegister, TypeOK
<1>11. QED
  BY <1>6, <1>7, <1>8, <1>9, <1>10

LEMMA StutterType == TypeOK /\ UNCHANGED vars => TypeOK'
  BY DEF TypeOK, vars

\* Every variable of the channels keeps its shape, for any tables and any program.
THEOREM TypeCorrect == Spec => []TypeOK
<1>1. TypeOK /\ [Next]_vars => TypeOK'
  BY InitHdmaType, ExecuteHdmaType, ExecuteHdmaFaultsType, ProgramType, StutterType DEF Next
<1>2. QED
  BY <1>1, InitType, PTL DEF Spec

-----------------------------------------------------------------------------
(* The end of a table.                                                     *)

\* A channel whose table has ended is not active.
Sound(w) == w.ended => ~w.run.active
EndedIdle == \A c \in ended : ~run[c].active

LEMMA LoadEntrySound ==
  ASSUME NEW w \in Walks, ~w.ended
  PROVE  Sound(LoadEntry(w))
<1> DEFINE count == memory[w.ch.a2a]
<1>1. CASE count = 0
  <2>1. LoadEntry(w).run = Idle
    BY <1>1 DEF LoadEntry, Walks
  <2>2. QED
    BY <2>1 DEF Sound, Idle
<1>2. CASE count # 0
  <2>1. LoadEntry(w).ended = w.ended
    BY <1>2 DEF LoadEntry, Walks
  <2>2. QED
    BY <2>1 DEF Sound
<1>3. QED
  BY <1>1, <1>2

LEMMA ServeSound ==
  ASSUME TypeOK, NEW w \in Walks, ~w.ended
  PROVE  Sound(Serve(w))
<1> DEFINE moved == IF w.run.transfer THEN MoveBytes(w, w.ch.mode.unit) ELSE w
           n     == (w.ch.ntrl - 1) % (2 * Half)
           down  == [moved EXCEPT !.ch.ntrl = n, !.lines = @ + 1]
<1>1. moved \in Walks /\ ~moved.ended
  <2>1. w.ch.mode.unit \in Int
    BY DEF Walks, Registers, Mode
  <2>2. MoveBytes(w, w.ch.mode.unit) \in Walks
    BY <2>1, MoveBytesType
  <2>3. MoveBytes(w, w.ch.mode.unit).ended = w.ended
    BY DEF MoveBytes, Walks
  <2>4. QED
    BY <2>2, <2>3
<1> HIDE DEF moved
<1>2. n \in Bytes
  <2>1. w.ch.ntrl \in Int /\ 2 * Half \in Nat /\ 2 * Half > 0
    BY HdmaAssumption DEF Walks, Registers, Bytes
  <2> DEFINE H == 2 * Half
  <2> HIDE DEF H
  <2>2. (w.ch.ntrl - 1) % H \in 0..(H - 1)
    BY <2>1 DEF H
  <2>3. QED
    BY <2>1, <2>2 DEF H, Bytes
<1> HIDE DEF n
<1>3. down \in Walks /\ ~down.ended
  <2>1. moved.ch \in Registers /\ moved.lines + 1 \in Nat
    BY <1>1 DEF Walks
  <2>2. [moved.ch EXCEPT !.ntrl = n] \in Registers
    BY <2>1, <1>2 DEF Registers
  <2>3. down = [moved EXCEPT !.ch = [moved.ch EXCEPT !.ntrl = n], !.lines = @ + 1]
    BY <1>1 DEF Walks
  <2>4. QED
    BY <1>1, <2>1, <2>2, <2>3 DEF Walks
<1> HIDE DEF down
<1>4. Sound(LoadEntry(down))
  BY <1>3, LoadEntrySound
<1>5. [down EXCEPT !.run.transfer = n >= Half].ended = down.ended
  BY <1>3 DEF Walks
<1>6. Sound([down EXCEPT !.run.transfer = n >= Half])
  BY <1>3, <1>5 DEF Sound
<1>7. QED
  BY <1>4, <1>6 DEF Serve, down, moved, n

\* Setting sound walks leaves no channel ended and active.
LEMMA SetWalksSound ==
  ASSUME NEW walk, \A c \in Channels : Sound(walk[c]), SetWalks(walk)
  PROVE  EndedIdle'
  BY DEF SetWalks, EndedIdle, Sound

LEMMA WalkSound ==
  ASSUME TypeOK, EndedIdle, NEW c \in Channels
  PROVE  /\ Sound(Walk(c))
         /\ Live(c) => ~Walk(c).ended
         /\ c \in ended => ~Live(c)
  BY DEF Sound, Walk, EndedIdle, Live, TypeOK

LEMMA InitHdmaDead ==
  ASSUME TypeOK, EndedIdle, InitHdma
  PROVE  EndedIdle' /\ StaysDead
<1> DEFINE start(c) == [Walk(c) EXCEPT !.ch.a2a = ch[c].a1t, !.ended = FALSE,
                                       !.units = <<>>, !.lines = 0]
           walk == [c \in Channels |-> IF c \in hdmaen THEN LoadEntry(start(c))
                                       ELSE [Walk(c) EXCEPT !.run = Idle, !.ended = FALSE]]
<1>1. ASSUME NEW c \in Channels PROVE Sound(walk[c])
  <2>1. Walk(c) \in Walks
    BY WalkType
  <2>2. [Walk(c) EXCEPT !.run = Idle, !.ended = FALSE].ended = FALSE
    BY <2>1 DEF Walks
  <2>3. Sound([Walk(c) EXCEPT !.run = Idle, !.ended = FALSE])
    BY <2>2 DEF Sound
  <2>4. start(c) = [Walk(c) EXCEPT !.ch = [Walk(c).ch EXCEPT !.a2a = ch[c].a1t],
                                   !.ended = FALSE, !.units = <<>>, !.lines = 0]
    BY <2>1 DEF Walks
  <2>5. [Walk(c).ch EXCEPT !.a2a = ch[c].a1t] \in Registers
    BY <2>1 DEF Walks, Registers, TypeOK
  <2>6. start(c) \in Walks
    BY <2>1, <2>4, <2>5, RestartType
  <2>7. ~start(c).ended
    BY <2>1, <2>4 DEF Walks
  <2>8. Sound(LoadEntry(start(c)))
    BY <2>6, <2>7, LoadEntrySound
  <2>9. QED
    BY <2>3, <2>8
<1>2. SetWalks(walk) /\ frame' = frame + 1
  BY DEF InitHdma
<1> HIDE DEF walk
<1>3. EndedIdle'
  BY <1>1, <1>2, SetWalksSound
<1>4. StaysDead
  BY <1>2 DEF StaysDead, TypeOK
<1>5. QED
  BY <1>3, <1>4

\* A channel whose walk is as it was stays ended and moves nothing.
LEMMA UnmovedDead ==
  ASSUME TypeOK, NEW walk, SetWalks(walk), \A c \in ended : walk[c] = Walk(c),
         hist' = [c \in Channels |-> Recorded(hist[c], walk[c])]
  PROVE  StaysDead
<1>1. ASSUME NEW c \in ended PROVE c \in ended' /\ hist'[c].units = hist[c].units
  <2>1. c \in Channels /\ walk[c] = Walk(c)
    BY DEF TypeOK
  <2>2. Walk(c).ended /\ Walk(c).units = hist[c].units
    BY DEF Walk
  <2>3. c \in ended'
    BY <2>1, <2>2 DEF SetWalks
  <2> DEFINE h == hist[c]
  <2>4. hist'[c] = [h EXCEPT !.units = h.units, !.lines = walk[c].lines]
    BY <2>1, <2>2 DEF Recorded
  <2>5. h \in Histories
    BY <2>1 DEF TypeOK
  <2> HIDE DEF h
  <2>6. hist'[c].units = h.units
    BY <2>4, <2>5 DEF Histories
  <2>7. QED
    BY <2>3, <2>6 DEF h
<1>2. QED
  BY <1>1 DEF StaysDead

LEMMA ExecuteHdmaDead ==
  ASSUME TypeOK, EndedIdle, ExecuteHdma
  PROVE  EndedIdle' /\ StaysDead
<1> DEFINE walk == [c \in Channels |-> IF Live(c) THEN Serve(Walk(c)) ELSE Walk(c)]
<1>1. ASSUME NEW c \in Channels PROVE Sound(walk[c])
  BY WalkType, WalkSound, ServeSound
<1>2. ASSUME NEW c \in ended PROVE walk[c] = Walk(c)
  BY WalkSound DEF TypeOK
<1>3. SetWalks(walk) /\ hist' = [c \in Channels |-> Recorded(hist[c], walk[c])]
  BY DEF ExecuteHdma
<1> HIDE DEF walk
<1>4. QED
  BY <1>1, <1>2, <1>3, SetWalksSound, UnmovedDead

LEMMA ExecuteHdmaFaultsDead ==
  ASSUME TypeOK, EndedIdle, NEW f \in Channels, NEW k \in 1..4, ExecuteHdmaFaults(f, k)
  PROVE  EndedIdle' /\ StaysDead
<1> DEFINE walk == [c \in Channels |-> IF ~Live(c) \/ c > f THEN Walk(c)
                                       ELSE IF c < f THEN Serve(Walk(c))
                                       ELSE MoveBytes(Walk(c), k)]
<1>1. ASSUME NEW c \in Channels PROVE Sound(walk[c])
  <2>1. Walk(c) \in Walks /\ Sound(Walk(c)) /\ (Live(c) => ~Walk(c).ended)
    BY WalkType, WalkSound
  <2>2. Live(c) => Sound(Serve(Walk(c)))
    BY <2>1, ServeSound
  <2>3. Sound(MoveBytes(Walk(c), k))
    <3>1. /\ MoveBytes(Walk(c), k).ended = Walk(c).ended
          /\ MoveBytes(Walk(c), k).run = Walk(c).run
      BY <2>1 DEF MoveBytes, Walks
    <3>2. QED
      BY <2>1, <3>1 DEF Sound
  <2>4. QED
    BY <2>1, <2>2, <2>3
<1>2. ASSUME NEW c \in ended PROVE walk[c] = Walk(c)
  BY WalkSound DEF TypeOK
<1>3. SetWalks(walk) /\ hist' = [c \in Channels |-> Recorded(hist[c], walk[c])]
  BY DEF ExecuteHdmaFaults
<1> HIDE DEF walk
<1>4. QED
  BY <1>1, <1>2, <1>3, SetWalksSound, UnmovedDead

LEMMA ForgetUnits == ASSUME NEW h \in Histories PROVE Forget(h).units = h.units
  BY DEF Forget, Histories

LEMMA ProgramDead ==
  ASSUME TypeOK, EndedIdle,
         \/ \E mask \in SUBSET Channels :
               \/ WriteHdmaen(mask) \/ KickDma(mask)
               \/ \E f \in Channels, n \in 0..(Space - 1) : KickDmaFaults(mask, f, n)
         \/ \E c \in Channels :
               \/ \E m \in Modes : WriteMode(c, m)
               \/ \E s \in Staged : WriteRegister(c, s)
  PROVE  EndedIdle' /\ StaysDead
<1>1. ASSUME NEW c \in Channels PROVE Forget(hist[c]).units = hist[c].units
  BY ForgetUnits DEF TypeOK
<1>2. ASSUME NEW mask \in SUBSET Channels, WriteHdmaen(mask) PROVE EndedIdle' /\ StaysDead
  <2>1. ended' = ended
    BY <1>2 DEF WriteHdmaen
  <2>2. ASSUME NEW c \in ended PROVE run'[c] = run[c] /\ hist'[c] = hist[c]
    BY <1>2 DEF WriteHdmaen, NewlyEnabled, TypeOK
  <2>3. QED
    BY <2>1, <2>2 DEF EndedIdle, StaysDead
<1>3. ASSUME UNCHANGED <<run, ended>>, \A c \in Channels : hist'[c].units = hist[c].units
      PROVE  EndedIdle' /\ StaysDead
  BY <1>3 DEF EndedIdle, StaysDead, TypeOK
<1>4. ASSUME NEW done, Clobber(done)
      PROVE  \A c \in Channels : hist'[c].units = hist[c].units
  BY <1>1, <1>4 DEF Clobber
<1>5. ASSUME NEW mask \in SUBSET Channels, KickDma(mask) PROVE EndedIdle' /\ StaysDead
  BY <1>3, <1>4, <1>5 DEF KickDma
<1>6. ASSUME NEW mask \in SUBSET Channels, NEW f \in Channels, NEW n \in 0..(Space - 1),
             KickDmaFaults(mask, f, n)
      PROVE  EndedIdle' /\ StaysDead
  BY <1>3, <1>4, <1>6 DEF KickDmaFaults
<1>7. ASSUME NEW c \in Channels, NEW m \in Modes, WriteMode(c, m)
      PROVE  EndedIdle' /\ StaysDead
  <2>1. \A d \in Channels : hist'[d].units = hist[d].units
    BY <1>1, <1>7 DEF WriteMode, TypeOK
  <2>2. QED
    BY <1>3, <1>7, <2>1 DEF WriteMode
<1>8. ASSUME NEW c \in Channels, NEW s \in Staged, WriteRegister(c, s)
      PROVE  EndedIdle' /\ StaysDead
  <2>1. \A d \in Channels : hist'[d].units = hist[d].units
    BY <1>1, <1>8 DEF WriteRegister, TypeOK
  <2>2. QED
    BY <1>3, <1>8, <2>1 DEF WriteRegister
<1>9. QED
  BY <1>2, <1>5, <1>6, <1>7, <1>8

\* A channel whose table has ended transfers nothing more in that frame, whatever the
\* program writes to its registers and to $420C.
THEOREM EndedChannelsStayDead == Spec => EndedStaysDead
<1>1. Init => EndedIdle
  BY DEF Init, EndedIdle
<1>2. TypeOK /\ EndedIdle /\ [Next]_vars => EndedIdle' /\ [StaysDead]_vars
  <2>1. TypeOK /\ EndedIdle /\ Next => EndedIdle' /\ StaysDead
    BY InitHdmaDead, ExecuteHdmaDead, ExecuteHdmaFaultsDead, ProgramDead DEF Next
  <2>2. EndedIdle /\ UNCHANGED vars => EndedIdle'
    BY DEF EndedIdle, vars
  <2>3. QED
    BY <2>1, <2>2
<1>3. QED
  BY <1>1, <1>2, TypeCorrect, PTL DEF Spec, EndedStaysDead
-----------------------------------------------------------------------------
(* A table, line by line.                                                  *)

\* Numbers around the end of memory.
LEMMA WrapAdd ==
  ASSUME NEW x \in Int, NEW k \in Int
  PROVE  Wrap(Wrap(x) + k) = Wrap(x + k)
<1>1. Space \in Nat /\ Space > 0
  BY HdmaAssumption
<1>2. ((x % Space) + k) % Space = (x + k) % Space
  BY <1>1, RemainderPlus
<1>3. QED
  BY <1>2 DEF Wrap

\* One line off a counter that is not 0.
LEMMA CountsDown ==
  ASSUME NEW n \in Bytes, n # 0
  PROVE  /\ (n - 1) % (2 * Half) = n - 1
         /\ UsedUp(n - 1) <=> n = 1 \/ n = Half + 1
<1>1. Half \in Nat /\ Half > 1 /\ n \in 1..(2 * Half - 1)
  BY HdmaAssumption DEF Bytes
<1>2. ASSUME NEW S \in Nat, S > 0, NEW x \in 0..(S - 1) PROVE x % S = x
  <2>1. PICK q \in Int : x = S * q + (x % S) /\ x % S \in 0..(S - 1)
    BY <1>2, Remainder
  <2>2. x = S * 0 + x
    BY <1>2
  <2>3. PICK r : r = x % S
    OBVIOUS
  <2>4. QED
    BY <1>2, <2>1, <2>2, <2>3, QuotientsEqual
<1>3. (n - 1) % (2 * Half) = n - 1
  <2>1. 2 * Half \in Nat /\ 2 * Half > 0 /\ n - 1 \in 0..(2 * Half - 1)
    BY <1>1
  <2>2. QED
    BY <1>2, <2>1
<1>4. CASE n - 1 < Half
  <2>1. (n - 1) % Half = n - 1
    <3>1. Half > 0 /\ n - 1 \in 0..(Half - 1)
      BY <1>1, <1>4
    <3>2. QED
      BY <1>1, <1>2, <3>1
  <2>2. UsedUp(n - 1) <=> n - 1 = 0
    BY <2>1 DEF UsedUp
  <2>3. n - 1 = 0 <=> n = 1 \/ n = Half + 1
    BY <1>1, <1>4
  <2>4. QED
    BY <1>3, <2>2, <2>3
<1>5. CASE n - 1 >= Half
  <2>1. PICK q \in Int : n - 1 = Half * q + ((n - 1) % Half) /\ (n - 1) % Half \in 0..(Half - 1)
    <3>1. PICK x \in Int : x = n - 1
      BY <1>1
    <3>2. Half > 0
      BY <1>1
    <3>3. QED
      BY <1>1, <3>1, <3>2, Remainder
  <2>2. n - 1 - Half \in 0..(Half - 1) /\ n - 1 = Half * 1 + (n - 1 - Half)
    BY <1>1, <1>5
  <2>3. PICK r : r = (n - 1) % Half
    OBVIOUS
  <2>4. PICK s : s = n - 1 - Half
    OBVIOUS
  <2>5. Half * q + r = Half * 1 + s
    BY <2>1, <2>2, <2>3, <2>4
  <2>6. r = s
    BY <1>1, <2>1, <2>2, <2>3, <2>4, <2>5, QuotientsEqual
  <2>7. UsedUp(n - 1) <=> n - 1 - Half = 0
    BY <2>3, <2>4, <2>6 DEF UsedUp
  <2>8. QED
    BY <1>1, <1>3, <1>5, <2>7
<1>6. QED
  BY <1>1, <1>4, <1>5
\* A function on 1..n is a sequence of length n.
LEMMA FunctionIsSeq ==
  ASSUME NEW S, NEW n \in Nat, NEW f \in [1..n -> S]
  PROVE  f \in Seq(S) /\ Len(f) = n
<1>1. f \in Seq(S)
  BY SeqDef
<1>2. Len(f) \in Nat /\ DOMAIN f = 1..Len(f)
  BY <1>1, LenProperties
<1>3. 1..Len(f) = 1..n
  BY <1>2
<1>4. Len(f) = n
  BY <1>2, <1>3
<1>5. QED
  BY <1>1, <1>4

\* What is transferred on each line: a sequence of sequences of addresses.
Moves == Seq(Seq(Addresses))

LEMMA EntryType ==
  ASSUME memory \in [Addresses -> Bytes], NEW mode \in Mode, NEW a \in Addresses
  PROVE  /\ DataOf(memory, mode, a) \in Addresses /\ EntryAfter(memory, mode, a) \in Addresses
         /\ memory[a] # 0 => EntryLines(memory, a) \in Nat /\ EntryLines(memory, a) >= 1
<1>1. a \in Int /\ Half \in Nat /\ Half > 1 /\ Page \in Nat /\ mode.unit \in Nat
  BY HdmaAssumption DEF Addresses, Mode
<1>2. PICK data : data = Wrap(a + 1)
  OBVIOUS
<1>3. data \in Addresses /\ data \in Int /\ Wrap(data + 1) \in Addresses
  <2>1. data \in Addresses
    BY <1>1, <1>2, WrapType
  <2>2. PICK d \in Int : d = data + 1
    BY <2>1 DEF Addresses
  <2>3. Wrap(d) \in Addresses
    BY WrapType
  <2>4. QED
    BY <2>1, <2>2, <2>3 DEF Addresses
<1>4. memory[data] \in Nat /\ memory[Wrap(data + 1)] \in Nat /\ memory[a] \in Nat
  <2>1. \A b \in Bytes : b \in Nat
    BY <1>1 DEF Bytes
  <2>2. \A d \in Addresses : memory[d] \in Bytes
    OBVIOUS
  <2>3. QED
    BY <1>3, <2>1, <2>2
<1>5. DataOf(memory, mode, a) \in Addresses
  <2>1. memory[data] + Page * memory[Wrap(data + 1)] \in Int
    BY <1>1, <1>4
  <2>2. Wrap(memory[data] + Page * memory[Wrap(data + 1)]) \in Addresses
    BY <2>1, WrapType
  <2>3. QED
    BY <1>2, <1>3, <2>2 DEF DataOf
<1>6. EntryLines(memory, a) \in Int /\ (memory[a] # 0 => EntryLines(memory, a) >= 1)
  BY <1>1, <1>4 DEF EntryLines, Repeats
<1>7. EntryAfter(memory, mode, a) \in Addresses
  <2>1. PICK l \in Int : l = IF Repeats(memory, a) THEN EntryLines(memory, a) ELSE 1
    BY <1>6
  <2>2. data + mode.unit * l \in Int /\ data + 2 \in Int
    BY <1>1, <1>3
  <2>3. Wrap(data + mode.unit * l) \in Addresses /\ Wrap(data + 2) \in Addresses
    BY <2>2, WrapType
  <2>4. QED
    BY <1>2, <2>1, <2>3 DEF EntryAfter
<1>8. QED
  BY <1>5, <1>6, <1>7

LEMMA EntryMovesType ==
  ASSUME memory \in [Addresses -> Bytes], NEW mode \in Mode, NEW a \in Addresses, NEW n \in Nat
  PROVE  /\ EntryMoves(memory, mode, a, n) \in Moves
         /\ Len(EntryMoves(memory, mode, a, n)) = n
<1>1. ASSUME NEW i \in 1..n
      PROVE  (IF i = 1 \/ Repeats(memory, a)
              THEN <<Wrap(DataOf(memory, mode, a) + (i - 1) * mode.unit)>> ELSE <<>>)
             \in Seq(Addresses)
  <2>1. DataOf(memory, mode, a) \in Int /\ mode.unit \in Int /\ i - 1 \in Int
    BY <1>1, EntryType DEF Addresses, Mode
  <2>2. DataOf(memory, mode, a) + (i - 1) * mode.unit \in Int
    BY <2>1
  <2>3. Wrap(DataOf(memory, mode, a) + (i - 1) * mode.unit) \in Addresses
    BY <2>2, WrapType
  <2>4. QED
    BY <2>3
<1>2. EntryMoves(memory, mode, a, n) \in [1..n -> Seq(Addresses)]
  BY <1>1 DEF EntryMoves
<1>3. QED
  BY <1>2, FunctionIsSeq DEF Moves

\* The table from the rows before it.
Row(rows, mode, n) ==
  [a \in Addresses |->
     IF n = 0 \/ memory[a] = 0 THEN <<>>
     ELSE LET shown == IF EntryLines(memory, a) < n THEN EntryLines(memory, a) ELSE n
          IN  EntryMoves(memory, mode, a, shown) \o rows[n - shown][EntryAfter(memory, mode, a)]]

IsTable(f, mode, n) == f = [k \in 0..n |-> Row(f, mode, k)]

LEMMA RowOfFewer ==
  ASSUME memory \in [Addresses -> Bytes], NEW mode \in Mode, NEW n \in Nat, NEW f, NEW g,
         \A k \in 0..(n - 1) : f[k] = g[k]
  PROVE  Row(f, mode, n) = Row(g, mode, n)
<1>1. ASSUME NEW a \in Addresses, n # 0, memory[a] # 0
      PROVE  n - (IF EntryLines(memory, a) < n THEN EntryLines(memory, a) ELSE n) \in 0..(n - 1)
  <2>1. PICK l \in Nat : l = EntryLines(memory, a) /\ l >= 1
    BY <1>1, EntryType
  <2>2. QED
    BY <1>1, <2>1
<1>2. QED
  BY <1>1 DEF Row

LEMMA TableExists ==
  ASSUME memory \in [Addresses -> Bytes], NEW mode \in Mode
  PROVE  \A n \in Nat : \E f : IsTable(f, mode, n)
<1> DEFINE T == {n \in Nat : \E f : IsTable(f, mode, n)}
<1>1. 0 \in T
  <2>1. PICK z : z = Row(<<>>, mode, 0)
    OBVIOUS
  <2>2. PICK f : f = [k \in 0..0 |-> z]
    OBVIOUS
  <2>3. Row(f, mode, 0) = z
    BY <2>1 DEF Row
  <2>4. IsTable(f, mode, 0)
    BY <2>2, <2>3 DEF IsTable
  <2>5. QED
    BY <2>4
<1>2. ASSUME NEW n \in Nat, n \in T PROVE n + 1 \in T
  <2>1. PICK f : IsTable(f, mode, n)
    BY <1>2
  <2>2. PICK z : z = Row(f, mode, n + 1)
    OBVIOUS
  <2>3. PICK g : g = [k \in 0..(n + 1) |-> IF k = n + 1 THEN z ELSE f[k]]
    OBVIOUS
  <2>4. ASSUME NEW k \in 0..(n + 1) PROVE Row(g, mode, k) = Row(f, mode, k)
    <3>1. \A i \in 0..(k - 1) : g[i] = f[i]
      BY <2>3
    <3>2. QED
      BY <3>1, RowOfFewer
  <2>5. ASSUME NEW k \in 0..(n + 1) PROVE g[k] = Row(g, mode, k)
    <3>1. CASE k = n + 1
      BY <2>2, <2>3, <2>4, <3>1
    <3>2. CASE k # n + 1
      <4>1. k \in 0..n
        BY <3>2
      <4>2. f[k] = Row(f, mode, k)
        BY <2>1, <4>1 DEF IsTable
      <4>3. QED
        BY <2>3, <2>4, <3>2, <4>2
    <3>3. QED
      BY <3>1, <3>2
  <2>6. IsTable(g, mode, n + 1)
    BY <2>3, <2>5 DEF IsTable
  <2>7. QED
    BY <2>6
<1> HIDE DEF T
<1>3. \A n \in Nat : n \in T
  BY <1>1, <1>2, Up
<1>4. QED
  BY <1>3 DEF T

LEMMA TableIs ==
  ASSUME memory \in [Addresses -> Bytes], NEW mode \in Mode
  PROVE  IsTable(TableLines(memory, mode), mode, VisibleLines)
<1> DEFINE f == CHOOSE f : IsTable(f, mode, VisibleLines)
<1>1. IsTable(f, mode, VisibleLines)
  BY TableExists, HdmaAssumption
<1>2. TableLines(memory, mode) = f
  BY DEF TableLines, IsTable, Row
<1>3. QED
  BY <1>1, <1>2

LEMMA TableRow ==
  ASSUME memory \in [Addresses -> Bytes], NEW mode \in Mode, NEW n \in 0..VisibleLines,
         NEW a \in Addresses
  PROVE  TableLines(memory, mode)[n][a] = Row(TableLines(memory, mode), mode, n)[a]
  BY TableIs DEF IsTable
LEMMA TableType ==
  ASSUME memory \in [Addresses -> Bytes], NEW mode \in Mode
  PROVE  \A n \in 0..VisibleLines : \A a \in Addresses : TableLines(memory, mode)[n][a] \in Moves
<1>1. PICK t : t = TableLines(memory, mode)
  OBVIOUS
<1> DEFINE T == {n \in Nat : \A k \in 0..n : k <= VisibleLines =>
                               \A a \in Addresses : t[k][a] \in Moves}
<1>2. ASSUME NEW n \in Nat, n <= VisibleLines,
             \A k \in 0..(n - 1) : \A a \in Addresses : t[k][a] \in Moves, NEW a \in Addresses
      PROVE  t[n][a] \in Moves
  <2>1. t[n][a] = Row(t, mode, n)[a]
    BY <1>1, <1>2, TableRow, HdmaAssumption
  <2>2. CASE n = 0 \/ memory[a] = 0
    <3>1. t[n][a] = <<>>
      BY <2>1, <2>2 DEF Row
    <3>2. QED
      BY <3>1 DEF Moves
  <2>3. CASE ~(n = 0 \/ memory[a] = 0)
    <3>1. PICK l \in Nat : l = EntryLines(memory, a) /\ l >= 1
      BY <2>3, EntryType
    <3>2. PICK shown \in Nat : shown = IF l < n THEN l ELSE n
      BY <3>1
    <3>3. PICK e \in Addresses : e = EntryAfter(memory, mode, a)
      BY EntryType
    <3>4. t[n][a] = EntryMoves(memory, mode, a, shown) \o t[n - shown][e]
      BY <2>1, <2>3, <3>1, <3>2, <3>3 DEF Row
    <3>5. n - shown \in 0..(n - 1)
      BY <2>3, <3>1, <3>2
    <3>6. t[n - shown][e] \in Moves
      BY <1>2, <3>5
    <3>7. EntryMoves(memory, mode, a, shown) \in Moves
      BY EntryMovesType
    <3>8. QED
      BY <3>4, <3>6, <3>7, ConcatProperties DEF Moves
  <2>4. QED
    BY <2>2, <2>3
<1>3. 0 \in T
  <2>1. \A a \in Addresses : 0 <= VisibleLines => t[0][a] \in Moves
    BY <1>2
  <2>2. QED
    BY <2>1
<1>4. ASSUME NEW n \in Nat, n \in T PROVE n + 1 \in T
  <2>1. ASSUME n + 1 <= VisibleLines, NEW a \in Addresses PROVE t[n + 1][a] \in Moves
    <3>1. PICK m \in Nat : m = n + 1 /\ m <= VisibleLines /\ m - 1 = n
      BY <2>1
    <3>2. \A k \in 0..(m - 1) : \A b \in Addresses : t[k][b] \in Moves
      BY <1>4, <3>1, HdmaAssumption
    <3>3. QED
      BY <1>2, <3>1, <3>2
  <2>2. QED
    BY <1>4, <2>1
<1> HIDE DEF T
<1>5. \A n \in Nat : n \in T
  BY <1>3, <1>4, Up
<1>6. VisibleLines \in T
  BY <1>5, HdmaAssumption
<1>7. QED
  BY <1>1, <1>6, HdmaAssumption DEF T

-----------------------------------------------------------------------------
(* All the addresses of the lines, one after the other.                    *)

IsJoin(f, s, n) == f = [k \in 0..n |-> IF k = 0 THEN <<>> ELSE f[k - 1] \o s[k]]

LEMMA JoinExists ==
  ASSUME NEW s
  PROVE  \A n \in Nat : \E f : IsJoin(f, s, n)
<1> DEFINE T == {n \in Nat : \E f : IsJoin(f, s, n)}
<1>1. 0 \in T
  <2>1. IsJoin([k \in 0..0 |-> <<>>], s, 0)
    BY DEF IsJoin
  <2>2. QED
    BY <2>1
<1>2. ASSUME NEW n \in Nat, n \in T PROVE n + 1 \in T
  <2>1. PICK f : IsJoin(f, s, n)
    BY <1>2
  <2>2. PICK z : z = f[n] \o s[n + 1]
    OBVIOUS
  <2>3. PICK g : g = [k \in 0..(n + 1) |-> IF k = n + 1 THEN z ELSE f[k]]
    OBVIOUS
  <2>4. ASSUME NEW k \in 0..(n + 1)
        PROVE  g[k] = IF k = 0 THEN <<>> ELSE g[k - 1] \o s[k]
    <3>1. CASE k = n + 1
      <4>1. n \in 0..(n + 1) /\ n # n + 1 /\ k - 1 = n /\ k # 0
        BY <3>1
      <4>2. g[n] = f[n]
        BY <2>3, <4>1
      <4>3. g[k] = z
        BY <2>3, <3>1
      <4>4. QED
        BY <2>2, <3>1, <4>1, <4>2, <4>3
    <3>2. CASE k # n + 1
      <4>1. k \in 0..n /\ (k # 0 => k - 1 \in 0..(n + 1) /\ k - 1 # n + 1)
        BY <3>2
      <4>2. f[k] = IF k = 0 THEN <<>> ELSE f[k - 1] \o s[k]
        BY <2>1, <4>1 DEF IsJoin
      <4>3. g[k] = f[k] /\ (k # 0 => g[k - 1] = f[k - 1])
        BY <2>3, <3>2, <4>1
      <4>4. QED
        BY <4>2, <4>3
    <3>3. QED
      BY <3>1, <3>2
  <2>5. IsJoin(g, s, n + 1)
    BY <2>3, <2>4 DEF IsJoin
  <2>6. QED
    BY <2>5
<1> HIDE DEF T
<1>3. \A n \in Nat : n \in T
  BY <1>1, <1>2, Up
<1>4. QED
  BY <1>3 DEF T

LEMMA JoinedIs ==
  ASSUME NEW s, Len(s) \in Nat
  PROVE  \E f : IsJoin(f, s, Len(s)) /\ Joined(s) = f[Len(s)]
<1> DEFINE f == CHOOSE f : IsJoin(f, s, Len(s))
<1>1. IsJoin(f, s, Len(s))
  BY JoinExists
<1>2. Joined(s) = f[Len(s)]
  BY DEF Joined, IsJoin
<1>3. QED
  BY <1>1, <1>2

LEMMA JoinedNone == Joined(<<>>) = <<>>
<1>1. Len(<<>>) = 0
  OBVIOUS
<1>2. PICK f : IsJoin(f, <<>>, 0) /\ Joined(<<>>) = f[0]
  BY <1>1, JoinedIs
<1>3. QED
  BY <1>1, <1>2 DEF IsJoin

\* One more line.
LEMMA JoinedGoesOn ==
  ASSUME NEW s \in Moves, NEW t \in Moves, Len(t) = Len(s) + 1,
         \A i \in 1..Len(s) : t[i] = s[i]
  PROVE  Joined(t) = Joined(s) \o t[Len(t)]
<1>1. Len(s) \in Nat /\ Len(t) \in Nat
  BY DEF Moves
<1>2. PICK f : IsJoin(f, s, Len(s)) /\ Joined(s) = f[Len(s)]
  BY <1>1, JoinedIs
<1>3. PICK g : IsJoin(g, t, Len(t)) /\ Joined(t) = g[Len(t)]
  BY <1>1, JoinedIs
<1> DEFINE T == {i \in Nat : i <= Len(s) => f[i] = g[i]}
<1>4. 0 \in T
  BY <1>1, <1>2, <1>3 DEF IsJoin
<1>5. ASSUME NEW i \in Nat, i \in T PROVE i + 1 \in T
  <2>1. SUFFICES ASSUME i + 1 <= Len(s) PROVE f[i + 1] = g[i + 1]
    OBVIOUS
  <2>2. i + 1 \in 0..Len(s) /\ i + 1 \in 0..Len(t) /\ i + 1 # 0 /\ (i + 1) - 1 = i /\ i + 1 \in 1..Len(s)
    BY <1>1, <2>1
  <2>3. f[i + 1] = f[i] \o s[i + 1] /\ g[i + 1] = g[i] \o t[i + 1]
    BY <1>2, <1>3, <2>2 DEF IsJoin
  <2>4. f[i] = g[i] /\ t[i + 1] = s[i + 1]
    BY <1>5, <2>1, <2>2, <1>1
  <2>5. QED
    BY <2>3, <2>4
<1> HIDE DEF T
<1>6. \A i \in Nat : i \in T
  BY <1>4, <1>5, Up
<1>7. f[Len(s)] = g[Len(s)]
  BY <1>1, <1>6 DEF T
<1>8. Len(t) \in 0..Len(t) /\ Len(t) # 0 /\ Len(t) - 1 = Len(s)
  BY <1>1
<1>9. g[Len(t)] = g[Len(t) - 1] \o t[Len(t)]
  BY <1>3, <1>8 DEF IsJoin
<1>10. QED
  BY <1>2, <1>3, <1>7, <1>8, <1>9
-----------------------------------------------------------------------------
(* A walk in the middle of its table.                                      *)

\* Walk w is in the entry at e of memory m, j of whose lines it was served on.
Within(m, w, e, j) ==
  /\ m[e] # 0 /\ j < EntryLines(m, e)
  /\ w.run = [active |-> TRUE, transfer |-> j = 0 \/ Repeats(m, e)]
  /\ w.ch.ntrl = m[e] - j
  /\ w.run.transfer => (IF w.ch.mode.indirect THEN w.ch.das ELSE w.ch.a2a) =
                       Wrap(DataOf(m, w.ch.mode, e) + j * w.ch.mode.unit)
  /\ w.ch.mode.indirect \/ ~w.run.transfer => w.ch.a2a = EntryAfter(m, w.ch.mode, e)

\* The table at start is the lines of L, then those of the table at e.
Reaches(m, mode, start, L, e) ==
  /\ L \in Moves /\ e \in Addresses
  /\ \A k \in Nat : Len(L) + k <= VisibleLines =>
       TableLines(m, mode)[Len(L) + k][start] = L \o TableLines(m, mode)[k][e]

\* It has played L and j lines of the entry at e, which may be the end.
PlaysIn(m, w, start, lead, L, e, j) ==
  /\ Reaches(m, w.ch.mode, start, L, e) /\ j \in Nat
  /\ w.lines - lead = Len(L) + j
  /\ w.units = Joined(L \o EntryMoves(m, w.ch.mode, e, j))
  /\ \/ Within(m, w, e, j)
     \/ j = 0 /\ m[e] = 0 /\ w.run = Idle /\ w.ended

Playing(m, w, start, lead) == \E L, e, j : PlaysIn(m, w, start, lead, L, e, j)

LEMMA NoMoves ==
  ASSUME NEW m, NEW mode, NEW e
  PROVE  EntryMoves(m, mode, e, 0) = <<>>
  BY DEF EntryMoves

LEMMA LoadEntryFields ==
  ASSUME memory \in [Addresses -> Bytes], NEW w \in Walks
  PROVE  LET l == LoadEntry(w)
             e == w.ch.a2a
         IN  /\ l.ch.mode = w.ch.mode /\ l.units = w.units /\ l.lines = w.lines
             /\ memory[e] = 0 => l.run = Idle /\ l.ended
             /\ memory[e] # 0 =>
                  /\ l.run = [active |-> TRUE, transfer |-> TRUE] /\ l.ch.ntrl = memory[e]
                  /\ (IF w.ch.mode.indirect THEN l.ch.das ELSE l.ch.a2a) =
                       DataOf(memory, w.ch.mode, e)
                  /\ w.ch.mode.indirect => l.ch.a2a = EntryAfter(memory, w.ch.mode, e)
<1> DEFINE count == memory[w.ch.a2a]
           data  == Wrap(w.ch.a2a + 1)
           regs  == [w.ch EXCEPT !.ntrl = count, !.a2a = data]
           far   == [regs EXCEPT !.a2a = Wrap(data + 2), !.das = Word(data)]
<1>1. w.ch \in Registers
  BY DEF Walks
<1>2. regs.mode = w.ch.mode /\ regs.ntrl = count /\ regs.a2a = data
  BY <1>1 DEF Registers
<1>3. regs = [regs EXCEPT !.a2a = regs.a2a] /\ regs \in [mode : Mode, a1t : Addresses, a2a : {data}, das : Addresses, ntrl : {count}]
  BY <1>1 DEF Registers
<1> HIDE DEF regs
<1>4. far.mode = w.ch.mode /\ far.ntrl = count /\ far.a2a = Wrap(data + 2) /\ far.das = Word(data)
  BY <1>2, <1>3
<1> HIDE DEF far
<1>5. LoadEntry(w) = IF count = 0
                     THEN [w EXCEPT !.ch = regs, !.run = Idle, !.ended = TRUE]
                     ELSE [w EXCEPT !.ch = IF w.ch.mode.indirect THEN far ELSE regs,
                                    !.run = [active |-> TRUE, transfer |-> TRUE]]
  BY DEF LoadEntry, regs, far
<1>6. /\ w.ch.mode.indirect => /\ DataOf(memory, w.ch.mode, w.ch.a2a) = Word(data)
                               /\ EntryAfter(memory, w.ch.mode, w.ch.a2a) = Wrap(data + 2)
      /\ ~w.ch.mode.indirect => DataOf(memory, w.ch.mode, w.ch.a2a) = data
  BY DEF DataOf, EntryAfter, Word
<1> HIDE DEF count, data
<1>7. CASE count = 0
  <2>1. LoadEntry(w) = [w EXCEPT !.ch = regs, !.run = Idle, !.ended = TRUE]
    BY <1>5, <1>7
  <2>2. /\ LoadEntry(w).ch = regs /\ LoadEntry(w).run = Idle /\ LoadEntry(w).ended
        /\ LoadEntry(w).units = w.units /\ LoadEntry(w).lines = w.lines
    BY <2>1 DEF Walks
  <2>3. QED
    BY <1>2, <1>7, <2>2 DEF count
<1>8. CASE count # 0
  <2>1. PICK r : r = IF w.ch.mode.indirect THEN far ELSE regs
    OBVIOUS
  <2>2. LoadEntry(w) = [w EXCEPT !.ch = r, !.run = [active |-> TRUE, transfer |-> TRUE]]
    BY <1>5, <1>8, <2>1
  <2>3. /\ LoadEntry(w).ch = r /\ LoadEntry(w).run = [active |-> TRUE, transfer |-> TRUE]
        /\ LoadEntry(w).units = w.units /\ LoadEntry(w).lines = w.lines
    BY <2>2 DEF Walks
  <2>4. QED
    BY <1>2, <1>4, <1>6, <1>8, <2>1, <2>3 DEF count
<1>9. QED
  BY <1>7, <1>8

\* A walk about to load the entry its table has reached plays on.
LEMMA LoadEntryPlays ==
  ASSUME memory \in [Addresses -> Bytes], NEW w \in Walks, NEW start, NEW lead, NEW L,
         Reaches(memory, w.ch.mode, start, L, w.ch.a2a), w.lines - lead = Len(L),
         w.units = Joined(L)
  PROVE  Playing(memory, LoadEntry(w), start, lead)
<1>1. PICK l : l = LoadEntry(w)
  OBVIOUS
<1>2. PICK e : e = w.ch.a2a
  OBVIOUS
<1>3. PICK mode : mode = w.ch.mode
  OBVIOUS
<1>4. /\ l.ch.mode = mode /\ l.units = w.units /\ l.lines = w.lines
      /\ memory[e] = 0 => l.run = Idle /\ l.ended
      /\ memory[e] # 0 =>
           /\ l.run = [active |-> TRUE, transfer |-> TRUE] /\ l.ch.ntrl = memory[e]
           /\ (IF mode.indirect THEN l.ch.das ELSE l.ch.a2a) = DataOf(memory, mode, e)
           /\ mode.indirect => l.ch.a2a = EntryAfter(memory, mode, e)
  BY <1>1, <1>2, <1>3, LoadEntryFields
<1>5. Reaches(memory, mode, start, L, e)
  BY <1>2, <1>3
<1>6. mode \in Mode /\ e \in Addresses /\ L \in Moves
  BY <1>3, <1>5 DEF Walks, Registers, Reaches
<1>7. Len(L) + 0 = Len(L) /\ L \o EntryMoves(memory, mode, e, 0) = L
  BY <1>6, NoMoves, ConcatEmptySeq DEF Moves
<1>8. CASE memory[e] # 0
  <2>1. EntryLines(memory, e) \in Nat /\ EntryLines(memory, e) >= 1
    BY <1>6, <1>8, EntryType
  <2>2. memory[e] \in Nat
    BY <1>6, HdmaAssumption DEF Bytes
  <2>3. PICK d \in Addresses : d = DataOf(memory, mode, e)
    BY <1>6, EntryType
  <2>4. Wrap(d + 0 * mode.unit) = d
    <3>1. mode.unit \in Int /\ d \in Int /\ Space \in Nat /\ Space > 0 /\ d \in 0..(Space - 1)
      BY <1>6, HdmaAssumption DEF Mode, Addresses
    <3>2. d + 0 * mode.unit = d
      BY <3>1
    <3>3. PICK q \in Int : d = Space * q + (d % Space) /\ d % Space \in 0..(Space - 1)
      BY <3>1, Remainder
    <3>4. PICK r : r = d % Space
      OBVIOUS
    <3>5. Space * q + r = Space * 0 + d
      BY <3>1, <3>3, <3>4
    <3>6. r = d
      BY <3>1, <3>3, <3>4, <3>5, QuotientsEqual
    <3>7. QED
      BY <3>2, <3>4, <3>6 DEF Wrap
  <2>5. Within(memory, l, e, 0)
    <3>1. l.run = [active |-> TRUE, transfer |-> 0 = 0 \/ Repeats(memory, e)]
      BY <1>4, <1>8
    <3>2. l.run.transfer = TRUE /\ l.ch.ntrl = memory[e] - 0 /\ 0 < EntryLines(memory, e)
      BY <1>4, <1>8, <2>1, <2>2
    <3>3. Wrap(DataOf(memory, l.ch.mode, e) + 0 * l.ch.mode.unit) = d
      BY <1>4, <2>3, <2>4
    <3>4. (IF l.ch.mode.indirect THEN l.ch.das ELSE l.ch.a2a) = d
      BY <1>4, <1>8, <2>3
    <3>5. l.ch.mode.indirect => l.ch.a2a = EntryAfter(memory, l.ch.mode, e)
      BY <1>4, <1>8
    <3>6. QED
      BY <1>8, <3>1, <3>2, <3>3, <3>4, <3>5 DEF Within
  <2>6. PlaysIn(memory, l, start, lead, L, e, 0)
    BY <1>4, <1>5, <1>7, <2>5 DEF PlaysIn
  <2>7. QED
    BY <1>1, <2>6 DEF Playing
<1>9. CASE memory[e] = 0
  <2>1. PlaysIn(memory, l, start, lead, L, e, 0)
    BY <1>4, <1>5, <1>7, <1>9 DEF PlaysIn
  <2>2. QED
    BY <1>1, <2>1 DEF Playing
<1>10. QED
  BY <1>8, <1>9
\* The counter of an entry: when it is used up, and what its repeat bit says.
LEMMA EntryCounts ==
  ASSUME memory \in [Addresses -> Bytes], NEW e \in Addresses, memory[e] # 0, NEW j \in Nat,
         j < EntryLines(memory, e)
  PROVE  LET n == memory[e] - j IN
         /\ n \in Bytes /\ n # 0
         /\ UsedUp(n - 1) <=> j + 1 = EntryLines(memory, e)
         /\ j + 1 < EntryLines(memory, e) => (n - 1 >= Half <=> Repeats(memory, e))
<1>1. Half \in Nat /\ Half > 1
  BY HdmaAssumption
<1>2. PICK c \in 1..(2 * Half - 1) : c = memory[e]
  BY <1>1 DEF Bytes
<1>3. PICK l \in Nat : l = EntryLines(memory, e) /\ l >= 1 /\ j < l
  <2>1. PICK mode : mode = [unit |-> 1, step |-> 0, indirect |-> FALSE]
    OBVIOUS
  <2>2. mode \in Mode
    BY <2>1 DEF Mode
  <2>3. QED
    BY <2>2, EntryType
<1>4. (Repeats(memory, e) <=> c > Half) /\ l = IF c > Half THEN c - Half ELSE c
  BY <1>2, <1>3 DEF Repeats, EntryLines
<1>5. PICK n \in 1..(2 * Half - 1) : n = c - j
  BY <1>1, <1>3, <1>4
<1>6. n \in Bytes /\ n # 0
  BY <1>1, <1>5 DEF Bytes
<1>7. UsedUp(n - 1) <=> n = 1 \/ n = Half + 1
  BY <1>6, CountsDown
<1>8. n = 1 \/ n = Half + 1 <=> j + 1 = l
  BY <1>1, <1>3, <1>4, <1>5
<1>9. j + 1 < l => (n - 1 >= Half <=> c > Half)
  BY <1>1, <1>3, <1>4, <1>5
<1>10. n = memory[e] - j
  BY <1>2, <1>5
<1>11. QED
  BY <1>3, <1>4, <1>6, <1>7, <1>8, <1>9, <1>10

\* The transfers of one line more.
LEMMA OneLineMore ==
  ASSUME memory \in [Addresses -> Bytes], NEW mode \in Mode, NEW e \in Addresses,
         NEW L \in Moves, NEW j \in Nat
  PROVE  Joined(L \o EntryMoves(memory, mode, e, j + 1)) =
           Joined(L \o EntryMoves(memory, mode, e, j)) \o
             (IF j = 0 \/ Repeats(memory, e)
              THEN <<Wrap(DataOf(memory, mode, e) + j * mode.unit)>> ELSE <<>>)
<1>1. PICK A : A = EntryMoves(memory, mode, e, j)
  OBVIOUS
<1>2. PICK B : B = EntryMoves(memory, mode, e, j + 1)
  OBVIOUS
<1>3. A \in Moves /\ Len(A) = j /\ B \in Moves /\ Len(B) = j + 1 /\ Len(L) \in Nat
  BY <1>1, <1>2, EntryMovesType DEF Moves
<1>4. ASSUME NEW i \in 1..j PROVE A[i] = B[i]
  BY <1>1, <1>2, <1>4 DEF EntryMoves
<1>5. B[j + 1] = IF j = 0 \/ Repeats(memory, e)
                 THEN <<Wrap(DataOf(memory, mode, e) + j * mode.unit)>> ELSE <<>>
  <2>1. j + 1 \in 1..(j + 1) /\ (j + 1 = 1 <=> j = 0) /\ (j + 1) - 1 = j
    OBVIOUS
  <2>2. B[j + 1] = IF j + 1 = 1 \/ Repeats(memory, e)
                   THEN <<Wrap(DataOf(memory, mode, e) + ((j + 1) - 1) * mode.unit)>> ELSE <<>>
    BY <1>2, <2>1 DEF EntryMoves
  <2>3. QED
    BY <2>1, <2>2
<1>6. PICK s : s = L \o A
  OBVIOUS
<1>7. PICK t : t = L \o B
  OBVIOUS
<1>8. /\ s \in Moves /\ Len(s) = Len(L) + j
      /\ \A i \in 1..(Len(L) + j) : s[i] = IF i <= Len(L) THEN L[i] ELSE A[i - Len(L)]
  BY <1>3, <1>6, ConcatProperties DEF Moves
<1>9. /\ t \in Moves /\ Len(t) = Len(L) + (j + 1)
      /\ \A i \in 1..(Len(L) + (j + 1)) : t[i] = IF i <= Len(L) THEN L[i] ELSE B[i - Len(L)]
  BY <1>3, <1>7, ConcatProperties DEF Moves
<1>10. \A i \in 1..Len(s) : t[i] = s[i]
  <2> SUFFICES ASSUME NEW i \in 1..Len(s) PROVE t[i] = s[i]
    OBVIOUS
  <2>1. CASE i <= Len(L)
    BY <1>3, <1>8, <1>9, <2>1
  <2>2. CASE i > Len(L)
    <3>0. i \in Nat /\ i <= Len(L) + j
      BY <1>3, <1>8
    <3>1. PICK k \in 1..j : k = i - Len(L)
      <4>1. i - Len(L) \in 1..j
        BY <1>3, <2>2, <3>0
      <4>2. QED
        BY <4>1
    <3>2. i \in 1..(Len(L) + j) /\ i \in 1..(Len(L) + (j + 1)) /\ ~(i <= Len(L))
      BY <1>3, <1>8, <2>2
    <3>3. s[i] = A[i - Len(L)]
      BY <1>8, <3>2
    <3>4. t[i] = B[i - Len(L)]
      BY <1>9, <3>2
    <3>5. QED
      BY <1>4, <3>1, <3>3, <3>4
  <2>3. QED
    BY <1>3, <1>8, <2>1, <2>2
<1>11. t[Len(t)] = B[j + 1]
  BY <1>3, <1>9
<1>12. Joined(t) = Joined(s) \o t[Len(t)]
  <2>1. Len(t) = Len(s) + 1
    BY <1>3, <1>8, <1>9
  <2>2. QED
    BY <1>8, <1>9, <1>10, <2>1, JoinedGoesOn
<1>13. QED
  BY <1>1, <1>2, <1>5, <1>6, <1>7, <1>11, <1>12

\* From the end of an entry the table goes on at the next.
LEMMA ReachesNext ==
  ASSUME memory \in [Addresses -> Bytes], NEW mode \in Mode, NEW start \in Addresses,
         NEW L, NEW e, Reaches(memory, mode, start, L, e), memory[e] # 0
  PROVE  Reaches(memory, mode, start,
                 L \o EntryMoves(memory, mode, e, EntryLines(memory, e)),
                 EntryAfter(memory, mode, e))
<1>1. L \in Moves /\ e \in Addresses /\ Len(L) \in Nat
  BY DEF Reaches, Moves
<1>2. PICK l \in Nat : l = EntryLines(memory, e) /\ l >= 1
  BY <1>1, EntryType
<1>3. PICK M \in Moves : M = EntryMoves(memory, mode, e, l) /\ Len(M) = l
  BY <1>1, EntryMovesType
<1>4. PICK a \in Addresses : a = EntryAfter(memory, mode, e)
  BY <1>1, EntryType
<1>5. PICK t : t = TableLines(memory, mode)
  OBVIOUS
<1>6. L \o M \in Moves /\ Len(L \o M) = Len(L) + l
  <2>1. L \in Seq(Seq(Addresses)) /\ M \in Seq(Seq(Addresses)) /\ Len(M) = l
    BY <1>1, <1>3 DEF Moves
  <2>2. L \o M \in Seq(Seq(Addresses)) /\ Len(L \o M) = Len(L) + Len(M)
    BY <2>1, ConcatProperties
  <2>3. QED
    BY <2>1, <2>2 DEF Moves
<1>7. ASSUME NEW k \in Nat, Len(L \o M) + k <= VisibleLines
      PROVE  t[Len(L \o M) + k][start] = (L \o M) \o t[k][a]
  <2>1. PICK n \in 0..VisibleLines : n = l + k /\ n # 0 /\ n - l = k /\ n >= l
                                     /\ Len(L) + n = Len(L \o M) + k /\ k \in 0..VisibleLines
    BY <1>1, <1>2, <1>6, <1>7, HdmaAssumption
  <2>2. t[Len(L) + n][start] = L \o t[n][e]
    <3>1. n \in Nat /\ Len(L) + n <= VisibleLines
      BY <1>7, <2>1, HdmaAssumption
    <3>2. \A i \in Nat : Len(L) + i <= VisibleLines => t[Len(L) + i][start] = L \o t[i][e]
      BY <1>5 DEF Reaches
    <3>3. QED
      BY <3>1, <3>2
  <2>3. t[n][e] = Row(t, mode, n)[e]
    BY <1>1, <1>5, <2>1, TableRow
  <2>4. (IF l < n THEN l ELSE n) = l
    BY <1>2, <2>1
  <2>5. t[n][e] = EntryMoves(memory, mode, e, l) \o t[n - l][a]
    BY <1>1, <1>2, <1>4, <2>1, <2>3, <2>4 DEF Row
  <2>6. t[n][e] = M \o t[k][a]
    BY <1>3, <2>1, <2>5
  <2>7. t[k][a] \in Moves
    BY <1>5, <2>1, TableType
  <2>8. (L \o M) \o t[k][a] = L \o (M \o t[k][a])
    <3>1. PICK u \in Seq(Seq(Addresses)) : u = t[k][a]
      BY <2>7 DEF Moves
    <3>2. L \in Seq(Seq(Addresses)) /\ M \in Seq(Seq(Addresses))
      BY <1>1, <1>3 DEF Moves
    <3>3. (L \o M) \o u = L \o (M \o u)
      BY <3>2, ConcatAssociative
    <3>4. QED
      BY <3>1, <3>3
  <2>9. QED
    BY <2>1, <2>2, <2>6, <2>8
<1>8. QED
  BY <1>2, <1>3, <1>4, <1>5, <1>6, <1>7 DEF Reaches
-----------------------------------------------------------------------------
(* Serving a line plays one line of the table.                             *)

Source(w) == IF w.ch.mode.indirect THEN w.ch.das ELSE w.ch.a2a

LEMMA MoveBytesFields ==
  ASSUME NEW w \in Walks, NEW k \in Int
  PROVE  LET v == MoveBytes(w, k) IN
         /\ v \in Walks /\ v.run = w.run /\ v.ended = w.ended /\ v.lines = w.lines
         /\ v.ch.mode = w.ch.mode /\ v.ch.ntrl = w.ch.ntrl
         /\ v.units = w.units \o <<Source(w)>> /\ Source(v) = Wrap(Source(w) + k)
         /\ w.ch.mode.indirect => v.ch.a2a = w.ch.a2a
<1>1. MoveBytes(w, k) \in Walks
  BY MoveBytesType
<1>2. w.ch \in Registers /\ w.units \in Seq(Addresses)
  BY DEF Walks
<1>3. Source(w) \in Addresses
  BY <1>2 DEF Source, Registers
<1>4. Append(w.units, Source(w)) = w.units \o <<Source(w)>>
  BY <1>2, <1>3, AppendIsConcat
<1>5. CASE w.ch.mode.indirect
  <2>1. PICK r : r = [w.ch EXCEPT !.das = Wrap(@ + k)]
    OBVIOUS
  <2>2. /\ r.mode = w.ch.mode /\ r.ntrl = w.ch.ntrl /\ r.a2a = w.ch.a2a
        /\ r.das = Wrap(w.ch.das + k)
    BY <1>2, <2>1 DEF Registers
  <2>3. PICK u : u = Append(w.units, w.ch.das)
    OBVIOUS
  <2>4. MoveBytes(w, k) = [w EXCEPT !.ch = r, !.units = u]
    BY <1>5, <2>1, <2>3 DEF MoveBytes
  <2>5. /\ MoveBytes(w, k).ch = r /\ MoveBytes(w, k).units = u
        /\ MoveBytes(w, k).run = w.run /\ MoveBytes(w, k).ended = w.ended
        /\ MoveBytes(w, k).lines = w.lines
    BY <2>4 DEF Walks
  <2>6. QED
    BY <1>1, <1>4, <1>5, <2>2, <2>3, <2>5 DEF Source
<1>6. CASE ~w.ch.mode.indirect
  <2>1. PICK r : r = [w.ch EXCEPT !.a2a = Wrap(@ + k)]
    OBVIOUS
  <2>2. r.mode = w.ch.mode /\ r.ntrl = w.ch.ntrl /\ r.a2a = Wrap(w.ch.a2a + k)
    BY <1>2, <2>1 DEF Registers
  <2>3. PICK u : u = Append(w.units, w.ch.a2a)
    OBVIOUS
  <2>4. MoveBytes(w, k) = [w EXCEPT !.ch = r, !.units = u]
    BY <1>6, <2>1, <2>3 DEF MoveBytes
  <2>5. /\ MoveBytes(w, k).ch = r /\ MoveBytes(w, k).units = u
        /\ MoveBytes(w, k).run = w.run /\ MoveBytes(w, k).ended = w.ended
        /\ MoveBytes(w, k).lines = w.lines
    BY <2>4 DEF Walks
  <2>6. QED
    BY <1>1, <1>4, <1>6, <2>2, <2>3, <2>5 DEF Source
<1>7. QED
  BY <1>5, <1>6

\* A line: the transfer that is due, and the counter.
Down(w, d) ==
  /\ d \in Walks /\ d.run = w.run /\ d.ended = w.ended /\ d.lines = w.lines + 1
  /\ d.ch.mode = w.ch.mode /\ d.ch.ntrl = w.ch.ntrl - 1
  /\ w.run.transfer => /\ d.units = w.units \o <<Source(w)>>
                       /\ Source(d) = Wrap(Source(w) + w.ch.mode.unit)
                       /\ w.ch.mode.indirect => d.ch.a2a = w.ch.a2a
  /\ ~w.run.transfer => d.units = w.units /\ d.ch.a2a = w.ch.a2a

LEMMA ServeIs ==
  ASSUME NEW w \in Walks, w.ch.ntrl # 0
  PROVE  \E d : /\ Down(w, d)
                /\ Serve(w) = IF UsedUp(w.ch.ntrl - 1) THEN LoadEntry(d)
                              ELSE [d EXCEPT !.run.transfer = w.ch.ntrl - 1 >= Half]
<1>1. PICK v : v = IF w.run.transfer THEN MoveBytes(w, w.ch.mode.unit) ELSE w
  OBVIOUS
<1>2. PICK n : n = w.ch.ntrl - 1
  OBVIOUS
<1>3. w.ch.ntrl \in Bytes /\ w.ch.mode.unit \in Int
  BY DEF Walks, Registers, Mode
<1>4. (w.ch.ntrl - 1) % (2 * Half) = n
  BY <1>2, <1>3, CountsDown
<1>5. n \in Bytes
  BY <1>2, <1>3, HdmaAssumption DEF Bytes
<1>6. /\ v \in Walks /\ v.run = w.run /\ v.ended = w.ended /\ v.lines = w.lines
      /\ v.ch.mode = w.ch.mode /\ v.ch.ntrl = w.ch.ntrl
      /\ w.run.transfer => /\ v.units = w.units \o <<Source(w)>>
                           /\ Source(v) = Wrap(Source(w) + w.ch.mode.unit)
                           /\ w.ch.mode.indirect => v.ch.a2a = w.ch.a2a
      /\ ~w.run.transfer => v.units = w.units /\ v.ch.a2a = w.ch.a2a
  <2>1. CASE w.run.transfer
    <3>1. v = MoveBytes(w, w.ch.mode.unit)
      BY <1>1, <2>1
    <3>2. PICK u \in Int : u = w.ch.mode.unit
      BY <1>3
    <3>3. QED
      BY <2>1, <3>1, <3>2, MoveBytesFields
  <2>2. CASE ~w.run.transfer
    BY <1>1, <2>2
  <2>3. QED
    BY <2>1, <2>2
<1>7. PICK r : r = [v.ch EXCEPT !.ntrl = n]
  OBVIOUS
<1>8. v.ch \in Registers /\ v.lines + 1 \in Nat
  BY <1>6 DEF Walks
<1>9. /\ r \in Registers /\ r.mode = v.ch.mode /\ r.ntrl = n /\ r.a2a = v.ch.a2a
      /\ r.das = v.ch.das
  BY <1>5, <1>7, <1>8 DEF Registers
<1>10. PICK d : d = [v EXCEPT !.ch.ntrl = n, !.lines = @ + 1]
  OBVIOUS
<1>11. d = [v EXCEPT !.ch = r, !.lines = @ + 1]
  BY <1>6, <1>7, <1>10 DEF Walks
<1>12. /\ d \in Walks /\ d.ch = r /\ d.lines = v.lines + 1 /\ d.run = v.run
       /\ d.ended = v.ended /\ d.units = v.units
  BY <1>6, <1>8, <1>9, <1>11 DEF Walks
<1>13. Down(w, d)
  BY <1>2, <1>6, <1>9, <1>12 DEF Down, Source
<1>14. Serve(w) = IF UsedUp(n) THEN LoadEntry(d) ELSE [d EXCEPT !.run.transfer = n >= Half]
  BY <1>1, <1>4, <1>10 DEF Serve
<1>15. QED
  BY <1>2, <1>13, <1>14

LEMMA ServePlays ==
  ASSUME memory \in [Addresses -> Bytes], NEW w \in Walks, NEW start \in Addresses,
         NEW lead \in 0..1, w.run.active, Playing(memory, w, start, lead)
  PROVE  Playing(memory, Serve(w), start, lead)
<1>1. PICK L, e, j : PlaysIn(memory, w, start, lead, L, e, j)
  BY DEF Playing
<1>2. PICK mode \in Mode : mode = w.ch.mode
  BY DEF Walks, Registers
<1>3. /\ Reaches(memory, mode, start, L, e) /\ j \in Nat
      /\ w.lines - lead = Len(L) + j /\ w.units = Joined(L \o EntryMoves(memory, mode, e, j))
      /\ L \in Moves /\ e \in Addresses /\ Len(L) \in Nat
  <2>1. /\ Reaches(memory, mode, start, L, e) /\ j \in Nat
        /\ w.lines - lead = Len(L) + j /\ w.units = Joined(L \o EntryMoves(memory, mode, e, j))
    BY <1>1, <1>2 DEF PlaysIn
  <2>2. L \in Moves /\ e \in Addresses
    BY <2>1 DEF Reaches
  <2>3. Len(L) \in Nat
    BY <2>2 DEF Moves
  <2>4. QED
    BY <2>1, <2>2, <2>3
<1>4. Within(memory, w, e, j)
  BY <1>1 DEF PlaysIn, Idle
<1>5. memory[e] # 0 /\ j < EntryLines(memory, e) /\ w.ch.ntrl = memory[e] - j
  BY <1>4 DEF Within
<1>6. /\ w.ch.ntrl # 0
      /\ UsedUp(w.ch.ntrl - 1) <=> j + 1 = EntryLines(memory, e)
      /\ j + 1 < EntryLines(memory, e) => (w.ch.ntrl - 1 >= Half <=> Repeats(memory, e))
  BY <1>3, <1>5, EntryCounts
<1>7. PICK d : /\ Down(w, d)
               /\ Serve(w) = IF UsedUp(w.ch.ntrl - 1) THEN LoadEntry(d)
                             ELSE [d EXCEPT !.run.transfer = w.ch.ntrl - 1 >= Half]
  BY <1>6, ServeIs
<1>8. PICK D \in Addresses : D = DataOf(memory, mode, e)
  BY <1>3, EntryType
<1>9. PICK u \in {1, 2, 4} : u = mode.unit
  BY DEF Mode
<1>10. /\ w.run.transfer <=> j = 0 \/ Repeats(memory, e)
       /\ w.run.transfer => Source(w) = Wrap(D + j * u)
       /\ mode.indirect \/ ~w.run.transfer => w.ch.a2a = EntryAfter(memory, mode, e)
  <2>1. PICK t : t = (j = 0 \/ Repeats(memory, e))
    OBVIOUS
  <2>2. w.run = [active |-> TRUE, transfer |-> t]
    BY <1>4, <2>1 DEF Within
  <2>3. w.run.transfer = t
    BY <2>2
  <2>4. w.run.transfer => Source(w) = Wrap(DataOf(memory, mode, e) + j * mode.unit)
    BY <1>2, <1>4 DEF Within, Source
  <2>5. mode.indirect \/ ~w.run.transfer => w.ch.a2a = EntryAfter(memory, mode, e)
    BY <1>2, <1>4 DEF Within
  <2>6. QED
    BY <1>8, <1>9, <2>1, <2>3, <2>4, <2>5
<1>11. d \in Walks /\ d.ch.mode = mode /\ d.lines - lead = Len(L) + (j + 1)
  <2>1. d \in Walks /\ d.ch.mode = mode /\ d.lines = w.lines + 1
    BY <1>2, <1>7 DEF Down
  <2>2. w.lines \in Nat
    BY DEF Walks
  <2>3. QED
    BY <1>3, <2>1, <2>2
<1>12. d.units = Joined(L \o EntryMoves(memory, mode, e, j + 1))
  <2>1. PICK s : s = Joined(L \o EntryMoves(memory, mode, e, j))
    OBVIOUS
  <2>2. s \in Seq(Addresses)
    BY <1>3, <2>1 DEF Walks
  <2>3. Joined(L \o EntryMoves(memory, mode, e, j + 1)) =
          s \o (IF j = 0 \/ Repeats(memory, e) THEN <<Wrap(D + j * u)>> ELSE <<>>)
    <3>1. Joined(L \o EntryMoves(memory, mode, e, j + 1)) =
            Joined(L \o EntryMoves(memory, mode, e, j)) \o
              (IF j = 0 \/ Repeats(memory, e)
               THEN <<Wrap(DataOf(memory, mode, e) + j * mode.unit)>> ELSE <<>>)
      BY <1>3, OneLineMore
    <3>2. QED
      BY <1>8, <1>9, <2>1, <3>1
  <2>4. CASE w.run.transfer
    <3>1. d.units = s \o <<Wrap(D + j * u)>>
      BY <1>3, <1>7, <1>10, <2>1, <2>4 DEF Down
    <3>2. QED
      BY <1>10, <2>3, <2>4, <3>1
  <2>5. CASE ~w.run.transfer
    <3>1. d.units = s
      BY <1>3, <1>7, <2>1, <2>5 DEF Down
    <3>2. s \o <<>> = s
      BY <2>2, ConcatEmptySeq
    <3>3. QED
      BY <1>10, <2>3, <2>5, <3>1, <3>2
  <2>6. QED
    BY <2>4, <2>5
<1>13. w.run.transfer => Source(d) = Wrap(D + (j + 1) * u)
  <2> SUFFICES ASSUME w.run.transfer PROVE Source(d) = Wrap(D + (j + 1) * u)
    OBVIOUS
  <2>1. Source(d) = Wrap(Wrap(D + j * u) + u)
    BY <1>2, <1>7, <1>9, <1>10 DEF Down
  <2>2. PICK x \in Int : x = D + j * u
    BY <1>3 DEF Addresses
  <2>3. Wrap(Wrap(x) + u) = Wrap(x + u)
    BY WrapAdd
  <2>4. x + u = D + (j + 1) * u
    BY <1>3, <2>2 DEF Addresses
  <2>5. QED
    BY <2>1, <2>2, <2>3, <2>4
<1>14. CASE j + 1 < EntryLines(memory, e)
  <2>1. PICK repeat \in BOOLEAN : repeat <=> Repeats(memory, e)
    OBVIOUS
  <2>2. ~UsedUp(w.ch.ntrl - 1)
    <3>1. EntryLines(memory, e) \in Nat
      BY <1>2, <1>3, <1>5, EntryType
    <3>2. QED
      BY <1>3, <1>6, <1>14, <3>1
  <2>3. (w.ch.ntrl - 1 >= Half) = repeat
    BY <1>6, <1>14, <2>1
  <2>4. PICK v : v = [d EXCEPT !.run.transfer = repeat]
    OBVIOUS
  <2>5. Serve(w) = v
    BY <1>7, <2>2, <2>3, <2>4
  <2>6. d.run = w.run /\ w.run \in States /\ w.run.active
    BY <1>7 DEF Down, Walks
  <2>7. v = [d EXCEPT !.run = [w.run EXCEPT !.transfer = repeat]]
    BY <1>11, <2>4, <2>6 DEF Walks
  <2>8. [w.run EXCEPT !.transfer = repeat] = [active |-> TRUE, transfer |-> repeat]
    <3>1. PICK z : z = [w.run EXCEPT !.transfer = repeat]
      OBVIOUS
    <3>2. z \in States /\ z.active = TRUE /\ z.transfer = repeat
      BY <2>6, <3>1 DEF States
    <3>3. z = [active |-> z.active, transfer |-> z.transfer]
      BY <3>2 DEF States
    <3>4. QED
      BY <3>1, <3>2, <3>3
  <2>9. /\ v.run = [active |-> TRUE, transfer |-> repeat] /\ v.ch = d.ch /\ v.units = d.units
        /\ v.lines = d.lines
    BY <1>11, <2>7, <2>8 DEF Walks
  <2>10. (j + 1 = 0 \/ Repeats(memory, e)) = repeat
    BY <1>3, <2>1
  <2>11. v.ch.ntrl = memory[e] - (j + 1)
    <3>1. memory[e] \in Int
      BY <1>3, HdmaAssumption DEF Bytes
    <3>2. v.ch.ntrl = w.ch.ntrl - 1
      BY <1>7, <2>9 DEF Down
    <3>3. QED
      BY <1>3, <1>5, <3>1, <3>2
  <2>12. repeat => Source(v) = Wrap(D + (j + 1) * u)
    BY <1>10, <1>13, <2>1, <2>9 DEF Source
  <2>13. mode.indirect \/ ~repeat => v.ch.a2a = EntryAfter(memory, mode, e)
    <3>1. CASE mode.indirect \/ ~w.run.transfer
      BY <1>2, <1>7, <1>10, <2>9, <3>1 DEF Down
    <3>2. CASE w.run.transfer /\ ~mode.indirect /\ ~repeat
      <4>1. j = 0
        BY <1>10, <2>1, <3>2
      <4>2. v.ch.a2a = Wrap(D + (0 + 1) * u)
        BY <1>11, <1>13, <2>9, <3>2, <4>1 DEF Source
      <4>3. D = Wrap(e + 1) /\ EntryAfter(memory, mode, e) = Wrap(Wrap(e + 1) + u * 1)
        BY <1>8, <1>9, <2>1, <3>2 DEF DataOf, EntryAfter
      <4>4. (0 + 1) * u = u * 1
        OBVIOUS
      <4>5. QED
        BY <4>2, <4>3, <4>4
    <3>3. QED
      BY <3>1, <3>2
  <2>14. Within(memory, v, e, j + 1)
    <3>1. v.run = [active |-> TRUE, transfer |-> j + 1 = 0 \/ Repeats(memory, e)]
          /\ v.run.transfer = repeat
      <4>1. PICK t : t = (j + 1 = 0 \/ Repeats(memory, e))
        OBVIOUS
      <4>2. t = repeat
        BY <2>10, <4>1
      <4>3. v.run = [active |-> TRUE, transfer |-> t]
        BY <2>9, <4>2
      <4>4. v.run.transfer = repeat
        BY <2>9
      <4>5. QED
        BY <4>1, <4>3, <4>4
    <3>2. v.ch.mode = mode
      BY <1>11, <2>9
    <3>3. v.run.transfer => (IF v.ch.mode.indirect THEN v.ch.das ELSE v.ch.a2a) =
                            Wrap(DataOf(memory, v.ch.mode, e) + (j + 1) * v.ch.mode.unit)
      BY <1>8, <1>9, <2>12, <3>1, <3>2 DEF Source
    <3>4. v.ch.mode.indirect \/ ~v.run.transfer => v.ch.a2a = EntryAfter(memory, v.ch.mode, e)
      BY <2>13, <3>1, <3>2
    <3>5. QED
      BY <1>5, <1>14, <2>11, <3>1, <3>3, <3>4 DEF Within
  <2>15. PlaysIn(memory, v, start, lead, L, e, j + 1)
    BY <1>3, <1>11, <1>12, <2>9, <2>14 DEF PlaysIn
  <2>16. QED
    BY <2>5, <2>15 DEF Playing
<1>15. CASE j + 1 = EntryLines(memory, e)
  <2>1. UsedUp(w.ch.ntrl - 1)
    BY <1>6, <1>15
  <2>2. Serve(w) = LoadEntry(d)
    BY <1>7, <2>1
  <2>3. d.ch.a2a = EntryAfter(memory, mode, e)
    <3>1. CASE mode.indirect \/ ~w.run.transfer
      BY <1>2, <1>7, <1>10, <3>1 DEF Down
    <3>2. CASE w.run.transfer /\ ~mode.indirect
      <4>1. d.ch.a2a = Wrap(D + (j + 1) * u)
        BY <1>11, <1>13, <3>2 DEF Source
      <4>2. (IF Repeats(memory, e) THEN EntryLines(memory, e) ELSE 1) = j + 1
        BY <1>10, <1>15, <3>2
      <4>3. D = Wrap(e + 1) /\ EntryAfter(memory, mode, e) = Wrap(Wrap(e + 1) + u * (j + 1))
        BY <1>8, <1>9, <3>2, <4>2 DEF DataOf, EntryAfter
      <4>4. (j + 1) * u = u * (j + 1)
        BY <1>3
      <4>5. QED
        BY <4>1, <4>3, <4>4
    <3>3. QED
      BY <3>1, <3>2
  <2>4. PICK M : M = L \o EntryMoves(memory, mode, e, j + 1)
    OBVIOUS
  <2>5. Reaches(memory, mode, start, M, d.ch.a2a)
    BY <1>3, <1>5, <1>15, <2>3, <2>4, ReachesNext
  <2>6. d.lines - lead = Len(M)
    <3>1. EntryMoves(memory, mode, e, j + 1) \in Moves /\ Len(EntryMoves(memory, mode, e, j + 1)) = j + 1
      BY <1>3, EntryMovesType
    <3>2. Len(M) = Len(L) + (j + 1)
      BY <1>3, <2>4, <3>1, ConcatProperties DEF Moves
    <3>3. QED
      BY <1>11, <3>2
  <2>7. d.units = Joined(M)
    BY <1>12, <2>4
  <2>8. QED
    BY <1>11, <2>2, <2>5, <2>6, <2>7, LoadEntryPlays
<1>16. QED
  <2>1. EntryLines(memory, e) \in Nat
    BY <1>2, <1>3, <1>5, EntryType
  <2>2. QED
    BY <1>3, <1>5, <1>14, <1>15, <2>1
-----------------------------------------------------------------------------
(* Every channel whose walk is followed plays its table.                   *)

\* Written by the program so that the table starts with the next line.
Primed(w, start, lead) ==
  /\ lead = 1 /\ w.lines = 0 /\ w.units = <<>>
  /\ w.run.active /\ ~w.run.transfer /\ w.ch.ntrl = 1 /\ w.ch.a2a = start

PlaysAt(m, w, h, bad, now) ==
  h.known /\ bad = "none" =>
    /\ h.lines <= now
    /\ Playing(m, w, h.start, h.lead) \/ Primed(w, h.start, h.lead)

PlayInv == \A c \in Channels : PlaysAt(memory, Walk(c), hist[c], fault, line)

\* What a walk depends on.
Alike(w, v) ==
  /\ v.run = w.run /\ v.ended = w.ended /\ v.units = w.units /\ v.lines = w.lines
  /\ v.ch.mode = w.ch.mode /\ v.ch.ntrl = w.ch.ntrl /\ v.ch.a2a = w.ch.a2a
  /\ w.ch.mode.indirect => v.ch.das = w.ch.das

LEMMA AlikePlays ==
  ASSUME NEW m, NEW w, NEW v, NEW h, NEW bad, NEW now, Alike(w, v), PlaysAt(m, w, h, bad, now)
  PROVE  PlaysAt(m, v, h, bad, now)
<1>1. ASSUME NEW L, NEW e, NEW j, PlaysIn(m, w, h.start, h.lead, L, e, j)
      PROVE  PlaysIn(m, v, h.start, h.lead, L, e, j)
  <2>1. ASSUME Within(m, w, e, j) PROVE Within(m, v, e, j)
    BY <2>1 DEF Alike, Within
  <2>2. QED
    BY <1>1, <2>1 DEF Alike, PlaysIn
<1>2. Playing(m, w, h.start, h.lead) => Playing(m, v, h.start, h.lead)
  BY <1>1 DEF Playing
<1>3. Primed(w, h.start, h.lead) => Primed(v, h.start, h.lead)
  BY DEF Alike, Primed
<1>4. QED
  BY <1>2, <1>3 DEF PlaysAt

LEMMA ReachesStart ==
  ASSUME memory \in [Addresses -> Bytes], NEW mode \in Mode, NEW start \in Addresses
  PROVE  Reaches(memory, mode, start, <<>>, start)
<1>1. <<>> \in Moves /\ Len(<<>>) = 0
  BY DEF Moves
<1>2. ASSUME NEW k \in Nat, 0 + k <= VisibleLines
      PROVE  TableLines(memory, mode)[0 + k][start] = <<>> \o TableLines(memory, mode)[k][start]
  <2>1. PICK t \in Seq(Seq(Addresses)) : t = TableLines(memory, mode)[k][start]
    <3>1. k \in 0..VisibleLines
      BY <1>2, HdmaAssumption
    <3>2. QED
      BY <3>1, TableType DEF Moves
  <2>2. <<>> \o t = t /\ 0 + k = k
    BY ConcatEmptySeq
  <2>3. QED
    BY <2>1, <2>2
<1>3. QED
  BY <1>1, <1>2 DEF Reaches

LEMMA PrimedPlays ==
  ASSUME memory \in [Addresses -> Bytes], NEW w \in Walks, NEW start \in Addresses, NEW lead,
         Primed(w, start, lead)
  PROVE  Playing(memory, Serve(w), start, lead)
<1>1. w.ch.ntrl = 1 /\ ~w.run.transfer /\ w.ch.a2a = start /\ lead = 1 /\ w.lines = 0
      /\ w.units = <<>>
  BY DEF Primed
<1>2. PICK d : /\ Down(w, d)
               /\ Serve(w) = IF UsedUp(w.ch.ntrl - 1) THEN LoadEntry(d)
                             ELSE [d EXCEPT !.run.transfer = w.ch.ntrl - 1 >= Half]
  BY <1>1, ServeIs
<1>3. UsedUp(w.ch.ntrl - 1)
  <2>1. 1 \in Bytes
    BY HdmaAssumption DEF Bytes
  <2>2. UsedUp(1 - 1)
    BY <2>1, CountsDown
  <2>3. QED
    BY <1>1, <2>2
<1>4. /\ d \in Walks /\ d.ch.mode = w.ch.mode /\ d.ch.a2a = start /\ d.lines - lead = 0
      /\ d.units = <<>>
  BY <1>1, <1>2 DEF Down
<1>5. d.ch.mode \in Mode
  BY <1>4 DEF Walks, Registers
<1>6. PICK L : L = <<>>
  OBVIOUS
<1>7. Reaches(memory, d.ch.mode, start, L, d.ch.a2a) /\ d.lines - lead = Len(L) /\ d.units = Joined(L)
  BY <1>4, <1>5, <1>6, ReachesStart, JoinedNone
<1>8. Playing(memory, LoadEntry(d), start, lead)
  BY <1>4, <1>7, LoadEntryPlays
<1>9. QED
  BY <1>2, <1>3, <1>8

\* A channel that is served has lines left to count, and is served on one of them.
LEMMA ServeLines ==
  ASSUME memory \in [Addresses -> Bytes], NEW w \in Walks, NEW start, NEW lead,
         \/ Playing(memory, w, start, lead) /\ w.run.active
         \/ Primed(w, start, lead)
  PROVE  Serve(w).lines = w.lines + 1
<1>1. w.ch.ntrl # 0
  <2>1. CASE Playing(memory, w, start, lead) /\ w.run.active
    <3>1. PICK L, e, j : PlaysIn(memory, w, start, lead, L, e, j)
      BY <2>1 DEF Playing
    <3>2. e \in Addresses /\ j \in Nat
      BY <3>1 DEF PlaysIn, Reaches
    <3>3. Within(memory, w, e, j)
      BY <2>1, <3>1 DEF PlaysIn, Idle
    <3>4. memory[e] # 0 /\ j < EntryLines(memory, e) /\ w.ch.ntrl = memory[e] - j
      BY <3>3 DEF Within
    <3>5. QED
      BY <3>2, <3>4, EntryCounts
  <2>2. CASE Primed(w, start, lead)
    BY <2>2 DEF Primed
  <2>3. QED
    BY <2>1, <2>2
<1>2. PICK d : /\ Down(w, d)
               /\ Serve(w) = IF UsedUp(w.ch.ntrl - 1) THEN LoadEntry(d)
                             ELSE [d EXCEPT !.run.transfer = w.ch.ntrl - 1 >= Half]
  BY <1>1, ServeIs
<1>3. d \in Walks /\ d.lines = w.lines + 1
  BY <1>2 DEF Down
<1>4. LoadEntry(d).lines = d.lines
  BY <1>3, LoadEntryFields
<1>5. [d EXCEPT !.run.transfer = w.ch.ntrl - 1 >= Half].lines = d.lines
  BY <1>3 DEF Walks
<1>6. QED
  BY <1>2, <1>3, <1>4, <1>5

\* The walks that an action sets are those of the next state.
LEMMA WalkSet ==
  ASSUME TypeOK, NEW walk, \A c \in Channels : walk[c] \in Walks, SetWalks(walk),
         NEW c \in Channels, hist'[c].units = walk[c].units, hist'[c].lines = walk[c].lines
  PROVE  Walk(c)' = walk[c]
<1>1. /\ ch'[c] = walk[c].ch /\ run'[c] = walk[c].run /\ (c \in ended') = walk[c].ended
  <2>1. walk[c].ended \in BOOLEAN
    BY DEF Walks
  <2>2. QED
    BY <2>1 DEF SetWalks
<1>2. Walk(c)' = [ch |-> ch'[c], run |-> run'[c], ended |-> c \in ended',
                  units |-> hist'[c].units, lines |-> hist'[c].lines]
  BY DEF Walk
<1>3. PICK w \in Walks : w = walk[c]
  OBVIOUS
<1>4. w = [ch |-> w.ch, run |-> w.run, ended |-> w.ended, units |-> w.units, lines |-> w.lines]
  BY DEF Walks
<1>5. QED
  BY <1>1, <1>2, <1>3, <1>4

LEMMA RestartFields ==
  ASSUME NEW w \in Walks, NEW a \in Addresses
  PROVE  LET s == [w EXCEPT !.ch.a2a = a, !.ended = FALSE, !.units = <<>>, !.lines = 0]
         IN  /\ s \in Walks /\ s.ch.a2a = a /\ s.units = <<>> /\ s.lines = 0
<1>1. PICK r : r = [w.ch EXCEPT !.a2a = a]
  OBVIOUS
<1>2. r \in Registers /\ r.a2a = a
  BY <1>1 DEF Walks, Registers
<1>3. PICK s : s = [w EXCEPT !.ch = r, !.ended = FALSE, !.units = <<>>, !.lines = 0]
  OBVIOUS
<1>4. s \in Walks
  <2>1. <<>> \in Seq(Addresses)
    OBVIOUS
  <2>2. QED
    BY <1>2, <1>3, <2>1 DEF Walks
<1>5. s.ch = r /\ s.units = <<>> /\ s.lines = 0
  BY <1>3 DEF Walks
<1>6. [w EXCEPT !.ch.a2a = a, !.ended = FALSE, !.units = <<>>, !.lines = 0] = s
  BY <1>1, <1>3 DEF Walks
<1>7. QED
  BY <1>2, <1>4, <1>5, <1>6

LEMMA InitHdmaPlays ==
  ASSUME TypeOK, InitHdma
  PROVE  PlayInv'
<1> DEFINE start(c) == [Walk(c) EXCEPT !.ch.a2a = ch[c].a1t, !.ended = FALSE,
                                       !.units = <<>>, !.lines = 0]
           walk == [c \in Channels |-> IF c \in hdmaen THEN LoadEntry(start(c))
                                       ELSE [Walk(c) EXCEPT !.run = Idle, !.ended = FALSE]]
           h(c) == [known |-> c \in hdmaen, start |-> ch[c].a1t, lead |-> 0,
                    units |-> <<>>, lines |-> 0]
<1>1. ASSUME NEW c \in Channels
      PROVE  /\ start(c) \in Walks /\ start(c).ch.a2a = ch[c].a1t /\ start(c).units = <<>>
             /\ start(c).lines = 0
  <2>1. PICK w \in Walks : w = Walk(c)
    BY WalkType
  <2>2. PICK a \in Addresses : a = ch[c].a1t
    BY DEF TypeOK, Registers
  <2>3. PICK s : s = [w EXCEPT !.ch.a2a = a, !.ended = FALSE, !.units = <<>>, !.lines = 0]
    OBVIOUS
  <2>4. s \in Walks /\ s.ch.a2a = a /\ s.units = <<>> /\ s.lines = 0
    BY <2>3, RestartFields
  <2>5. start(c) = s
    BY <2>1, <2>2, <2>3
  <2> HIDE DEF start
  <2>6. QED
    BY <2>2, <2>4, <2>5
<1>2. ASSUME NEW c \in Channels
      PROVE  /\ walk[c] \in Walks
             /\ c \in hdmaen => walk[c] = LoadEntry(start(c))
             /\ h(c).known = (c \in hdmaen) /\ h(c).start = ch[c].a1t /\ h(c).lead = 0
             /\ h(c).units = <<>> /\ h(c).lines = 0
  <2>1. Walk(c) \in Walks
    BY WalkType
  <2>2. PICK v : v = [Walk(c) EXCEPT !.run = Idle, !.ended = FALSE]
    OBVIOUS
  <2>3. v \in Walks
    BY <2>1, <2>2 DEF Walks, Idle, States
  <2>4. walk[c] = IF c \in hdmaen THEN LoadEntry(start(c)) ELSE v
    BY <2>2
  <2>5. /\ h(c).known = (c \in hdmaen) /\ h(c).start = ch[c].a1t /\ h(c).lead = 0
        /\ h(c).units = <<>> /\ h(c).lines = 0
    OBVIOUS
  <2> HIDE DEF walk, start, h
  <2>6. PICK s \in Walks : s = start(c)
    BY <1>1
  <2>7. LoadEntry(s) \in Walks
    BY LoadEntryType DEF TypeOK
  <2>8. QED
    BY <2>3, <2>4, <2>5, <2>6, <2>7
<1>3. SetWalks(walk) /\ hist' = [c \in Channels |-> h(c)]
  <2>1. SetWalks(walk)
    BY DEF InitHdma
  <2>2. hist' = [c \in Channels |-> h(c)]
    BY DEF InitHdma
  <2>3. QED
    BY <2>1, <2>2
<1>4. memory' = memory /\ line' = 0
  <2>1. UNCHANGED <<memory, hdmaen, fault, writes>>
    BY DEF InitHdma
  <2>2. line' = 0
    BY DEF InitHdma
  <2>3. QED
    BY <2>1, <2>2
<1> HIDE DEF walk, start, h
<1> SUFFICES ASSUME NEW c \in Channels, hist'[c].known
             PROVE  /\ hist'[c].lines <= line'
                    /\ Playing(memory', Walk(c)', hist'[c].start, hist'[c].lead)
  BY DEF PlayInv, PlaysAt
<1>5. /\ c \in hdmaen /\ hist'[c].start = ch[c].a1t /\ hist'[c].lead = 0
      /\ hist'[c].units = <<>> /\ hist'[c].lines = 0
  BY <1>2, <1>3
<1>6. PICK s \in Walks : s = start(c)
  BY <1>1
<1>7. s.ch.a2a = ch[c].a1t /\ s.units = <<>> /\ s.lines = 0 /\ walk[c] = LoadEntry(s)
  <2>1. walk[c] = LoadEntry(start(c))
    BY <1>2, <1>5
  <2>2. QED
    BY <1>1, <1>6, <2>1
<1>8. s.ch.mode \in Mode /\ ch[c].a1t \in Addresses
  BY DEF Walks, Registers, TypeOK
<1>9. LoadEntry(s).units = <<>> /\ LoadEntry(s).lines = 0
  BY <1>7, LoadEntryFields DEF TypeOK
<1>10. Walk(c)' = walk[c]
  <2>1. \A d \in Channels : walk[d] \in Walks
    BY <1>2
  <2>2. hist'[c].units = walk[c].units /\ hist'[c].lines = walk[c].lines
    BY <1>5, <1>7, <1>9
  <2>3. QED
    BY <1>3, <2>1, <2>2, WalkSet
<1>11. Playing(memory, LoadEntry(s), ch[c].a1t, 0)
  <2>1. PICK L : L = <<>>
    OBVIOUS
  <2>2. Reaches(memory, s.ch.mode, ch[c].a1t, L, s.ch.a2a)
    BY <1>7, <1>8, <2>1, ReachesStart DEF TypeOK
  <2>3. s.lines - 0 = Len(L) /\ s.units = Joined(L)
    BY <1>7, <2>1, JoinedNone
  <2>4. QED
    BY <2>2, <2>3, LoadEntryPlays DEF TypeOK
<1>12. QED
  BY <1>4, <1>5, <1>7, <1>10, <1>11

LEMMA ExecuteHdmaPlays ==
  ASSUME TypeOK, PlayInv, ExecuteHdma
  PROVE  PlayInv'
<1> DEFINE walk == [c \in Channels |-> IF Live(c) THEN Serve(Walk(c)) ELSE Walk(c)]
<1>1. ASSUME NEW c \in Channels PROVE walk[c] \in Walks
  <2>1. Walk(c) \in Walks
    BY WalkType
  <2>2. Serve(Walk(c)) \in Walks
    BY <2>1, ServeType DEF TypeOK
  <2>3. QED
    BY <2>1, <2>2
<1>2. /\ SetWalks(walk) /\ hist' = [c \in Channels |-> Recorded(hist[c], walk[c])]
      /\ line' = line + 1 /\ memory' = memory /\ fault' = fault
  BY DEF ExecuteHdma
<1>3. ASSUME NEW c \in Channels
      PROVE  /\ walk[c] = IF Live(c) THEN Serve(Walk(c)) ELSE Walk(c)
             /\ hist'[c] = Recorded(hist[c], walk[c])
  BY <1>2
<1> HIDE DEF walk
<1> SUFFICES ASSUME NEW c \in Channels
             PROVE  PlaysAt(memory', Walk(c)', hist'[c], fault', line')
  BY DEF PlayInv
<1>4. PICK v \in Walks : v = walk[c]
  BY <1>1
<1>5. PICK h \in Histories : h = hist[c]
  BY DEF TypeOK
<1>6. /\ hist'[c].known = h.known /\ hist'[c].start = h.start /\ hist'[c].lead = h.lead
      /\ hist'[c].units = v.units /\ hist'[c].lines = v.lines
  <2>1. hist'[c] = Recorded(h, v)
    BY <1>3, <1>4, <1>5
  <2>2. PICK u : u = v.units
    OBVIOUS
  <2>3. PICK n : n = v.lines
    OBVIOUS
  <2>4. hist'[c] = [h EXCEPT !.units = u, !.lines = n]
    BY <2>1, <2>2, <2>3 DEF Recorded
  <2>5. QED
    BY <2>2, <2>3, <2>4 DEF Histories
<1>7. Walk(c)' = v
  BY <1>1, <1>2, <1>4, <1>6, WalkSet
<1>8. PICK w \in Walks : w = Walk(c)
  BY WalkType
<1>9. PlaysAt(memory, w, h, fault, line) /\ w.lines = h.lines
  BY <1>5, <1>8 DEF PlayInv, Walk
<1>10. h.start \in Addresses /\ h.lead \in 0..1 /\ w.lines \in Nat /\ line \in Nat
  BY <1>5, <1>8, HdmaAssumption DEF Histories, Walks, TypeOK
<1>11. CASE ~Live(c)
  <2>1. v = w
    BY <1>3, <1>4, <1>8, <1>11
  <2>2. QED
    BY <1>2, <1>6, <1>7, <1>9, <1>10, <2>1 DEF PlaysAt
<1>12. CASE Live(c)
  <2>1. v = Serve(w) /\ w.run.active
    BY <1>3, <1>4, <1>8, <1>12 DEF Live, Walk
  <2>2. ASSUME h.known, fault = "none" PROVE Playing(memory, v, h.start, h.lead)
    <3>1. CASE Playing(memory, w, h.start, h.lead)
      BY <1>10, <2>1, <3>1, ServePlays DEF TypeOK
    <3>2. CASE Primed(w, h.start, h.lead)
      BY <1>10, <2>1, <3>2, PrimedPlays DEF TypeOK
    <3>3. QED
      BY <1>9, <2>2, <3>1, <3>2 DEF PlaysAt
  <2>3. h.known /\ fault = "none" => v.lines <= line + 1
    <3> SUFFICES ASSUME h.known, fault = "none" PROVE v.lines <= line + 1
      OBVIOUS
    <3>1. /\ w.lines <= line
          /\ Playing(memory, w, h.start, h.lead) \/ Primed(w, h.start, h.lead)
      BY <1>9 DEF PlaysAt
    <3>2. v.lines = w.lines + 1
      BY <2>1, <3>1, ServeLines DEF TypeOK
    <3>3. QED
      BY <1>10, <3>1, <3>2
  <2>4. QED
    BY <1>2, <1>6, <1>7, <2>2, <2>3 DEF PlaysAt
<1>13. QED
  BY <1>11, <1>12
\* Between two lines: a walk that is followed is left as it was, in what it depends on.
LEMMA StaysPlaying ==
  ASSUME NEW c \in Channels, PlaysAt(memory, Walk(c), hist[c], fault, line),
         UNCHANGED <<memory, line>>, fault' = "none" => fault = "none",
         hist'[c].known => hist'[c] = hist[c] /\ Alike(Walk(c), Walk(c)')
  PROVE  PlaysAt(memory', Walk(c)', hist'[c], fault', line')
<1> SUFFICES ASSUME hist'[c].known, fault' = "none"
             PROVE  PlaysAt(memory', Walk(c)', hist'[c], fault', line')
  BY DEF PlaysAt
<1>1. PICK v : v = Walk(c)'
  OBVIOUS
<1>2. PICK w : w = Walk(c)
  OBVIOUS
<1>3. PlaysAt(memory, w, hist[c], "none", line) /\ Alike(w, v)
  BY <1>1, <1>2
<1>4. PlaysAt(memory, v, hist[c], "none", line)
  BY <1>3, AlikePlays
<1>5. QED
  BY <1>1, <1>4

LEMMA WriteHdmaenPlays ==
  ASSUME TypeOK, PlayInv, NEW mask \in SUBSET Channels, WriteHdmaen(mask)
  PROVE  PlayInv'
<1> SUFFICES ASSUME NEW c \in Channels
             PROVE  PlaysAt(memory', Walk(c)', hist'[c], fault', line')
  BY DEF PlayInv
<1>1. UNCHANGED <<memory, ch, ended, line, frame, fault>>
  BY DEF WriteHdmaen
<1>2. PICK new \in BOOLEAN : new <=> c \in NewlyEnabled(mask)
  OBVIOUS
<1>3. run'[c] = IF new THEN [run[c] EXCEPT !.active = TRUE] ELSE run[c]
  BY <1>2 DEF WriteHdmaen
<1>4. hist'[c] = IF new /\ run[c] = Idle /\ ch[c].ntrl = 1
                 THEN [known |-> TRUE, start |-> ch[c].a2a, lead |-> 1,
                       units |-> <<>>, lines |-> 0]
                 ELSE hist[c]
  BY <1>2 DEF WriteHdmaen
<1>5. run[c] \in States /\ line \in Nat
  BY HdmaAssumption DEF TypeOK
<1>6. CASE new /\ run[c] = Idle /\ ch[c].ntrl = 1
  <2>1. /\ hist'[c].start = ch[c].a2a /\ hist'[c].lead = 1 /\ hist'[c].units = <<>>
        /\ hist'[c].lines = 0
    BY <1>4, <1>6
  <2>2. run'[c] = [run[c] EXCEPT !.active = TRUE]
    BY <1>3, <1>6
  <2>3. run'[c].active /\ ~run'[c].transfer
    BY <1>5, <1>6, <2>2 DEF Idle, States
  <2>4. Walk(c)' = [ch |-> ch'[c], run |-> run'[c], ended |-> c \in ended',
                    units |-> hist'[c].units, lines |-> hist'[c].lines]
    BY DEF Walk
  <2>5. /\ Walk(c)'.ch = ch[c] /\ Walk(c)'.run = run'[c] /\ Walk(c)'.units = <<>>
        /\ Walk(c)'.lines = 0
    BY <1>1, <2>1, <2>4
  <2>6. Primed(Walk(c)', hist'[c].start, hist'[c].lead)
    BY <1>6, <2>1, <2>3, <2>5 DEF Primed
  <2>7. QED
    BY <1>1, <1>5, <2>1, <2>6 DEF PlaysAt
<1>7. CASE ~(new /\ run[c] = Idle /\ ch[c].ntrl = 1)
  <2>1. hist'[c] = hist[c]
    BY <1>4, <1>7
  <2>2. ASSUME hist[c].known, fault = "none" PROVE run'[c] = run[c]
    <3>1. Playing(memory, Walk(c), hist[c].start, hist[c].lead)
          \/ Primed(Walk(c), hist[c].start, hist[c].lead)
      BY <2>2 DEF PlayInv, PlaysAt
    <3>2. Walk(c).run = run[c] /\ (Walk(c).ended <=> c \in ended)
      BY DEF Walk
    <3>3. run[c].active \/ c \in ended
      <4>1. CASE Primed(Walk(c), hist[c].start, hist[c].lead)
        BY <3>2, <4>1 DEF Primed
      <4>2. CASE Playing(memory, Walk(c), hist[c].start, hist[c].lead)
        <5>1. PICK w : w = Walk(c)
          OBVIOUS
        <5>2. PICK L, e, j : PlaysIn(memory, w, hist[c].start, hist[c].lead, L, e, j)
          BY <4>2, <5>1 DEF Playing
        <5>3. w.run.active \/ w.ended
          BY <5>2 DEF PlaysIn, Within
        <5>4. QED
          BY <3>2, <5>1, <5>3
      <4>3. QED
        BY <3>1, <4>1, <4>2
    <3>4. CASE c \in ended
      BY <1>2, <1>3, <3>4 DEF NewlyEnabled
    <3>5. CASE run[c].active
      <4>1. [run[c] EXCEPT !.active = TRUE] = run[c]
        BY <1>5, <3>5 DEF States
      <4>2. QED
        BY <1>3, <4>1
    <3>6. QED
      BY <3>3, <3>4, <3>5
  <2>3. ASSUME run'[c] = run[c] PROVE Walk(c)' = Walk(c)
    BY <1>1, <2>1, <2>3 DEF Walk
  <2>4. PlaysAt(memory, Walk(c), hist[c], fault, line)
    BY DEF PlayInv
  <2>5. QED
    BY <1>1, <2>1, <2>2, <2>3, <2>4 DEF PlaysAt
<1>8. QED
  BY <1>6, <1>7

\* The registers a walk does not depend on, and those that end what is known of it.
LEMMA RegistersPlay ==
  ASSUME TypeOK, PlayInv, UNCHANGED <<memory, run, ended, line>>,
         fault' = "none" => fault = "none",
         \A c \in Channels : hist'[c].known => hist'[c] = hist[c],
         \A c \in Channels : hist'[c].known =>
           /\ ch'[c].mode = ch[c].mode /\ ch'[c].ntrl = ch[c].ntrl /\ ch'[c].a2a = ch[c].a2a
           /\ ch[c].mode.indirect => ch'[c].das = ch[c].das
  PROVE  PlayInv'
<1> SUFFICES ASSUME NEW c \in Channels
             PROVE  PlaysAt(memory', Walk(c)', hist'[c], fault', line')
  BY DEF PlayInv
<1>1. ASSUME hist'[c].known PROVE Alike(Walk(c), Walk(c)')
  <2>1. Walk(c)' = [ch |-> ch'[c], run |-> run'[c], ended |-> c \in ended',
                    units |-> hist'[c].units, lines |-> hist'[c].lines]
    BY DEF Walk
  <2>2. /\ Walk(c)'.ch = ch'[c] /\ Walk(c)'.run = run[c] /\ Walk(c)'.ended = (c \in ended)
        /\ Walk(c)'.units = hist[c].units /\ Walk(c)'.lines = hist[c].lines
    BY <1>1, <2>1
  <2>3. /\ Walk(c).ch = ch[c] /\ Walk(c).run = run[c] /\ Walk(c).ended = (c \in ended)
        /\ Walk(c).units = hist[c].units /\ Walk(c).lines = hist[c].lines
    BY DEF Walk
  <2>4. QED
    BY <1>1, <2>2, <2>3 DEF Alike
<1>2. PlaysAt(memory, Walk(c), hist[c], fault, line)
  BY DEF PlayInv
<1>3. QED
  BY <1>1, <1>2, StaysPlaying

LEMMA MovedFields ==
  ASSUME TypeOK, NEW c \in Channels, NEW n
  PROVE  /\ Moved(c, n).mode = ch[c].mode /\ Moved(c, n).ntrl = ch[c].ntrl
         /\ Moved(c, n).a2a = ch[c].a2a
<1>1. PICK r \in Registers : r = ch[c]
  BY DEF TypeOK
<1>2. PICK a : a = Wrap(r.a1t + n * r.mode.step)
  OBVIOUS
<1>3. PICK d : d = Wrap(Count(c) - n)
  OBVIOUS
<1>4. Moved(c, n) = [r EXCEPT !.a1t = a, !.das = d]
  BY <1>1, <1>2, <1>3 DEF Moved
<1>5. QED
  BY <1>1, <1>4 DEF Registers

LEMMA ClobberForgets ==
  ASSUME TypeOK, NEW done, Clobber(done), NEW c \in Channels, hist'[c].known
  PROVE  hist'[c] = hist[c] /\ ~(c \in done /\ ch[c].mode.indirect)
<1>1. hist'[c] = IF c \in done /\ ch[c].mode.indirect THEN Forget(hist[c]) ELSE hist[c]
  BY DEF Clobber
<1>2. Forget(hist[c]).known = FALSE
  <2>1. PICK h \in Histories : h = hist[c]
    BY DEF TypeOK
  <2>2. QED
    BY <2>1 DEF Forget, Histories
<1>3. QED
  BY <1>1, <1>2

LEMMA ProgramPlays ==
  ASSUME TypeOK, PlayInv,
         \/ \E mask \in SUBSET Channels :
               \/ WriteHdmaen(mask) \/ KickDma(mask)
               \/ \E f \in Channels, n \in 0..(Space - 1) : KickDmaFaults(mask, f, n)
         \/ \E c \in Channels :
               \/ \E m \in Modes : WriteMode(c, m)
               \/ \E s \in Staged : WriteRegister(c, s)
  PROVE  PlayInv'
<1>1. ASSUME NEW mask \in SUBSET Channels, KickDma(mask) PROVE PlayInv'
  <2>1. UNCHANGED <<memory, run, ended, line>>
    BY <1>1 DEF KickDma
  <2>2. CASE mask \intersect hdmaen # {}
    <3>1. fault' = "HdmaDmaConflict"
      BY <1>1, <2>2 DEF KickDma
    <3>2. QED
      BY <3>1 DEF PlayInv, PlaysAt
  <2>3. CASE mask \intersect hdmaen = {}
    <3>1. /\ ch' = [c \in Channels |-> IF c \in mask THEN Moved(c, Count(c)) ELSE ch[c]]
          /\ Clobber(mask) /\ fault' = fault
      BY <1>1, <2>3 DEF KickDma
    <3>2. ASSUME NEW c \in Channels, hist'[c].known
          PROVE  /\ hist'[c] = hist[c] /\ ch'[c].mode = ch[c].mode
                 /\ ch'[c].ntrl = ch[c].ntrl /\ ch'[c].a2a = ch[c].a2a
                 /\ ch[c].mode.indirect => ch'[c].das = ch[c].das
      <4>1. hist'[c] = hist[c] /\ ~(c \in mask /\ ch[c].mode.indirect)
        BY <3>1, <3>2, ClobberForgets
      <4>2. ch'[c] = IF c \in mask THEN Moved(c, Count(c)) ELSE ch[c]
        BY <3>1
      <4>3. QED
        BY <4>1, <4>2, MovedFields
    <3>3. QED
      BY <2>1, <3>1, <3>2, RegistersPlay
  <2>4. QED
    BY <2>2, <2>3
<1>2. ASSUME NEW mask \in SUBSET Channels, NEW f \in Channels, NEW n \in 0..(Space - 1),
             KickDmaFaults(mask, f, n)
      PROVE  PlayInv'
  <2>1. fault' = "Transfer"
    BY <1>2 DEF KickDmaFaults
  <2>2. QED
    BY <2>1 DEF PlayInv, PlaysAt
<1>3. ASSUME NEW c \in Channels, hist' = [hist EXCEPT ![c] = Forget(@)], NEW d \in Channels,
             hist'[d].known
      PROVE  d # c /\ hist'[d] = hist[d]
  <2>1. PICK h \in Histories : h = hist[c]
    BY DEF TypeOK
  <2>2. Forget(h).known = FALSE
    BY DEF Forget, Histories
  <2>3. hist'[c] = Forget(h)
    BY <1>3, <2>1 DEF TypeOK
  <2>4. d # c
    BY <1>3, <2>2, <2>3
  <2>5. QED
    BY <1>3, <2>4 DEF TypeOK
<1>4. ASSUME NEW c \in Channels, NEW m \in Modes, WriteMode(c, m) PROVE PlayInv'
  <2>1. UNCHANGED <<memory, run, ended, line>> /\ fault' = fault
    BY <1>4 DEF WriteMode
  <2>2. ch' = [ch EXCEPT ![c].mode = m] /\ hist' = [hist EXCEPT ![c] = Forget(@)]
    BY <1>4 DEF WriteMode
  <2>3. ASSUME NEW d \in Channels, hist'[d].known PROVE hist'[d] = hist[d] /\ ch'[d] = ch[d]
    <3>1. d # c /\ hist'[d] = hist[d]
      BY <1>3, <2>2, <2>3
    <3>2. QED
      BY <2>2, <3>1 DEF TypeOK
  <2>4. QED
    BY <2>1, <2>3, RegistersPlay
<1>5. ASSUME NEW c \in Channels, NEW s \in Staged, WriteRegister(c, s) PROVE PlayInv'
  <2>1. UNCHANGED <<memory, run, ended, line>> /\ fault' = fault
    BY <1>5 DEF WriteRegister
  <2>2. hist' = IF s.reg = "a1t" \/ (s.reg = "das" /\ ~ch[c].mode.indirect) THEN hist
                ELSE [hist EXCEPT ![c] = Forget(@)]
    BY <1>5 DEF WriteRegister
  <2>3. CASE ~(s.reg = "a1t" \/ (s.reg = "das" /\ ~ch[c].mode.indirect))
    <3>1. hist' = [hist EXCEPT ![c] = Forget(@)]
      BY <2>2, <2>3
    <3>2. ASSUME NEW d \in Channels, hist'[d].known PROVE hist'[d] = hist[d] /\ ch'[d] = ch[d]
      <4>1. d # c /\ hist'[d] = hist[d]
        BY <1>3, <3>1, <3>2
      <4>2. s.reg \in {"a1t", "a2a", "das", "ntrl"}
        BY HdmaAssumption
      <4>3. QED
        BY <1>5, <4>1, <4>2 DEF WriteRegister, TypeOK
    <3>3. QED
      BY <2>1, <3>2, RegistersPlay
  <2>4. CASE s.reg = "a1t"
    <3>1. ch' = [ch EXCEPT ![c].a1t = SetByte(@, s)]
      BY <1>5, <2>4 DEF WriteRegister
    <3>2. ASSUME NEW d \in Channels
          PROVE  /\ ch'[d].mode = ch[d].mode /\ ch'[d].ntrl = ch[d].ntrl
                 /\ ch'[d].a2a = ch[d].a2a /\ ch'[d].das = ch[d].das
      BY <3>1 DEF TypeOK, Registers
    <3>3. hist' = hist
      BY <2>2, <2>4
    <3>4. QED
      BY <2>1, <3>2, <3>3, RegistersPlay
  <2>5. CASE s.reg = "das" /\ ~ch[c].mode.indirect
    <3>1. ch' = [ch EXCEPT ![c].das = SetByte(@, s)]
      BY <1>5, <2>5 DEF WriteRegister
    <3>2. ASSUME NEW d \in Channels
          PROVE  /\ ch'[d].mode = ch[d].mode /\ ch'[d].ntrl = ch[d].ntrl
                 /\ ch'[d].a2a = ch[d].a2a
                 /\ ch[d].mode.indirect => ch'[d].das = ch[d].das
      BY <2>5, <3>1 DEF TypeOK, Registers
    <3>3. hist' = hist
      BY <2>2, <2>5
    <3>4. QED
      BY <2>1, <3>2, <3>3, RegistersPlay
  <2>6. QED
    BY <2>3, <2>4, <2>5
<1>6. QED
  BY <1>1, <1>2, <1>4, <1>5, WriteHdmaenPlays

\* What is known of a channel's walk is what the table says of its lines.
LEMMA PlaysIsTable ==
  ASSUME TypeOK, PlayInv, NEW c \in Channels, hist[c].known, fault = "none",
         hist[c].lines >= hist[c].lead
  PROVE  LET n     == hist[c].lines - hist[c].lead
             lines == TableLines(memory, ch[c].mode)[n][hist[c].start]
         IN  Len(lines) = n /\ hist[c].units = Joined(lines)
<1>1. PICK w : w = Walk(c)
  OBVIOUS
<1>2. w.ch = ch[c] /\ w.units = hist[c].units /\ w.lines = hist[c].lines
  BY <1>1 DEF Walk
<1>3. PICK h \in Histories : h = hist[c]
  BY DEF TypeOK
<1>4. h.lines <= line /\ line \in 0..VisibleLines /\ h.lines \in Nat /\ h.lead \in 0..1
  BY <1>3 DEF PlayInv, PlaysAt, TypeOK, Histories
<1>5. ~Primed(w, h.start, h.lead)
  BY <1>2, <1>3, <1>4 DEF Primed
<1>6. Playing(memory, w, h.start, h.lead)
  BY <1>1, <1>3, <1>5 DEF PlayInv, PlaysAt
<1>7. PICK L, e, j : PlaysIn(memory, w, h.start, h.lead, L, e, j)
  BY <1>6 DEF Playing
<1>8. PICK mode \in Mode : mode = ch[c].mode
  BY DEF TypeOK, Registers
<1>9. /\ Reaches(memory, mode, h.start, L, e) /\ j \in Nat
      /\ h.lines - h.lead = Len(L) + j
      /\ h.units = Joined(L \o EntryMoves(memory, mode, e, j))
      /\ \/ memory[e] # 0 /\ j < EntryLines(memory, e)
         \/ j = 0
  BY <1>2, <1>3, <1>7, <1>8 DEF PlaysIn, Within
<1>10. L \in Moves /\ e \in Addresses
  BY <1>9 DEF Reaches
<1>11. PICK n \in 0..VisibleLines : n = h.lines - h.lead
  BY <1>3, <1>4, HdmaAssumption
<1>12. Len(L) \in Nat /\ n = Len(L) + j /\ j \in 0..VisibleLines /\ Len(L) + j <= VisibleLines
  BY <1>9, <1>10, <1>11, HdmaAssumption DEF Moves
<1>13. PICK t : t = TableLines(memory, mode)
  OBVIOUS
<1>14. t[n][h.start] = L \o t[j][e]
  BY <1>9, <1>12, <1>13 DEF Reaches
<1>15. t[j][e] = EntryMoves(memory, mode, e, j)
  <2>1. t[j][e] = Row(t, mode, j)[e]
    BY <1>10, <1>12, <1>13, TableRow DEF TypeOK
  <2>2. CASE j = 0
    BY <1>10, <2>1, <2>2, NoMoves DEF Row
  <2>3. CASE j # 0
    <3>1. memory[e] # 0 /\ j < EntryLines(memory, e)
      BY <1>9, <2>3
    <3>2. PICK l \in Nat : l = EntryLines(memory, e)
      BY <1>10, <3>1, EntryType DEF TypeOK
    <3>3. (IF l < j THEN l ELSE j) = j /\ j - j = 0
      BY <1>9, <3>1, <3>2
    <3>4. PICK a \in Addresses : a = EntryAfter(memory, mode, e)
      BY <1>10, EntryType DEF TypeOK
    <3>5. t[j][e] = EntryMoves(memory, mode, e, j) \o t[0][a]
      BY <1>10, <2>1, <2>3, <3>1, <3>2, <3>3, <3>4 DEF Row
    <3>6. t[0][a] = <<>>
      <4>1. t[0][a] = Row(t, mode, 0)[a]
        BY <1>13, TableRow, HdmaAssumption DEF TypeOK
      <4>2. QED
        BY <4>1 DEF Row
    <3>7. EntryMoves(memory, mode, e, j) \o <<>> = EntryMoves(memory, mode, e, j)
      BY <1>9, <1>10, EntryMovesType, ConcatEmptySeq DEF Moves, TypeOK
    <3>8. QED
      BY <3>5, <3>6, <3>7
  <2>4. QED
    BY <2>2, <2>3
<1>16. Len(t[n][h.start]) = n
  <2>1. PICK M \in Moves : M = EntryMoves(memory, mode, e, j) /\ Len(M) = j
    BY <1>9, <1>10, EntryMovesType DEF TypeOK
  <2>2. Len(L \o M) = Len(L) + Len(M)
    BY <1>10, <2>1, ConcatProperties DEF Moves
  <2>3. QED
    BY <1>12, <1>14, <1>15, <2>1, <2>2
<1>17. QED
  BY <1>3, <1>8, <1>9, <1>11, <1>13, <1>14, <1>15, <1>16

\* A channel transfers exactly what its table says of the lines it is served on, and is
\* served on no other, whatever tables are in memory and whatever the program does between
\* the lines.
THEOREM PlaysTableHolds == Spec => []PlaysTable
<1>1. Init => PlayInv
  BY DEF Init, PlayInv, PlaysAt
<1>2. TypeOK /\ PlayInv /\ [Next]_vars => PlayInv'
  <2> SUFFICES ASSUME TypeOK, PlayInv, [Next]_vars PROVE PlayInv'
    OBVIOUS
  <2>1. CASE UNCHANGED vars
    BY <2>1 DEF vars, PlayInv, PlaysAt, Walk
  <2>2. ASSUME NEW f \in Channels, NEW k \in 1..4, ExecuteHdmaFaults(f, k) PROVE PlayInv'
    <3>1. fault' = "BBusWrite"
      BY <2>2 DEF ExecuteHdmaFaults
    <3>2. QED
      BY <3>1 DEF PlayInv, PlaysAt
  <2>3. QED
    BY <2>1, <2>2, InitHdmaPlays, ExecuteHdmaPlays, ProgramPlays DEF Next
<1>3. TypeOK /\ PlayInv => PlaysTable
  BY PlaysIsTable DEF PlaysTable
<1>4. QED
  BY <1>1, <1>2, <1>3, TypeCorrect, PTL DEF Spec
=============================================================================

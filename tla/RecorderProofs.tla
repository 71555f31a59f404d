--------------------------- MODULE RecorderProofs ---------------------------
(***************************************************************************)
(* What the recorder promises of a session directory, whatever commands,   *)
(* kills, power cuts and builds came before: the log is what was played,   *)
(* the dumps are of the run recorded, lint has nothing to say against what *)
(* the recorder wrote, and the candidates are the answers of the searches. *)
(***************************************************************************)
EXTENDS Recorder, NaturalsInduction, WellFoundedInduction, SequenceTheorems, TLAPS

-----------------------------------------------------------------------------
(* Induction in the form the provers can use: on a set of numbers instead  *)
(* of a predicate, from the well-foundedness of <.                         *)

\* A set of naturals that is not empty has a least element.
LEMMA Least ==
  ASSUME NEW T \in SUBSET Nat, T # {}
  PROVE  \E x \in T : \A y \in T : x <= y
<1> DEFINE R == OpToRel(<, Nat)
<1>1. R = {ss \in Nat \X Nat : ss[1] < ss[2]}
  BY Zenon DEF OpToRel
<1>2. IsWellFoundedOn(R, Nat)
  BY NatLessThanWellFounded
<1> HIDE DEF R
<1>3. PICK x \in T : \A y \in T : <<y, x>> \notin R
  BY <1>2, WFMin
<1>4. ASSUME NEW y \in T, y < x PROVE FALSE
  <2>1. <<y, x>> \in Nat \X Nat
    OBVIOUS
  <2>2. QED
    BY <1>1, <1>3, <1>4, <2>1
<1>5. QED
  BY <1>4

\* A set with 0 in it, and with n + 1 whenever n is, holds every natural number.
LEMMA Up ==
  ASSUME NEW T, 0 \in T, \A n \in Nat : n \in T => n + 1 \in T
  PROVE  \A n \in Nat : n \in T
<1> SUFFICES ASSUME NEW k \in Nat, k \notin T PROVE FALSE
  OBVIOUS
<1> DEFINE U == {n \in Nat : n \notin T}
<1>1. PICK m \in U : \A y \in U : m <= y
  <2>1. U \in SUBSET Nat /\ U # {}
    OBVIOUS
  <2> HIDE DEF U
  <2>2. QED
    BY <2>1, Least
<1>2. m - 1 \in Nat /\ m - 1 \notin U
  BY <1>1
<1>3. QED
  BY <1>1, <1>2

-----------------------------------------------------------------------------
(* What the state is made of.  The lines of a log the recorder wrote, and  *)
(* what a session, the log and the running command look like.              *)
LogLines == {Junk, Header("v1", NoRom)} \cup {Run(1, p) : p \in Pads}

IsSeq(s) == s \in Seq(Range(s))

Listed(dumps) == IsSeq(dumps) /\ \A i \in DOMAIN dumps : dumps[i].frame \in Nat

IsSession(s) ==
  /\ s = [dumps |-> s.dumps, logFrames |-> s.logFrames, emu |-> s.emu,
          rom |-> s.rom, width |-> s.width, offsets |-> s.offsets]
  /\ Listed(s.dumps)
  /\ s.logFrames # NoCount => s.logFrames[1] \in Nat /\ s.logFrames = Count(s.logFrames[1])

Recording == {"replay", "open", "stamp", "live", "write", "hotkey", "dumped"}

IsHistory(h) ==
  h = [build |-> h.build, rom |-> h.rom, pads |-> h.pads] /\ h.pads \in Seq(Pads)

LogTyped ==
  /\ log = [exists |-> log.exists, text |-> log.text] /\ log.exists \in BOOLEAN
  /\ log.text = [lines |-> log.text.lines, tail |-> log.text.tail]
  /\ log.text.lines \in Seq(LogLines) /\ log.text.tail \in Seq(LogLines)

IsCommand(p) ==
  /\ p = [pc |-> p.pc, opts |-> p.opts, mem |-> p.mem, prior |-> p.prior,
          core |-> p.core, frame |-> p.frame]
  /\ p.pc \in Recording \cup {"idle", "script", "finish"}
  /\ IsSession(p.mem) /\ p.frame \in Nat
  /\ p.pc \in Recording =>
       IsHistory(p.core) /\ p.prior \in Seq(Pads) /\ p.opts \in InteractiveOpts

TypeOK == IsSession(yaml) /\ LogTyped /\ IsCommand(proc) /\ IsSeq(narrowed)

(* The offsets that satisfy the clauses given since the set was full.      *)
Answers(given, width) ==
  {o \in FullOffsets(width) : \A i \in DOMAIN given : Keep(given[i].clause, width, given[i].dumps, o)}

OffsetsInv ==
  /\ yaml.offsets = {} \/ yaml.offsets = Answers(narrowed, yaml.width)
  /\ narrowed # <<>> => yaml.offsets = Answers(narrowed, yaml.width)
  /\ proc.pc # "idle" => proc.mem.offsets = yaml.offsets /\ proc.mem.width = yaml.width

(* A log no line of which is torn: the header, and one line for each frame.*)
IsLog(lines) ==
  /\ lines \in Seq(LogLines) /\ Len(lines) >= 1 /\ Len(lines) <= MaxFrames + 1
  /\ lines[1] = Header("v1", NoRom)
  /\ \A i \in 2..Len(lines) : \E p \in Pads : lines[i] = Run(1, p)
PadsOf(lines) == [i \in 1..(Len(lines) - 1) |-> lines[i + 1][3]]

LogInv ==
  "torn" \notin damage =>
    /\ log.text.tail = <<>>
    /\ log.exists => IsLog(log.text.lines)
    /\ proc.pc \in {"replay", "open"} =>
         proc.prior = IF proc.opts.resume /\ log.exists THEN PadsOf(log.text.lines) ELSE <<>>
    /\ proc.pc \in {"stamp", "live", "write", "hotkey", "dumped"} =>
         /\ log.exists
         /\ PadsOf(log.text.lines) = IF proc.pc = "write" THEN Front(proc.core.pads)
                                                          ELSE proc.core.pads
    /\ proc.pc = "write" => Len(log.text.lines) <= MaxFrames

(* Where the command is in its run.                                        *)
RunInv ==
  /\ proc.pc \in {"replay", "open"} /\ ~proc.opts.resume => proc.prior = <<>>
  /\ proc.pc = "open" => proc.core.pads = proc.prior
  /\ proc.pc = "stamp" => ~proc.opts.resume
  /\ proc.pc \in {"open", "stamp", "live"} => proc.frame = Len(proc.core.pads)
  /\ proc.pc \in {"write", "hotkey", "dumped"} => proc.frame + 1 = Len(proc.core.pads)
  /\ proc.pc \in {"stamp", "live", "write", "hotkey", "dumped"} => log.exists

(* The dumps of a session, of which an entry is alone at its frame and the *)
(* latest of its file, and what it must hold.                              *)
AloneIn(dumps, d) ==
  \A e \in Range(dumps) \ {d} : e.frame # d.frame /\ (e.file = d.file => e.frame < d.frame)
HoldsRun(d) ==
  d.file \in DOMAIN bins /\ bins[d.file] = Wram(After(proc.core, d.frame + 1))

DumpInv ==
  /\ proc.pc \in Recording \ {"dumped"} => proc.mem.dumps = yaml.dumps
  /\ proc.pc = "replay" => \A d \in Checkpoints(yaml) : d.frame < Len(proc.prior)
  /\ proc.pc \in Recording \ {"replay"} =>
       \A d \in Checkpoints(yaml) : d.frame < proc.frame
  /\ proc.pc = "dumped" =>
       \E d \in Range(proc.mem.dumps) :
          proc.mem.dumps = Append(yaml.dumps, d) /\ d.frame = proc.frame
  /\ proc.pc \in Recording \ {"replay"} /\ ~proc.opts.skip =>
       \A d \in Checkpoints(proc.mem) : AloneIn(proc.mem.dumps, d) => HoldsRun(d)

(* What lint asks of a session beside its log.                             *)
Filed(s) == \A d \in Range(s.dumps) : d.file \in DOMAIN bins
FitsLog(s, exists, n) ==
  /\ s.dumps # <<>> => exists
  /\ FramesIncrease(s.dumps)
  /\ \A d \in Checkpoints(s) : d.frame < n
  /\ s.logFrames # NoCount => s.logFrames[1] <= n
Fits(s) == FitsLog(s, log.exists, Len(log.text.lines) - 1)

\* What holds whatever happened to the files, and what as long as nothing did.
FilesInv ==
  /\ yaml.logFrames # NoCount => saved /\ log.exists
  /\ proc.mem.logFrames # NoCount => log.exists
  /\ Filed(yaml) /\ (proc.pc # "idle" => Filed(proc.mem))
  /\ proc.pc \in {"stamp", "live", "write", "hotkey", "dumped"} => ~clean

LintInv ==
  damage = {} =>
    /\ Fits(yaml)
    /\ proc.pc \in Recording => Fits(proc.mem)
    /\ proc.pc \in {"replay", "open"} /\ ~proc.opts.resume =>
         proc.mem.dumps = <<>> /\ (log.exists => Len(log.text.lines) = 1)
    /\ clean /\ yaml.logFrames # NoCount =>
         yaml.logFrames = Count(Len(log.text.lines) - 1)

RecInv == TypeOK /\ OffsetsInv /\ LogInv /\ RunInv /\ DumpInv /\ FilesInv /\ LintInv

-----------------------------------------------------------------------------
(* Reading a log.  The reader's state after n lines.                       *)
Start == [header |-> FALSE, rom |-> NoRom, frames |-> <<>>, error |-> "ok"]
IsReading(f, lines, n) ==
  f = [i \in 0..n |-> IF i = 0 THEN Start ELSE ParseLine(f[i - 1], lines[i])]

LEMMA ReadingExists ==
  ASSUME NEW lines
  PROVE  \A n \in Nat : \E f : IsReading(f, lines, n)
<1> DEFINE T == {n \in Nat : \E f : IsReading(f, lines, n)}
<1>1. 0 \in T
  <2>1. IsReading([k \in 0..0 |-> Start], lines, 0)
    BY DEF IsReading
  <2>2. QED
    BY <2>1
<1>2. ASSUME NEW n \in Nat, n \in T PROVE n + 1 \in T
  <2>1. PICK f : IsReading(f, lines, n)
    BY <1>2
  <2>2. PICK z : z = ParseLine(f[n], lines[n + 1])
    OBVIOUS
  <2>3. PICK g : g = [k \in 0..(n + 1) |-> IF k = n + 1 THEN z ELSE f[k]]
    OBVIOUS
  <2>4. ASSUME NEW k \in 0..(n + 1)
        PROVE  g[k] = IF k = 0 THEN Start ELSE ParseLine(g[k - 1], lines[k])
    <3>1. CASE k = n + 1
      <4>1. n \in 0..(n + 1) /\ n # n + 1 /\ k - 1 = n /\ k # 0
        BY <3>1
      <4>2. g[n] = f[n]
        BY <2>3, <4>1
      <4>3. g[k] = z
        BY <2>3, <3>1
      <4>4. QED
        BY <2>2, <3>1, <4>1, <4>2, <4>3
    <3>2. CASE k # n + 1
      <4>1. k \in 0..n /\ (k # 0 => k - 1 \in 0..(n + 1) /\ k - 1 # n + 1)
        BY <3>2
      <4>2. f[k] = IF k = 0 THEN Start ELSE ParseLine(f[k - 1], lines[k])
        BY <2>1, <4>1 DEF IsReading
      <4>3. g[k] = f[k] /\ (k # 0 => g[k - 1] = f[k - 1])
        BY <2>3, <3>2, <4>1
      <4>4. QED
        BY <4>2, <4>3
    <3>3. QED
      BY <3>1, <3>2
  <2>5. IsReading(g, lines, n + 1)
    BY <2>3, <2>4 DEF IsReading
  <2>6. QED
    BY <2>5
<1> HIDE DEF T
<1>3. \A n \in Nat : n \in T
  BY <1>1, <1>2, Up
<1>4. QED
  BY <1>3 DEF T

LEMMA ParseIs ==
  ASSUME NEW lines, Len(lines) \in Nat
  PROVE  \E f : /\ IsReading(f, lines, Len(lines))
                /\ Parse(lines) = IF f[Len(lines)].error = "ok" /\ ~f[Len(lines)].header
                                  THEN [f[Len(lines)] EXCEPT !.error = "BadHeader"]
                                  ELSE f[Len(lines)]
<1> DEFINE f == CHOOSE f : IsReading(f, lines, Len(lines))
<1>1. IsReading(f, lines, Len(lines))
  BY ReadingExists
<1>2. Parse(lines) = IF f[Len(lines)].error = "ok" /\ ~f[Len(lines)].header
                     THEN [f[Len(lines)] EXCEPT !.error = "BadHeader"]
                     ELSE f[Len(lines)]
  BY DEF Parse, IsReading, Start
<1>3. QED
  BY <1>1, <1>2

LEMMA OneMore ==
  ASSUME NEW S, NEW s \in Seq(S), NEW p \in S
  PROVE  s \o [i \in 1..1 |-> p] = Append(s, p)
<1>1. [i \in 1..1 |-> p] = <<p>>
  OBVIOUS
<1>2. Append(s, p) = s \o <<p>>
  BY AppendIsConcat
<1>3. QED
  BY <1>1, <1>2

\* The reader's state while only the recorder's lines are read.
ReaderState(g) ==
  /\ g = [header |-> g.header, rom |-> g.rom, frames |-> g.frames, error |-> g.error]
  /\ g.frames \in Seq(Pads)

LEMMA ReadsPads ==
  ASSUME NEW g, ReaderState(g), NEW l \in LogLines
  PROVE  ReaderState(ParseLine(g, l))
<1>1. CASE g.error # "ok" \/ l = Blank
  <2>1. PICK e : e = (g.error # "ok" \/ l = Blank)
    OBVIOUS
  <2>2. ParseLine(g, l) = g
    BY <1>1 DEF ParseLine, Blank
  <2>3. QED
    BY <2>2
<1>2. CASE ~(g.error # "ok" \/ l = Blank) /\ ~g.header
  <2>1. PICK error, rom : error = ParseHeader(l) /\ rom = IF l[1] = "header" THEN l[3] ELSE g.rom
    OBVIOUS
  <2>2. ParseLine(g, l) = [g EXCEPT !.header = TRUE, !.error = error, !.rom = rom]
    BY <1>2, <2>1 DEF ParseLine, ReaderState
  <2>3. QED
    BY <2>2 DEF ReaderState
<1>3. CASE ~(g.error # "ok" \/ l = Blank) /\ g.header
  <2>1. PICK error : error = ParseFrameLine(l, g.frames)
    OBVIOUS
  <2>2. PICK frames : frames = IF error = "ok" THEN g.frames \o [i \in 1..l[2] |-> l[3]]
                               ELSE g.frames
    OBVIOUS
  <2>3. ParseLine(g, l) = [g EXCEPT !.error = error, !.frames = frames]
    BY <1>3, <2>1, <2>2, Zenon DEF ParseLine
  <2>4. frames \in Seq(Pads)
    <3>1. CASE error # "ok"
      BY <2>2, <3>1 DEF ReaderState
    <3>2. CASE error = "ok"
      <4>1. l[1] = "run"
        BY <2>1, <3>2 DEF ParseFrameLine
      <4>2. PICK p \in Pads : l = Run(1, p)
        BY <4>1 DEF LogLines, Junk, Header, Run
      <4>3. l[2] = 1 /\ l[3] = p
        BY <4>2 DEF Run
      <4>4. frames = g.frames \o [i \in 1..1 |-> p]
        BY <2>2, <3>2, <4>3
      <4>5. frames = Append(g.frames, p)
        BY <4>4, OneMore DEF ReaderState
      <4>6. QED
        BY <4>5 DEF ReaderState
    <3>3. QED
      BY <3>1, <3>2
  <2>5. QED
    BY <2>3, <2>4 DEF ReaderState
<1>4. QED
  BY <1>1, <1>2, <1>3

\* A log of the recorder's lines is read as a sequence of pad words, whatever was torn.
LEMMA ParsedPads ==
  ASSUME NEW lines \in Seq(LogLines)
  PROVE  Parse(lines).frames \in Seq(Pads)
<1>1. Len(lines) \in Nat /\ \A i \in 1..Len(lines) : lines[i] \in LogLines
  OBVIOUS
<1>2. PICK f : /\ IsReading(f, lines, Len(lines))
               /\ Parse(lines) = IF f[Len(lines)].error = "ok" /\ ~f[Len(lines)].header
                                 THEN [f[Len(lines)] EXCEPT !.error = "BadHeader"]
                                 ELSE f[Len(lines)]
  BY <1>1, ParseIs
<1> DEFINE T == {i \in Nat : i <= Len(lines) => ReaderState(f[i])}
<1>3. 0 \in T
  <2>1. f[0] = Start
    BY <1>1, <1>2 DEF IsReading
  <2>2. ReaderState(Start)
    BY EmptySeq DEF Start, ReaderState
  <2>3. QED
    BY <2>1, <2>2
<1>4. ASSUME NEW i \in Nat, i \in T PROVE i + 1 \in T
  <2>1. SUFFICES ASSUME i + 1 <= Len(lines) PROVE ReaderState(f[i + 1])
    OBVIOUS
  <2>2. i + 1 \in 0..Len(lines) /\ i + 1 # 0 /\ (i + 1) - 1 = i /\ i + 1 \in 1..Len(lines)
    BY <1>1, <2>1
  <2>3. f[i + 1] = ParseLine(f[i], lines[i + 1])
    BY <1>2, <2>2 DEF IsReading
  <2>4. ReaderState(f[i])
    BY <1>4, <1>1, <2>1
  <2>5. PICK g, l : g = f[i] /\ l = lines[i + 1]
    OBVIOUS
  <2>6. l \in LogLines
    BY <1>1, <2>2, <2>5
  <2>7. ReaderState(ParseLine(g, l))
    BY <2>4, <2>5, <2>6, ReadsPads
  <2>8. QED
    BY <2>3, <2>5, <2>7
<1> HIDE DEF T
<1>5. \A i \in Nat : i \in T
  BY <1>3, <1>4, Up
<1>6. ReaderState(f[Len(lines)])
  BY <1>1, <1>5 DEF T
<1>7. QED
  BY <1>2, <1>6 DEF ReaderState

\* A log that is not torn is read as the words of its lines.
ReadLog(lines, n) ==
  [header |-> TRUE, rom |-> NoRom, frames |-> [k \in 1..(n - 1) |-> lines[k + 1][3]],
   error |-> "ok"]

LEMMA ParsedLog ==
  ASSUME NEW lines, IsLog(lines)
  PROVE  Parse(lines) = [header |-> TRUE, rom |-> NoRom, frames |-> PadsOf(lines), error |-> "ok"]
<1>1. Len(lines) \in Nat /\ Len(lines) >= 1 /\ Len(lines) - 1 <= MaxFrames
  BY RecorderAssumption DEF IsLog
<1>2. PICK f : /\ IsReading(f, lines, Len(lines))
               /\ Parse(lines) = IF f[Len(lines)].error = "ok" /\ ~f[Len(lines)].header
                                 THEN [f[Len(lines)] EXCEPT !.error = "BadHeader"]
                                 ELSE f[Len(lines)]
  BY <1>1, ParseIs
<1> DEFINE T == {n \in Nat : n + 1 <= Len(lines) => f[n + 1] = ReadLog(lines, n + 1)}
<1>3. 0 \in T
  <2>1. f[0] = Start /\ f[1] = ParseLine(f[0], lines[1])
    <3>1. 0 \in 0..Len(lines) /\ 1 \in 0..Len(lines) /\ 1 # 0 /\ 1 - 1 = 0
      BY <1>1
    <3>2. f[0] = Start
      BY <1>2, <3>1 DEF IsReading
    <3>3. f[1] = ParseLine(f[1 - 1], lines[1])
      BY <1>2, <3>1 DEF IsReading
    <3>4. QED
      BY <3>1, <3>2, <3>3
  <2>2. lines[1] = Header("v1", NoRom)
    BY DEF IsLog
  <2>3. f[1] = [header |-> TRUE, rom |-> NoRom, frames |-> <<>>, error |-> "ok"]
    <3>1. PICK l : l = lines[1]
      OBVIOUS
    <3>2. l[1] = "header" /\ l[2] = "v1" /\ l[3] = "none" /\ l # Blank
      BY <2>2, <3>1 DEF Header, NoRom, Blank
    <3>3. ParseHeader(l) = "ok"
      BY <3>2 DEF ParseHeader, BadRom
    <3>4. Start.error = "ok" /\ ~Start.header
      BY DEF Start
    <3>5. ParseLine(Start, l) = [Start EXCEPT !.header = TRUE, !.error = "ok", !.rom = "none"]
      BY <3>2, <3>3, <3>4 DEF ParseLine
    <3>6. QED
      BY <2>1, <3>1, <3>5 DEF Start, NoRom
  <2>4. [k \in 1..(1 - 1) |-> lines[k + 1][3]] = <<>>
    OBVIOUS
  <2>5. QED
    BY <2>3, <2>4 DEF ReadLog
<1>4. ASSUME NEW n \in Nat, n \in T PROVE n + 1 \in T
  <2>1. SUFFICES ASSUME (n + 1) + 1 <= Len(lines) PROVE f[(n + 1) + 1] = ReadLog(lines, (n + 1) + 1)
    OBVIOUS
  <2>2. PICK m : m = (n + 1) + 1
    OBVIOUS
  <2>3. m \in 2..Len(lines) /\ m \in 0..Len(lines) /\ m # 0 /\ m - 1 = n + 1 /\ m - 2 = n /\ m - 1 \in Nat
    BY <1>1, <2>1, <2>2
  <2>4. f[m] = ParseLine(f[n + 1], lines[m])
    BY <1>2, <2>3 DEF IsReading
  <2>5. f[n + 1] = ReadLog(lines, n + 1)
    BY <1>4, <1>1, <2>1
  <2>6. PICK p \in Pads : lines[m] = Run(1, p)
    BY <2>3 DEF IsLog
  <2>7. PICK g, l, s : /\ g = f[n + 1] /\ l = lines[m]
                       /\ s = [k \in 1..((n + 1) - 1) |-> lines[k + 1][3]]
    OBVIOUS
  <2>8. g = [header |-> TRUE, rom |-> NoRom, frames |-> s, error |-> "ok"]
    BY <2>5, <2>7 DEF ReadLog
  <2>9. s \in Seq(Pads) /\ Len(s) = n
    <3>1. ASSUME NEW k \in 1..n PROVE lines[k + 1][3] \in Pads
      <4>1. k + 1 \in 2..Len(lines)
        BY <2>3
      <4>2. PICK q \in Pads : lines[k + 1] = Run(1, q)
        BY <4>1 DEF IsLog
      <4>3. QED
        BY <4>2 DEF Run
    <3>2. s \in [1..n -> Pads]
      BY <2>7, <3>1
    <3>3. QED
      BY <3>2
  <2>10. ParseFrameLine(l, s) = "ok"
    <3>1. l[1] = "run" /\ l[2] = 1 /\ l[3] = p
      BY <2>6, <2>7 DEF Run
    <3>2. p \in Nat /\ PadMask \in Nat /\ ~(p > PadMask) /\ p \in Int
      BY RecorderAssumption
    <3>3. ~(Len(s) + 1 > MaxFrames)
      BY <1>1, <2>3, <2>9, RecorderAssumption
    <3>4. QED
      BY <3>1, <3>2, <3>3 DEF ParseFrameLine
  <2>11. PICK t : t = Append(s, p)
    OBVIOUS
  <2>12. ParseLine(g, l) = [header |-> TRUE, rom |-> NoRom, frames |-> t, error |-> "ok"]
    <3>1. l[2] = 1 /\ l[3] = p /\ l # Blank
      BY <2>6, <2>7 DEF Run, Blank
    <3>2. s \o [i \in 1..l[2] |-> l[3]] = t
      BY <3>1, <2>9, <2>11, OneMore
    <3>3. g.error = "ok" /\ g.header /\ g.frames = s
      BY <2>8
    <3>4. ParseLine(g, l) = [g EXCEPT !.error = "ok", !.frames = t]
      BY <2>10, <3>1, <3>2, <3>3 DEF ParseLine
    <3>5. QED
      BY <2>8, <3>4
  <2>13. t = [k \in 1..(m - 1) |-> lines[k + 1][3]]
    <3>1. t \in Seq(Pads) /\ Len(t) = n + 1 /\ DOMAIN t = 1..(n + 1)
      BY <2>9, <2>11
    <3>2. ASSUME NEW k \in 1..(n + 1) PROVE t[k] = lines[k + 1][3]
      <4>1. CASE k = n + 1
        <5>1. t[k] = p /\ k + 1 = m
          BY <2>2, <2>9, <2>11, <4>1
        <5>2. QED
          BY <2>6, <5>1 DEF Run
      <4>2. CASE k # n + 1
        <5>1. k \in 1..n /\ k \in 1..Len(s)
          BY <2>9, <4>2
        <5>2. t[k] = s[k]
          BY <2>9, <2>11, <5>1
        <5>3. QED
          BY <2>7, <5>1, <5>2
      <4>3. QED
        BY <4>1, <4>2
    <3>3. t = [k \in 1..(n + 1) |-> lines[k + 1][3]]
      BY <3>1, <3>2
    <3>4. QED
      BY <2>3, <3>3
  <2>14. f[m] = ReadLog(lines, m)
    BY <2>4, <2>7, <2>12, <2>13 DEF ReadLog
  <2>15. QED
    BY <2>2, <2>14
<1> HIDE DEF T
<1>5. \A n \in Nat : n \in T
  BY <1>3, <1>4, Up
<1>6. PICK n : n = Len(lines) - 1
  OBVIOUS
<1>7. n \in Nat /\ n + 1 = Len(lines)
  BY <1>1, <1>6
<1>8. f[Len(lines)] = ReadLog(lines, Len(lines))
  BY <1>5, <1>7 DEF T
<1>9. ReadLog(lines, Len(lines)).error = "ok" /\ ReadLog(lines, Len(lines)).header
  BY DEF ReadLog
<1>10. QED
  BY <1>2, <1>8, <1>9 DEF ReadLog, PadsOf

-----------------------------------------------------------------------------
(* The logs of the recorder: a new one, one line more, and a lost end.     *)
LEMMA NewLog ==
  /\ AddLine(NoText, Header("v1", NoRom)) = [lines |-> <<Header("v1", NoRom)>>, tail |-> <<>>]
  /\ IsLog(<<Header("v1", NoRom)>>) /\ PadsOf(<<Header("v1", NoRom)>>) = <<>>
  /\ Len(<<Header("v1", NoRom)>>) = 1
<1>1. AddLine(NoText, Header("v1", NoRom)) = [lines |-> <<Header("v1", NoRom)>>, tail |-> <<>>]
  BY DEF AddLine, NoText
<1>2. PICK h : h = Header("v1", NoRom)
  OBVIOUS
<1>3. h \in LogLines
  BY <1>2 DEF LogLines
<1>4. <<h>> \in Seq(LogLines) /\ Len(<<h>>) = 1 /\ <<h>>[1] = h
  BY <1>3
<1>5. IsLog(<<h>>)
  BY <1>2, <1>4, RecorderAssumption DEF IsLog
<1>6. PadsOf(<<h>>) = <<>>
  BY <1>4 DEF PadsOf
<1>7. QED
  BY <1>1, <1>2, <1>4, <1>5, <1>6

LEMMA PadsOfLog ==
  ASSUME NEW lines, IsLog(lines)
  PROVE  PadsOf(lines) \in Seq(Pads) /\ Len(PadsOf(lines)) = Len(lines) - 1
<1>1. PICK n : n = Len(lines) - 1
  OBVIOUS
<1>2. n \in Nat /\ Len(lines) = n + 1
  BY <1>1 DEF IsLog
<1>3. ASSUME NEW k \in 1..n PROVE lines[k + 1][3] \in Pads
  <2>1. k + 1 \in 2..Len(lines)
    BY <1>2
  <2>2. PICK q \in Pads : lines[k + 1] = Run(1, q)
    BY <2>1 DEF IsLog
  <2>3. QED
    BY <2>2 DEF Run
<1>4. PadsOf(lines) \in [1..n -> Pads]
  BY <1>1, <1>3 DEF PadsOf
<1>5. QED
  BY <1>1, <1>2, <1>4

LEMMA LogGoesOn ==
  ASSUME NEW lines, IsLog(lines), Len(lines) <= MaxFrames, NEW p \in Pads
  PROVE  /\ IsLog(Append(lines, Run(1, p)))
         /\ PadsOf(Append(lines, Run(1, p))) = Append(PadsOf(lines), p)
         /\ Len(Append(lines, Run(1, p))) = Len(lines) + 1
<1>1. PICK l, t : l = Run(1, p) /\ t = Append(lines, l)
  OBVIOUS
<1>2. l \in LogLines /\ l[3] = p
  BY <1>1 DEF LogLines, Run
<1>3. lines \in Seq(LogLines) /\ Len(lines) \in Nat /\ Len(lines) >= 1
  BY DEF IsLog
<1>4. /\ t \in Seq(LogLines) /\ Len(t) = Len(lines) + 1 /\ t[Len(lines) + 1] = l
      /\ \A i \in 1..Len(lines) : t[i] = lines[i]
  BY <1>1, <1>2, <1>3, AppendProperties
<1>5. IsLog(t)
  <2>1. t[1] = Header("v1", NoRom)
    BY <1>3, <1>4 DEF IsLog
  <2>2. ASSUME NEW i \in 2..Len(t) PROVE \E q \in Pads : t[i] = Run(1, q)
    <3>1. CASE i = Len(t)
      BY <1>1, <1>4, <3>1
    <3>2. CASE i # Len(t)
      <4>1. i \in 2..Len(lines) /\ i \in 1..Len(lines)
        BY <1>3, <1>4, <3>2
      <4>2. QED
        BY <1>4, <4>1 DEF IsLog
    <3>3. QED
      BY <3>1, <3>2
  <2>3. Len(t) <= MaxFrames + 1
    BY <1>3, <1>4, RecorderAssumption
  <2>4. QED
    BY <1>3, <1>4, <2>1, <2>2, <2>3 DEF IsLog
<1>6. PadsOf(t) = Append(PadsOf(lines), p)
  <2>1. PICK s, u : s = PadsOf(lines) /\ u = Append(s, p)
    OBVIOUS
  <2>2. s \in Seq(Pads) /\ Len(s) = Len(lines) - 1
    BY <2>1, PadsOfLog
  <2>3. PadsOf(t) \in Seq(Pads) /\ Len(PadsOf(t)) = Len(lines)
    BY <1>4, <1>3, <1>5, PadsOfLog
  <2>4. u \in Seq(Pads) /\ Len(u) = Len(lines) /\ u[Len(lines)] = p
        /\ \A i \in 1..(Len(lines) - 1) : u[i] = s[i]
    BY <1>3, <2>1, <2>2, AppendProperties
  <2>5. ASSUME NEW i \in 1..Len(lines) PROVE PadsOf(t)[i] = u[i]
    <3>1. i \in 1..(Len(t) - 1)
      BY <1>3, <1>4
    <3>2. PadsOf(t)[i] = t[i + 1][3]
      BY <3>1 DEF PadsOf
    <3>3. CASE i = Len(lines)
      BY <1>2, <1>4, <2>4, <3>2, <3>3
    <3>4. CASE i # Len(lines)
      <4>1. i \in 1..(Len(lines) - 1) /\ i + 1 \in 1..Len(lines)
        BY <1>3, <3>4
      <4>2. s[i] = lines[i + 1][3]
        BY <2>1, <4>1 DEF PadsOf
      <4>3. QED
        BY <1>4, <2>4, <3>2, <4>1, <4>2
    <3>5. QED
      BY <3>3, <3>4
  <2>6. QED
    BY <2>1, <2>3, <2>4, <2>5, SeqEqual
<1>7. QED
  BY <1>1, <1>4, <1>5, <1>6

LEMMA LogCut ==
  ASSUME NEW lines, IsLog(lines), NEW n \in 1..Len(lines)
  PROVE  IsLog(SubSeq(lines, 1, n))
<1>1. PICK t : t = SubSeq(lines, 1, n)
  OBVIOUS
<1>2. lines \in Seq(LogLines) /\ Len(lines) \in Nat /\ Len(lines) <= MaxFrames + 1
  BY DEF IsLog
<1>3. t \in Seq(LogLines) /\ Len(t) = n /\ \A i \in 1..n : t[i] = lines[i]
  BY <1>1, <1>2
<1>4. \A i \in 2..Len(t) : i \in 2..Len(lines) /\ i \in 1..n
  BY <1>2, <1>3
<1>5. QED
  BY <1>1, <1>2, <1>3, <1>4, RecorderAssumption DEF IsLog

-----------------------------------------------------------------------------
(* What the commands make of a session.                                    *)
LEMMA ListedMore ==
  ASSUME NEW dumps, Listed(dumps), NEW d, d.frame \in Nat
  PROVE  /\ Listed(Append(dumps, d)) /\ Range(Append(dumps, d)) = Range(dumps) \cup {d}
         /\ Len(Append(dumps, d)) = Len(dumps) + 1 /\ Append(dumps, d)[Len(dumps) + 1] = d
         /\ Len(dumps) \in Nat /\ DOMAIN dumps = 1..Len(dumps)
         /\ \A i \in 1..Len(dumps) : Append(dumps, d)[i] = dumps[i]
<1>1. PICK S, t : S = Range(dumps) \cup {d} /\ t = Append(dumps, d)
  OBVIOUS
<1>2. dumps \in Seq(S) /\ d \in S
  BY <1>1, SeqMonotonic DEF Listed, IsSeq
<1>3. /\ t \in Seq(S) /\ Len(t) = Len(dumps) + 1 /\ t[Len(dumps) + 1] = d
      /\ \A i \in 1..Len(dumps) : t[i] = dumps[i]
  BY <1>1, <1>2, AppendProperties
<1>4. Len(dumps) \in Nat /\ DOMAIN dumps = 1..Len(dumps) /\ DOMAIN t = 1..(Len(dumps) + 1)
  BY <1>2, <1>3
<1>5. t \in Seq(Range(t))
  BY <1>3, SeqOfRange
<1>6. ASSUME NEW i \in DOMAIN t PROVE t[i].frame \in Nat
  <2>1. CASE i = Len(dumps) + 1
    BY <1>3, <2>1
  <2>2. CASE i # Len(dumps) + 1
    <3>1. i \in 1..Len(dumps)
      BY <1>4, <2>2
    <3>2. QED
      BY <1>3, <1>4, <3>1 DEF Listed
  <2>3. QED
    BY <2>1, <2>2
<1>7. Range(t) = S
  <2>1. ASSUME NEW x \in Range(t) PROVE x \in S
    <3>1. Range(t) \in SUBSET S
      BY <1>3, RangeOfSeq
    <3>2. QED
      BY <3>1
  <2>2. ASSUME NEW x \in S PROVE x \in Range(t)
    <3>1. CASE x = d
      <4>1. Len(dumps) + 1 \in DOMAIN t
        BY <1>4
      <4>2. QED
        BY <1>3, <3>1, <4>1 DEF Range
    <3>2. CASE x # d
      <4>1. PICK i \in DOMAIN dumps : x = dumps[i]
        BY <1>1, <3>2 DEF Range
      <4>2. i \in DOMAIN t /\ t[i] = x
        BY <1>3, <1>4, <4>1
      <4>3. QED
        BY <4>2 DEF Range
    <3>3. QED
      BY <3>1, <3>2
  <2>3. QED
    BY <2>1, <2>2
<1>8. QED
  BY <1>1, <1>3, <1>4, <1>5, <1>6, <1>7 DEF Listed, IsSeq

LEMMA DumpFields == \A label, n : Dump(label, n).frame = n /\ Dump(label, n).file = SafeName(label)
  BY DEF Dump

LEMMA Stamped ==
  ASSUME NEW s, IsSession(s), NEW b, NEW r
  PROVE  /\ IsSession(Stamp(s, b, r)) /\ Stamp(s, b, r).dumps = s.dumps
         /\ Stamp(s, b, r).logFrames = s.logFrames
         /\ Stamp(s, b, r).offsets = s.offsets /\ Stamp(s, b, r).width = s.width
<1>1. PICK t : t = Stamp(s, b, r)
  OBVIOUS
<1>2. t = [dumps |-> s.dumps, logFrames |-> s.logFrames, emu |-> b, rom |-> r,
           width |-> s.width, offsets |-> s.offsets]
  BY <1>1 DEF Stamp, IsSession
<1>3. QED
  BY <1>1, <1>2 DEF IsSession

LEMMA Counted ==
  ASSUME NEW s, IsSession(s), NEW n \in Nat
  PROVE  LET t == [s EXCEPT !.logFrames = Count(n)]
         IN  /\ IsSession(t) /\ t.dumps = s.dumps /\ t.logFrames = Count(n) /\ Count(n)[1] = n
             /\ t.offsets = s.offsets /\ t.width = s.width
<1>1. PICK t : t = [s EXCEPT !.logFrames = Count(n)]
  OBVIOUS
<1>2. t = [dumps |-> s.dumps, logFrames |-> Count(n), emu |-> s.emu, rom |-> s.rom,
           width |-> s.width, offsets |-> s.offsets]
  BY <1>1 DEF IsSession
<1>3. Count(n)[1] = n
  BY DEF Count
<1>4. QED
  BY <1>1, <1>2, <1>3 DEF IsSession

LEMMA Dumped ==
  ASSUME NEW s, IsSession(s), NEW d, d.frame \in Nat, NEW n \in Nat
  PROVE  LET t == [AddDump(s, d) EXCEPT !.logFrames = Count(n)]
         IN  /\ IsSession(t) /\ t.dumps = Append(s.dumps, d) /\ t.logFrames = Count(n)
             /\ t.offsets = s.offsets /\ t.width = s.width
<1>1. PICK t : t = [AddDump(s, d) EXCEPT !.logFrames = Count(n)]
  OBVIOUS
<1>2. PICK e : e = Append(s.dumps, d)
  OBVIOUS
<1>3. t = [dumps |-> e, logFrames |-> Count(n), emu |-> s.emu, rom |-> s.rom,
           width |-> s.width, offsets |-> s.offsets]
  BY <1>1, <1>2 DEF AddDump, IsSession
<1>4. Listed(e)
  BY <1>2, ListedMore DEF IsSession
<1>5. Count(n)[1] = n
  BY DEF Count
<1>6. t.logFrames = Count(n) /\ t.dumps = e /\ t.emu = s.emu /\ t.rom = s.rom
      /\ t.width = s.width /\ t.offsets = s.offsets
  BY <1>3
<1>7. IsSession(t)
  BY <1>3, <1>4, <1>5, <1>6 DEF IsSession
<1>8. QED
  BY <1>1, <1>2, <1>6, <1>7

LEMMA Searched ==
  ASSUME NEW s, IsSession(s), NEW files1, NEW clauses
  PROVE  /\ IsSession(RunSearch(s, files1, clauses))
         /\ RunSearch(s, files1, clauses).dumps = s.dumps
         /\ RunSearch(s, files1, clauses).logFrames = s.logFrames
<1>1. PICK t : t = RunSearch(s, files1, clauses)
  OBVIOUS
<1>2. PICK w, o : t = [s EXCEPT !.width = w, !.offsets = o]
  BY <1>1 DEF RunSearch
<1>3. t = [dumps |-> s.dumps, logFrames |-> s.logFrames, emu |-> s.emu, rom |-> s.rom,
           width |-> w, offsets |-> o]
  BY <1>2 DEF IsSession
<1>4. QED
  BY <1>1, <1>3 DEF IsSession

\* The dumps due after a frame of a script are listed after the others.
DumpList(due, n) == [i \in DOMAIN due |-> Dump(due[i], n)]

LEMMA Scripted ==
  ASSUME NEW dumps, Listed(dumps), NEW due, Len(due) \in Nat, DOMAIN due = 1..Len(due),
         NEW n \in Nat, NEW more, more = DumpList(due, n)
  PROVE  Listed(dumps \o more) /\ Range(dumps \o more) = Range(dumps) \cup Range(more)
<1>1. PICK D, S : D = {Dump(due[i], n) : i \in DOMAIN due} /\ S = Range(dumps) \cup D
  OBVIOUS
<1>2. more \in Seq(D) /\ Range(more) = D
  <2>1. PICK m : m = Len(due)
    OBVIOUS
  <2>2. more \in [1..m -> D]
    BY <1>1, <2>1 DEF DumpList
  <2>3. more \in Seq(D)
    BY <2>1, <2>2
  <2>4. Range(more) = D
    BY <1>1 DEF Range, DumpList
  <2>5. QED
    BY <2>3, <2>4
<1>3. dumps \in Seq(S) /\ more \in Seq(S)
  BY <1>1, <1>2, SeqMonotonic DEF Listed, IsSeq
<1>4. PICK e : e = dumps \o more
  OBVIOUS
<1>5. e \in Seq(S) /\ Range(e) = S
  BY <1>1, <1>2, <1>3, <1>4, RangeConcatenation
<1>6. \A d \in S : d.frame \in Nat
  <2>1. ASSUME NEW d \in Range(dumps) PROVE d.frame \in Nat
    BY <2>1 DEF Listed, Range
  <2>2. \A d \in D : d.frame = n
    BY <1>1, DumpFields
  <2>3. QED
    BY <1>1, <2>1, <2>2
<1>7. Listed(e)
  <2>1. \A i \in DOMAIN e : e[i] \in S
    BY <1>5
  <2>2. QED
    BY <1>5, <1>6, <2>1 DEF Listed, IsSeq
<1>8. QED
  BY <1>1, <1>2, <1>4, <1>5, <1>7

LEMMA DueLabelsListed ==
  ASSUME NEW o, NEW n, NEW fault
  PROVE  LET due == DueLabels(o, n, fault) IN Len(due) \in Nat /\ DOMAIN due = 1..Len(due)
<1>1. PICK a, b : /\ a = (IF n \in DOMAIN o.marks THEN <<o.marks[n]>> ELSE <<>>)
                  /\ b = (IF ~fault /\ o.every > 0 /\ n > 0 /\ n % o.every = 0
                          THEN <<FrameLabel(n)>> ELSE <<>>)
  OBVIOUS
<1>2. PICK S : S = {o.marks[n], FrameLabel(n)}
  OBVIOUS
<1>3. a \in Seq(S) /\ b \in Seq(S)
  <2>1. PICK x, y : x = o.marks[n] /\ y = FrameLabel(n)
    OBVIOUS
  <2>2. <<x>> \in Seq(S) /\ <<y>> \in Seq(S) /\ <<>> \in Seq(S)
    BY <1>2, <2>1
  <2>3. a \in {<<x>>, <<>>} /\ b \in {<<y>>, <<>>}
    BY <1>1, <2>1, Zenon
  <2>4. QED
    BY <2>2, <2>3
<1>4. DueLabels(o, n, fault) = a \o b
  BY <1>1, Zenon DEF DueLabels
<1>5. PICK c : c = a \o b
  OBVIOUS
<1>6. c \in Seq(S)
  BY <1>3, <1>5, ConcatProperties
<1>7. QED
  BY <1>4, <1>5, <1>6

-----------------------------------------------------------------------------
(* What each step makes of the running command.                            *)
LEMMA CommandIs ==
  ASSUME NEW pc, NEW o, NEW mem, NEW prior, NEW core, NEW n \in Nat,
         pc \in Recording \cup {"idle", "script", "finish"}, IsSession(mem),
         pc \in Recording => IsHistory(core) /\ prior \in Seq(Pads) /\ o \in InteractiveOpts
  PROVE  IsCommand([pc |-> pc, opts |-> o, mem |-> mem, prior |-> prior,
                    core |-> core, frame |-> n])
  BY DEF IsCommand

LEMMA NewSessionTyped == IsSession(NewSession)
<1>1. <<>> \in Seq(Range(<<>>)) /\ DOMAIN <<>> = {}
  BY EmptySeq
<1>2. Listed(<<>>)
  BY <1>1 DEF Listed, IsSeq
<1>3. QED
  BY <1>2 DEF NewSession, IsSession

LEMMA IdleTyped == IsCommand(Idle) /\ Idle.pc = "idle" /\ Idle.mem = NewSession
<1>1. "idle" \notin Recording
  BY DEF Recording
<1>2. QED
  BY <1>1, NewSessionTyped DEF Idle, IsCommand

LEMMA HistoryGrows ==
  ASSUME NEW h, IsHistory(h), NEW pad \in Pads
  PROVE  LET g == [h EXCEPT !.pads = Append(@, pad)]
         IN  IsHistory(g) /\ g.pads = Append(h.pads, pad) /\ g.build = h.build /\ g.rom = h.rom
<1>1. PICK g, s : g = [h EXCEPT !.pads = Append(@, pad)] /\ s = Append(h.pads, pad)
  OBVIOUS
<1>2. s \in Seq(Pads)
  BY <1>1 DEF IsHistory
<1>3. g = [build |-> h.build, rom |-> h.rom, pads |-> s]
  BY <1>1 DEF IsHistory
<1>4. QED
  BY <1>1, <1>2, <1>3 DEF IsHistory

LEMMA LinesTyped ==
  ASSUME LogTyped
  PROVE  LinesOf(log.text) \in Seq(LogLines)
  BY ConcatProperties DEF LogTyped, LinesOf

LEMMA PriorTyped ==
  ASSUME LogTyped, NEW o
  PROVE  PriorLog(o).frames \in Seq(Pads)
<1>1. <<Header("v1", NoRom)>> \in Seq(LogLines)
  BY NewLog DEF IsLog
<1>2. QED
  BY <1>1, LinesTyped, ParsedPads DEF PriorLog

LEMMA StartDoes ==
  ASSUME TypeOK, NEW o \in InteractiveOpts, StartInteractive(o), proc' # proc
  PROVE  /\ proc.pc = "idle" /\ IsCommand(proc')
         /\ proc'.pc = "replay" /\ proc'.opts = o /\ proc'.prior = PriorLog(o).frames
         /\ PriorLog(o).error = "ok"
         /\ proc'.mem = (IF o.resume THEN yaml ELSE Stamp(yaml, build, o.rom))
         /\ IF o.resume THEN ~LogTooShort(yaml, Len(proc'.prior)) ELSE ~NotFresh(yaml)
<1>1. PICK prior, mem, core :
        /\ prior = PriorLog(o) /\ mem = (IF o.resume THEN yaml ELSE Stamp(yaml, build, o.rom))
        /\ core = History(build, o.rom)
  OBVIOUS
<1>2. /\ proc' = [pc |-> "replay", opts |-> o, prior |-> prior.frames, mem |-> mem,
                  core |-> core, frame |-> 0]
      /\ prior.error = "ok"
      /\ IF o.resume THEN ~LogTooShort(yaml, Len(prior.frames)) ELSE ~NotFresh(yaml)
      /\ proc.pc = "idle"
  BY <1>1 DEF StartInteractive
<1>3. IsSession(mem)
  BY <1>1, Stamped DEF TypeOK
<1>4. prior.frames \in Seq(Pads)
  BY <1>1, PriorTyped DEF TypeOK
<1>5. IsHistory(core)
  BY <1>1, EmptySeq DEF IsHistory, History
<1>6. IsCommand(proc')
  BY <1>2, <1>3, <1>4, <1>5, CommandIs DEF Recording
<1>7. QED
  BY <1>1, <1>2, <1>6

LEMMA ReplayDoes ==
  ASSUME TypeOK, Replay
  PROVE  /\ proc.pc = "replay"
         /\ \/ proc' = Idle
            \/ /\ IsCommand(proc') /\ proc'.pc = "open" /\ proc'.opts = proc.opts
               /\ proc'.mem = proc.mem /\ proc'.prior = proc.prior
               /\ proc'.core = [proc.core EXCEPT !.pads = proc.prior]
               /\ proc'.core.pads = proc.prior /\ proc'.frame = Len(proc.prior)
               /\ proc.prior = <<>> \/ ~ReplayRefuses(proc)
<1>1. proc.pc = "replay"
  BY DEF Replay
<1>2. CASE proc.prior # <<>> /\ ReplayRefuses(proc)
  BY <1>1, <1>2 DEF Replay
<1>3. CASE ~(proc.prior # <<>> /\ ReplayRefuses(proc))
  <2>1. proc' = [proc EXCEPT !.pc = "open", !.core.pads = proc.prior, !.frame = Len(proc.prior)]
    BY <1>3 DEF Replay
  <2>2. IsCommand(proc) /\ IsHistory(proc.core) /\ proc.prior \in Seq(Pads)
    BY <1>1 DEF TypeOK, IsCommand, Recording
  <2>3. PICK core, n : core = [proc.core EXCEPT !.pads = proc.prior] /\ n = Len(proc.prior)
    OBVIOUS
  <2>4. IsHistory(core) /\ core.pads = proc.prior /\ n \in Nat
    BY <2>2, <2>3 DEF IsHistory
  <2>5. proc' = [pc |-> "open", opts |-> proc.opts, mem |-> proc.mem, prior |-> proc.prior,
                 core |-> core, frame |-> n]
    BY <2>1, <2>2, <2>3 DEF IsCommand
  <2>6. IsCommand(proc')
    BY <1>1, <2>2, <2>4, <2>5, CommandIs DEF Recording, IsCommand
  <2>7. QED
    BY <1>1, <1>3, <2>3, <2>4, <2>5, <2>6
<1>4. QED
  BY <1>2, <1>3

\* The command goes on at another place, with the same run and the same session.
Goes(pc, n) ==
  /\ IsCommand(proc') /\ proc'.pc = pc /\ proc'.opts = proc.opts /\ proc'.mem = proc.mem
  /\ proc'.prior = proc.prior /\ proc'.core = proc.core /\ proc'.frame = n

LEMMA GoesOn ==
  ASSUME TypeOK, NEW pc \in Recording, proc.pc \in Recording, NEW n \in Nat,
         proc' = [proc EXCEPT !.pc = pc, !.frame = n]
  PROVE  Goes(pc, n)
<1>1. proc' = [pc |-> pc, opts |-> proc.opts, mem |-> proc.mem, prior |-> proc.prior,
               core |-> proc.core, frame |-> n]
  BY DEF TypeOK, IsCommand
<1>2. IsCommand(proc')
  BY <1>1, CommandIs DEF TypeOK, IsCommand
<1>3. QED
  BY <1>1, <1>2 DEF Goes

LEMMA GoesTo ==
  ASSUME TypeOK, NEW pc \in Recording, proc.pc \in Recording, proc' = [proc EXCEPT !.pc = pc]
  PROVE  Goes(pc, proc.frame)
<1>1. proc' = [proc EXCEPT !.pc = pc, !.frame = proc.frame] /\ proc.frame \in Nat
  BY DEF TypeOK, IsCommand
<1>2. QED
  BY <1>1, GoesOn

LEMMA LiveFrameDoes ==
  ASSUME TypeOK, NEW pad \in Pads, LiveFrame(pad)
  PROVE  /\ proc.pc = "live" /\ Len(log.text.lines) < MaxLog
         /\ \/ proc' = Idle /\ clean' = TRUE /\ saved' = TRUE
               /\ yaml' = [proc.mem EXCEPT !.logFrames = Count(proc.frame)]
            \/ /\ UNCHANGED <<yaml, saved, clean>>
               /\ IsCommand(proc') /\ proc'.pc = "write" /\ proc'.opts = proc.opts
               /\ proc'.mem = proc.mem /\ proc'.prior = proc.prior /\ proc'.frame = proc.frame
               /\ proc'.core = [proc.core EXCEPT !.pads = Append(@, pad)]
               /\ proc'.core.pads = Append(proc.core.pads, pad)
<1>1. PICK core : core = [proc.core EXCEPT !.pads = Append(@, pad)]
  OBVIOUS
<1>2. /\ proc.pc = "live" /\ Len(log.text.lines) < MaxLog
      /\ \/ proc' = Idle /\ clean' = TRUE /\ saved' = TRUE
            /\ yaml' = [proc.mem EXCEPT !.logFrames = Count(proc.frame)]
         \/ proc' = [proc EXCEPT !.pc = "write", !.core = core] /\ UNCHANGED <<yaml, saved, clean>>
  BY <1>1 DEF LiveFrame, Save, Close
<1>3. IsCommand(proc) /\ IsHistory(proc.core) /\ proc.prior \in Seq(Pads)
  BY <1>2 DEF TypeOK, IsCommand, Recording
<1>4. IsHistory(core) /\ core.pads = Append(proc.core.pads, pad)
  BY <1>1, <1>3, HistoryGrows
<1>5. ASSUME proc' = [proc EXCEPT !.pc = "write", !.core = core]
      PROVE  /\ IsCommand(proc') /\ proc'.pc = "write" /\ proc'.opts = proc.opts
             /\ proc'.mem = proc.mem /\ proc'.prior = proc.prior /\ proc'.frame = proc.frame
             /\ proc'.core = core
  <2>1. proc' = [pc |-> "write", opts |-> proc.opts, mem |-> proc.mem, prior |-> proc.prior,
                 core |-> core, frame |-> proc.frame]
    BY <1>3, <1>5 DEF IsCommand
  <2>2. IsCommand(proc')
    BY <1>2, <1>3, <1>4, <2>1, CommandIs DEF Recording, IsCommand
  <2>3. QED
    BY <2>1, <2>2
<1>6. QED
  BY <1>1, <1>2, <1>4, <1>5

LEMMA PressF5Does ==
  ASSUME TypeOK, NEW raw, PressF5(raw)
  PROVE  /\ proc.pc = "hotkey"
         /\ \/ Goes("live", proc.frame + 1) /\ bins' = bins
            \/ \E d : /\ d.frame = proc.frame
                      /\ bins' = [f \in DOMAIN bins \cup {d.file} |->
                                    IF f = d.file THEN Wram(proc.core) ELSE bins[f]]
                      /\ IsCommand(proc') /\ proc'.pc = "dumped" /\ proc'.opts = proc.opts
                      /\ proc'.prior = proc.prior /\ proc'.core = proc.core
                      /\ proc'.frame = proc.frame
                      /\ proc'.mem = [AddDump(proc.mem, d) EXCEPT !.logFrames = Count(proc.frame + 1)]
<1>1. proc.pc = "hotkey" /\ proc.pc \in Recording
  BY DEF PressF5, Recording
<1>2. /\ IsCommand(proc) /\ IsHistory(proc.core) /\ proc.prior \in Seq(Pads)
      /\ proc.frame \in Nat /\ proc.frame + 1 \in Nat /\ IsSession(proc.mem)
  BY <1>1 DEF TypeOK, IsCommand
<1>3. PICK label : label = CleanLabel(raw)
  OBVIOUS
<1>4. CASE label = <<>>
  <2>1. proc' = [proc EXCEPT !.pc = "live", !.frame = proc.frame + 1] /\ bins' = bins
    BY <1>3, <1>4 DEF PressF5
  <2>2. "live" \in Recording
    BY DEF Recording
  <2>3. Goes("live", proc.frame + 1)
    BY <1>1, <1>2, <2>1, <2>2, GoesOn
  <2>4. QED
    BY <1>1, <2>1, <2>3
<1>5. CASE label # <<>>
  <2>1. PICK d : d = Dump(label, proc.frame)
    OBVIOUS
  <2>2. PICK mem : mem = [AddDump(proc.mem, d) EXCEPT !.logFrames = Count(proc.frame + 1)]
    OBVIOUS
  <2>3. bins' = WriteDump(label, Wram(proc.core)) /\ proc' = [proc EXCEPT !.pc = "dumped", !.mem = mem]
    BY <1>3, <1>5, <2>1, <2>2 DEF PressF5
  <2>4. d.frame = proc.frame /\ d.file = SafeName(label)
    BY <2>1, DumpFields
  <2>5. IsSession(mem)
    BY <1>2, <2>2, <2>4, Dumped
  <2>6. proc' = [pc |-> "dumped", opts |-> proc.opts, mem |-> mem, prior |-> proc.prior,
                 core |-> proc.core, frame |-> proc.frame]
    BY <1>2, <2>3 DEF IsCommand
  <2>7. IsCommand(proc')
    BY <1>1, <1>2, <2>5, <2>6, CommandIs DEF Recording, IsCommand
  <2>8. bins' = [f \in DOMAIN bins \cup {d.file} |->
                   IF f = d.file THEN Wram(proc.core) ELSE bins[f]]
    BY <2>3, <2>4 DEF WriteDump
  <2>9. QED
    BY <1>1, <2>2, <2>4, <2>6, <2>7, <2>8
<1>6. QED
  BY <1>4, <1>5

LEMMA StartScriptDoes ==
  ASSUME TypeOK, NEW o, StartScript(o), proc' # proc
  PROVE  /\ proc.pc = "idle" /\ IsCommand(proc') /\ proc'.pc = "script"
         /\ proc'.mem = yaml \/ proc'.mem = Stamp(yaml, build, o.rom)
<1>1. PICK mem, prior, core :
        /\ mem = (IF yaml.dumps = <<>> /\ yaml.emu = Absent THEN Stamp(yaml, build, o.rom) ELSE yaml)
        /\ prior = Parse(o.text).frames /\ core = History(build, o.rom)
  OBVIOUS
<1>2. /\ proc.pc = "idle"
      /\ proc' = [pc |-> "script", opts |-> o, prior |-> prior, mem |-> mem,
                  core |-> core, frame |-> 0]
  BY <1>1, Zenon DEF StartScript
<1>3. IsSession(mem)
  BY <1>1, Stamped DEF TypeOK
<1>4. "script" \notin Recording
  BY DEF Recording
<1>5. IsCommand(proc')
  BY <1>2, <1>3, <1>4 DEF IsCommand
<1>6. QED
  BY <1>1, <1>2, <1>5

LEMMA ScriptFrameDoes ==
  ASSUME TypeOK, ScriptFrame
  PROVE  /\ proc.pc = "script" /\ IsCommand(proc') /\ proc'.pc \in {"script", "finish"}
         /\ proc'.mem.logFrames = proc.mem.logFrames /\ proc'.mem.offsets = proc.mem.offsets
         /\ proc'.mem.width = proc.mem.width /\ DOMAIN bins \subseteq DOMAIN bins'
         /\ Filed(proc.mem) => \A d \in Range(proc'.mem.dumps) : d.file \in DOMAIN bins'
<1>1. PICK core : core = [proc.core EXCEPT !.pads = Append(@, GetPad(proc.prior, proc.frame))]
  OBVIOUS
<1>2. PICK fault : fault = Faults(core)
  OBVIOUS
<1>3. PICK due : due = DueLabels(proc.opts, proc.frame, fault)
  OBVIOUS
<1>4. PICK mem, pc :
        /\ mem = [proc.mem EXCEPT !.dumps = @ \o [i \in DOMAIN due |-> Dump(due[i], proc.frame)]]
        /\ pc = IF fault THEN "finish" ELSE proc.pc
  OBVIOUS
<1>5. /\ proc.pc = "script" /\ bins' = DumpAll(due, Wram(core))
      /\ proc' = [proc EXCEPT !.pc = pc, !.core = core, !.mem = mem, !.frame = @ + 1]
  BY <1>1, <1>2, <1>3, <1>4, Zenon DEF ScriptFrame
<1>6. Len(due) \in Nat /\ DOMAIN due = 1..Len(due)
  BY <1>3, DueLabelsListed
<1>7. PICK more : more = [i \in DOMAIN due |-> Dump(due[i], proc.frame)]
  OBVIOUS
<1>8. /\ IsSession(mem) /\ mem.logFrames = proc.mem.logFrames
       /\ mem.offsets = proc.mem.offsets /\ mem.width = proc.mem.width
       /\ Range(mem.dumps) = Range(proc.mem.dumps) \cup Range(more)
  <2>1. PICK s, n, dumps, e : s = proc.mem /\ n = proc.frame /\ dumps = s.dumps /\ e = dumps \o more
    OBVIOUS
  <2>2. IsSession(s) /\ n \in Nat /\ Listed(dumps)
    BY <2>1 DEF TypeOK, IsCommand, IsSession
  <2>3. more = DumpList(due, n)
    BY <1>7, <2>1 DEF DumpList
  <2>4. Listed(e) /\ Range(e) = Range(dumps) \cup Range(more)
    BY <1>6, <2>1, <2>2, <2>3, Scripted
  <2>5. mem = [s EXCEPT !.dumps = e]
    BY <1>4, <1>7, <2>1
  <2>6. mem = [dumps |-> e, logFrames |-> s.logFrames, emu |-> s.emu, rom |-> s.rom,
               width |-> s.width, offsets |-> s.offsets]
    BY <2>2, <2>5 DEF IsSession
  <2>7. /\ mem.dumps = e /\ mem.logFrames = s.logFrames /\ mem.emu = s.emu /\ mem.rom = s.rom
        /\ mem.offsets = s.offsets /\ mem.width = s.width
    BY <2>6
  <2>8. IsSession(mem)
    BY <2>2, <2>4, <2>6, <2>7 DEF IsSession
  <2>9. QED
    BY <2>1, <2>4, <2>7, <2>8
<1>9. proc' = [pc |-> pc, opts |-> proc.opts, mem |-> mem, prior |-> proc.prior,
               core |-> core, frame |-> proc.frame + 1]
      /\ proc.frame + 1 \in Nat
  <2>1. PICK n : n = proc.frame + 1
    OBVIOUS
  <2>2. proc' = [proc EXCEPT !.pc = pc, !.core = core, !.mem = mem, !.frame = n]
    BY <1>5, <2>1
  <2>3. n \in Nat
    BY <2>1 DEF TypeOK, IsCommand
  <2>4. QED
    BY <2>1, <2>2, <2>3 DEF TypeOK, IsCommand
<1>10. pc \in {"script", "finish"} /\ pc \notin Recording
  BY <1>4, <1>5 DEF Recording
<1>11. IsCommand(proc')
  BY <1>9, <1>10, <1>8 DEF IsCommand
<1>12. DOMAIN bins' = DOMAIN bins \cup {SafeName(due[i]) : i \in DOMAIN due}
  BY <1>5 DEF DumpAll
<1>13. ASSUME Filed(proc.mem), NEW d \in Range(mem.dumps) PROVE d.file \in DOMAIN bins'
  <2>1. CASE d \in Range(proc.mem.dumps)
    BY <1>12, <1>13, <2>1 DEF Filed
  <2>2. CASE d \notin Range(proc.mem.dumps)
    <3>1. PICK i \in DOMAIN due : d = Dump(due[i], proc.frame)
      <4>1. d \in Range(more)
        BY <1>13, <1>8, <2>2
      <4>2. QED
        BY <1>7, <4>1 DEF Range
    <3>2. d.file = SafeName(due[i])
      BY <3>1, DumpFields
    <3>3. QED
      BY <1>12, <3>2
  <2>3. QED
    BY <2>1, <2>2
<1>14. proc'.mem = mem /\ proc'.pc = pc
  BY <1>9
<1>15. QED
  BY <1>5, <1>10, <1>11, <1>12, <1>13, <1>14, <1>8

-----------------------------------------------------------------------------
(* The state stays what it is made of.                                     *)
LEMMA LineTyped ==
  ASSUME NEW text, text = [lines |-> text.lines, tail |-> text.tail],
         text.lines \in Seq(LogLines), NEW l \in LogLines
  PROVE  LET more == AddLine(text, l)
         IN  /\ more = [lines |-> more.lines, tail |-> more.tail]
             /\ more.lines \in Seq(LogLines) /\ more.tail \in Seq(LogLines)
             /\ more.tail = <<>> /\ (text.tail = <<>> => more.lines = Append(text.lines, l))
<1>1. PICK x, m : x = (IF text.tail = <<>> THEN l ELSE Junk) /\ m = Append(text.lines, x)
  OBVIOUS
<1>2. x \in LogLines
  BY <1>1 DEF LogLines
<1>3. m \in Seq(LogLines) /\ <<>> \in Seq(LogLines)
  BY <1>1, <1>2, EmptySeq
<1>4. AddLine(text, l) = [lines |-> m, tail |-> <<>>]
  BY <1>1 DEF AddLine
<1>5. QED
  BY <1>1, <1>3, <1>4

LEMMA WrittenPad ==
  ASSUME TypeOK, RunInv, proc.pc = "write"
  PROVE  /\ Last(proc.core.pads) \in Pads /\ Len(proc.core.pads) \in Nat
         /\ Len(proc.core.pads) >= 1 /\ Front(proc.core.pads) \in Seq(Pads)
         /\ proc.core.pads = Append(Front(proc.core.pads), Last(proc.core.pads))
         /\ Len(Front(proc.core.pads)) = Len(proc.core.pads) - 1
<1>1. PICK s : s = proc.core.pads
  OBVIOUS
<1>2. s \in Seq(Pads)
  BY <1>1 DEF TypeOK, IsCommand, IsHistory, Recording
<1>3. Len(s) \in Nat /\ Len(s) >= 1
  BY <1>1, <1>2 DEF RunInv, TypeOK, IsCommand
<1>4. PICK f, l : f = SubSeq(s, 1, Len(s) - 1) /\ l = s[Len(s)]
  OBVIOUS
<1>5. l \in Pads /\ f \in Seq(Pads) /\ Len(f) = Len(s) - 1 /\ \A i \in 1..(Len(s) - 1) : f[i] = s[i]
  <2>1. PICK n : n = Len(s) - 1
    OBVIOUS
  <2>2. n \in Int /\ n >= 0 /\ Len(s) = n + 1 /\ \A i \in 1..n : s[i] \in Pads
    BY <1>2, <1>3, <2>1
  <2>3. f = SubSeq(s, 1, n)
    BY <1>4, <2>1
  <2>4. f \in Seq(Pads) /\ Len(f) = n /\ \A i \in 1..n : f[i] = s[i]
    BY <2>2, <2>3, SubSeqProperties
  <2>5. l \in Pads
    BY <1>2, <1>3, <1>4
  <2>6. QED
    BY <2>1, <2>2, <2>4, <2>5
<1>6. PICK t : t = Append(f, l)
  OBVIOUS
<1>7. t \in Seq(Pads) /\ Len(t) = Len(s) /\ t[Len(s)] = l /\ \A i \in 1..(Len(s) - 1) : t[i] = f[i]
  BY <1>3, <1>5, <1>6, AppendProperties
<1>8. ASSUME NEW i \in 1..Len(t) PROVE t[i] = s[i]
  <2>1. CASE i = Len(s)
    BY <1>4, <1>7, <2>1
  <2>2. CASE i # Len(s)
    <3>1. i \in 1..(Len(s) - 1)
      BY <1>3, <1>7, <2>2
    <3>2. QED
      BY <1>5, <1>7, <3>1
  <2>3. QED
    BY <2>1, <2>2
<1>9. t = s
  BY <1>2, <1>7, <1>8, SeqEqual
<1>10. QED
  BY <1>1, <1>3, <1>4, <1>5, <1>6, <1>9 DEF Front, Last

LEMMA LogStays ==
  ASSUME LogTyped, UNCHANGED log
  PROVE  LogTyped'
  BY DEF LogTyped

LEMMA LogKept ==
  ASSUME TypeOK, RunInv, [Next]_vars
  PROVE  LogTyped'
<1>1. LogTyped
  BY DEF TypeOK
<1>2. CASE UNCHANGED log
  BY <1>1, <1>2, LogStays
<1>3. CASE OpenLog
  <2>1. CASE log' = log
    BY <1>1, <2>1, LogStays
  <2>2. CASE log' # log
    <3>1. log' = [exists |-> TRUE, text |-> AddLine(NoText, Header("v1", NoRom))]
      BY <1>3, <2>2 DEF OpenLog
    <3>2. PICK h : h = <<Header("v1", NoRom)>>
      OBVIOUS
    <3>3. log' = [exists |-> TRUE, text |-> [lines |-> h, tail |-> <<>>]]
      BY <3>1, <3>2, NewLog
    <3>4. h \in Seq(LogLines) /\ <<>> \in Seq(LogLines)
      BY <3>2, NewLog, EmptySeq DEF IsLog
    <3>5. QED
      BY <3>3, <3>4 DEF LogTyped
  <2>3. QED
    BY <2>1, <2>2
<1>4. CASE WriteLine
  <2>1. PICK text, l, more : text = log.text /\ l = Run(1, Last(proc.core.pads)) /\ more = AddLine(text, l)
    OBVIOUS
  <2>2. log' = [log EXCEPT !.text = more] /\ proc.pc = "write"
    BY <1>4, <2>1 DEF WriteLine
  <2>3. log' = [exists |-> log.exists, text |-> more]
    BY <1>1, <2>2 DEF LogTyped
  <2>4. l \in LogLines
    BY <2>1, <2>2, WrittenPad DEF LogLines
  <2>5. text = [lines |-> text.lines, tail |-> text.tail] /\ text.lines \in Seq(LogLines)
    BY <1>1, <2>1 DEF LogTyped
  <2>6. more = [lines |-> more.lines, tail |-> more.tail]
        /\ more.lines \in Seq(LogLines) /\ more.tail \in Seq(LogLines)
    BY <2>1, <2>4, <2>5, LineTyped
  <2>7. QED
    BY <1>1, <2>3, <2>6 DEF LogTyped
<1>5. CASE KillInLine
  <2>1. proc.pc = "write"
    BY <1>5 DEF KillInLine
  <2>2. PICK piece \in {Junk, Run(1, Last(proc.core.pads))} :
          log' = [log EXCEPT !.text.tail = IF @ = <<>> THEN <<piece>> ELSE <<Junk>>]
    BY <1>5 DEF KillInLine
  <2>3. piece \in LogLines /\ Junk \in LogLines
    BY <2>1, <2>2, WrittenPad DEF LogLines
  <2>4. PICK tail : tail = IF log.text.tail = <<>> THEN <<piece>> ELSE <<Junk>>
    OBVIOUS
  <2>5. tail \in Seq(LogLines)
    BY <2>3, <2>4
  <2>6. log' = [exists |-> log.exists, text |-> [lines |-> log.text.lines, tail |-> tail]]
    BY <1>1, <2>2, <2>4 DEF LogTyped
  <2>7. QED
    BY <1>1, <2>5, <2>6 DEF LogTyped
<1>6. CASE PowerCut
  <2>1. PICK n \in 1..(Len(log.text.lines) - 1) :
          log' = [log EXCEPT !.text = [lines |-> SubSeq(@.lines, 1, n), tail |-> <<>>]]
    BY <1>6 DEF PowerCut
  <2>2. PICK s, t : s = log.text.lines /\ t = SubSeq(s, 1, n)
    OBVIOUS
  <2>3. s \in Seq(LogLines) /\ n \in 1..Len(s)
    BY <1>1, <2>1, <2>2 DEF LogTyped
  <2>4. t \in Seq(LogLines) /\ <<>> \in Seq(LogLines)
    BY <2>2, <2>3, EmptySeq
  <2>5. log' = [exists |-> log.exists, text |-> [lines |-> t, tail |-> <<>>]]
    BY <1>1, <2>1, <2>2 DEF LogTyped
  <2>6. QED
    BY <1>1, <2>4, <2>5 DEF LogTyped
<1>7. QED
  BY <1>2, <1>3, <1>4, <1>5, <1>6 DEF Next, vars, files, Unrun, StartInteractive, Replay, SaveStamp,
     LiveFrame, NoHotkey, SaveDump, Quit, PressF5, StartScript, ScriptFrame, FinishScript, Search,
     Kill, Rebuild

\* Whatever command runs, session.yaml becomes the session in its hands, with the frames it
\* counted, or what a search leaves of it, or stays.
LEMMA YamlChanges ==
  ASSUME TypeOK, [Next]_vars
  PROVE  \/ yaml' = yaml
         \/ proc.pc # "idle" /\ saved' = TRUE
            /\ (yaml' = proc.mem \/ yaml' = [proc.mem EXCEPT !.logFrames = Count(proc.frame)])
         \/ saved' = TRUE /\ \E c \in Searches : Search(c) /\ yaml' = RunSearch(yaml, bins, c)
<1>1. CASE \E c \in Searches : Search(c)
  BY <1>1 DEF Search, Save
<1>2. CASE SaveStamp \/ SaveDump \/ Quit \/ FinishScript \/ \E pad \in Pads : LiveFrame(pad)
  BY <1>2 DEF SaveStamp, SaveDump, Quit, FinishScript, LiveFrame, Save
<1>3. QED
  BY <1>1, <1>2 DEF Next, vars, files, Unrun, StartInteractive, Replay, OpenLog, WriteLine, NoHotkey,
     PressF5, StartScript, ScriptFrame, Kill, KillInLine, PowerCut, Rebuild

LEMMA YamlKept ==
  ASSUME TypeOK, [Next]_vars
  PROVE  IsSession(yaml')
<1>1. IsSession(yaml) /\ IsSession(proc.mem) /\ proc.frame \in Nat
  BY DEF TypeOK, IsCommand
<1>2. ASSUME yaml' = [proc.mem EXCEPT !.logFrames = Count(proc.frame)] PROVE IsSession(yaml')
  BY <1>1, <1>2, Counted
<1>3. ASSUME NEW c, yaml' = RunSearch(yaml, bins, c) PROVE IsSession(yaml')
  BY <1>1, <1>3, Searched
<1>4. QED
  BY <1>1, <1>2, <1>3, YamlChanges

\* The command goes on, or ends.
LEMMA LoggedDoes ==
  ASSUME TypeOK, OpenLog \/ WriteLine \/ NoHotkey \/ SaveStamp \/ SaveDump
  PROVE  /\ proc.pc \in Recording
         /\ OpenLog => proc.pc = "open" /\ Goes(IF proc.opts.resume THEN "live" ELSE "stamp", proc.frame)
         /\ WriteLine => proc.pc = "write" /\ Goes("hotkey", proc.frame)
         /\ NoHotkey => proc.pc = "hotkey" /\ Goes("live", proc.frame + 1)
         /\ SaveStamp => proc.pc = "stamp" /\ Goes("live", proc.frame)
         /\ SaveDump => proc.pc = "dumped" /\ Goes("live", proc.frame + 1)
<1>1. proc.pc \in Recording /\ proc.frame + 1 \in Nat
  <2>1. proc.pc \in {"open", "write", "hotkey", "stamp", "dumped"}
    BY DEF OpenLog, WriteLine, NoHotkey, SaveStamp, SaveDump
  <2>2. QED
    BY <2>1 DEF Recording, TypeOK, IsCommand
<1>2. {"live", "stamp", "hotkey"} \subseteq Recording
  BY DEF Recording
<1>3. ASSUME OpenLog
      PROVE  proc.pc = "open" /\ Goes(IF proc.opts.resume THEN "live" ELSE "stamp", proc.frame)
  <2>1. PICK pc : pc = IF proc.opts.resume THEN "live" ELSE "stamp"
    OBVIOUS
  <2>2. proc.pc = "open" /\ proc' = [proc EXCEPT !.pc = pc] /\ pc \in Recording
    BY <1>2, <1>3, <2>1 DEF OpenLog
  <2>3. QED
    BY <1>1, <2>1, <2>2, GoesTo
<1>4. ASSUME WriteLine PROVE proc.pc = "write" /\ Goes("hotkey", proc.frame)
  <2>1. proc.pc = "write" /\ proc' = [proc EXCEPT !.pc = "hotkey"]
    BY <1>4 DEF WriteLine
  <2>2. QED
    BY <1>1, <1>2, <2>1, GoesTo
<1>5. ASSUME SaveStamp PROVE proc.pc = "stamp" /\ Goes("live", proc.frame)
  <2>1. proc.pc = "stamp" /\ proc' = [proc EXCEPT !.pc = "live"]
    BY <1>5 DEF SaveStamp
  <2>2. QED
    BY <1>1, <1>2, <2>1, GoesTo
<1>6. ASSUME NoHotkey PROVE proc.pc = "hotkey" /\ Goes("live", proc.frame + 1)
  <2>1. proc.pc = "hotkey" /\ proc' = [proc EXCEPT !.pc = "live", !.frame = proc.frame + 1]
    BY <1>6 DEF NoHotkey
  <2>2. QED
    BY <1>1, <1>2, <2>1, GoesOn
<1>7. ASSUME SaveDump PROVE proc.pc = "dumped" /\ Goes("live", proc.frame + 1)
  <2>1. proc.pc = "dumped" /\ proc' = [proc EXCEPT !.pc = "live", !.frame = proc.frame + 1]
    BY <1>7 DEF SaveDump
  <2>2. QED
    BY <1>1, <1>2, <2>1, GoesOn
<1>8. QED
  BY <1>1, <1>3, <1>4, <1>5, <1>6, <1>7

LEMMA Steps ==
  ASSUME TypeOK, [Next]_vars
  PROVE  \/ proc' = proc \/ proc' = Idle
         \/ \E o \in InteractiveOpts : StartInteractive(o) /\ proc' # proc
         \/ Replay \/ OpenLog \/ WriteLine \/ NoHotkey \/ SaveStamp \/ SaveDump
         \/ \E pad \in Pads : LiveFrame(pad)
         \/ \E raw \in Typed : PressF5(raw)
         \/ \E o \in Scripts : StartScript(o) /\ proc' # proc
         \/ ScriptFrame
  BY DEF Next, vars, Quit, FinishScript, Kill, KillInLine, PowerCut, Close, Search, Rebuild

LEMMA ProcKept ==
  ASSUME TypeOK, [Next]_vars
  PROVE  IsCommand(proc')
<1>1. CASE proc' = proc \/ proc' = Idle
  BY <1>1, IdleTyped DEF TypeOK
<1>2. CASE \E o \in InteractiveOpts : StartInteractive(o) /\ proc' # proc
  BY <1>2, StartDoes
<1>3. CASE Replay
  BY <1>3, ReplayDoes, IdleTyped
<1>4. CASE OpenLog \/ WriteLine \/ NoHotkey \/ SaveStamp \/ SaveDump
  BY <1>4, LoggedDoes DEF Goes
<1>5. CASE \E pad \in Pads : LiveFrame(pad)
  BY <1>5, LiveFrameDoes, IdleTyped
<1>6. CASE \E raw \in Typed : PressF5(raw)
  BY <1>6, PressF5Does DEF Goes
<1>7. CASE \E o \in Scripts : StartScript(o) /\ proc' # proc
  BY <1>7, StartScriptDoes
<1>8. CASE ScriptFrame
  BY <1>8, ScriptFrameDoes
<1>9. QED
  BY <1>1, <1>2, <1>3, <1>4, <1>5, <1>6, <1>7, <1>8, Steps

LEMMA NarrowedKept ==
  ASSUME TypeOK, [Next]_vars
  PROVE  IsSeq(narrowed')
<1>1. IsSeq(narrowed)
  BY DEF TypeOK
<1>2. CASE narrowed' = narrowed
  BY <1>1, <1>2
<1>3. CASE narrowed' # narrowed
  <2>1. PICK c \in Searches : Search(c)
    BY <1>3 DEF Next, vars, Unrun, StartInteractive, Replay, OpenLog, SaveStamp, LiveFrame, WriteLine,
       NoHotkey, SaveDump, Quit, PressF5, StartScript, ScriptFrame, FinishScript, Kill, KillInLine,
       PowerCut, Rebuild
  <2>2. PICK applied : applied = [i \in DOMAIN c |->
                          [clause |-> c[i], dumps |-> DumpsOf(yaml, bins, c[i])]]
    OBVIOUS
  <2>3. narrowed' = applied \/ narrowed' = narrowed \o applied
    BY <1>3, <2>1, <2>2 DEF Search
  <2>4. c \in Seq(Range(c))
    BY RecorderAssumption
  <2>5. PICK S : S = Range(applied)
    OBVIOUS
  <2>6. applied \in Seq(S)
    <3>1. PICK n : n = Len(c)
      OBVIOUS
    <3>2. n \in Nat /\ DOMAIN c = 1..n
      BY <2>4, <3>1
    <3>3. applied \in [1..n -> S]
      BY <2>2, <2>5, <3>2 DEF Range
    <3>4. QED
      BY <3>2, <3>3
  <2>7. PICK t : t = narrowed \o applied
    OBVIOUS
  <2>8. t \in Seq(Range(narrowed) \cup S)
    <3>1. PICK U : U = Range(narrowed) \cup S
      OBVIOUS
    <3>2. narrowed \in Seq(U) /\ applied \in Seq(U)
      BY <1>1, <2>6, <3>1, SeqMonotonic DEF IsSeq
    <3>3. QED
      BY <2>7, <3>1, <3>2, ConcatProperties
  <2>9. t \in Seq(Range(t)) /\ applied \in Seq(Range(applied))
    BY <2>6, <2>8, SeqOfRange
  <2>10. QED
    BY <2>3, <2>7, <2>9 DEF IsSeq
<1>4. QED
  BY <1>2, <1>3

LEMMA TypeKept ==
  ASSUME TypeOK, RunInv, [Next]_vars
  PROVE  TypeOK'
  BY LogKept, YamlKept, ProcKept, NarrowedKept DEF TypeOK

-----------------------------------------------------------------------------
(* The candidates.  What the first n clauses of a search leave.            *)
IsNarrowing(f, start, w, s, held, clauses, n) ==
  f = [i \in 0..n |-> IF i = 0 THEN start
                      ELSE {o \in f[i - 1] : Keep(clauses[i], w, DumpsOf(s, held, clauses[i]), o)}]

Meeting(start, w, s, held, clauses, n) ==
  {o \in start : \A i \in 1..n : Keep(clauses[i], w, DumpsOf(s, held, clauses[i]), o)}

LEMMA NarrowingExists ==
  ASSUME NEW start, NEW w, NEW s, NEW held, NEW clauses
  PROVE  \A n \in Nat : \E f : /\ IsNarrowing(f, start, w, s, held, clauses, n)
                               /\ f[n] = Meeting(start, w, s, held, clauses, n)
<1> DEFINE T == {n \in Nat : \E f : /\ IsNarrowing(f, start, w, s, held, clauses, n)
                                    /\ f[n] = Meeting(start, w, s, held, clauses, n)}
<1>1. 0 \in T
  <2>1. PICK f : f = [k \in 0..0 |-> start]
    OBVIOUS
  <2>2. IsNarrowing(f, start, w, s, held, clauses, 0)
    BY <2>1 DEF IsNarrowing
  <2>3. Meeting(start, w, s, held, clauses, 0) = start
    BY DEF Meeting
  <2>4. QED
    BY <2>1, <2>2, <2>3
<1>2. ASSUME NEW n \in Nat, n \in T PROVE n + 1 \in T
  <2>1. PICK f : IsNarrowing(f, start, w, s, held, clauses, n)
                 /\ f[n] = Meeting(start, w, s, held, clauses, n)
    BY <1>2
  <2>2. PICK z : z = {o \in f[n] : Keep(clauses[n + 1], w, DumpsOf(s, held, clauses[n + 1]), o)}
    OBVIOUS
  <2>3. PICK g : g = [k \in 0..(n + 1) |-> IF k = n + 1 THEN z ELSE f[k]]
    OBVIOUS
  <2>4. ASSUME NEW k \in 0..(n + 1)
        PROVE  g[k] = IF k = 0 THEN start
                      ELSE {o \in g[k - 1] : Keep(clauses[k], w, DumpsOf(s, held, clauses[k]), o)}
    <3>1. CASE k = n + 1
      <4>1. n \in 0..(n + 1) /\ n # n + 1 /\ k - 1 = n /\ k # 0
        BY <3>1
      <4>2. g[n] = f[n]
        BY <2>3, <4>1
      <4>3. g[k] = z
        BY <2>3, <3>1
      <4>4. QED
        BY <2>2, <3>1, <4>1, <4>2, <4>3
    <3>2. CASE k # n + 1
      <4>1. k \in 0..n /\ (k # 0 => k - 1 \in 0..(n + 1) /\ k - 1 # n + 1)
        BY <3>2
      <4>2. f[k] = IF k = 0 THEN start
                   ELSE {o \in f[k - 1] : Keep(clauses[k], w, DumpsOf(s, held, clauses[k]), o)}
        BY <2>1, <4>1 DEF IsNarrowing
      <4>3. g[k] = f[k] /\ (k # 0 => g[k - 1] = f[k - 1])
        BY <2>3, <3>2, <4>1
      <4>4. QED
        BY <4>2, <4>3
    <3>3. QED
      BY <3>1, <3>2
  <2>5. IsNarrowing(g, start, w, s, held, clauses, n + 1)
    BY <2>3, <2>4 DEF IsNarrowing
  <2>6. g[n + 1] = Meeting(start, w, s, held, clauses, n + 1)
    <3>1. g[n + 1] = z
      BY <2>3
    <3>2. ASSUME NEW o PROVE o \in z <=> o \in Meeting(start, w, s, held, clauses, n + 1)
      <4>1. \A i \in 1..(n + 1) : i \in 1..n \/ i = n + 1
        OBVIOUS
      <4>2. 1..n \subseteq 1..(n + 1) /\ n + 1 \in 1..(n + 1)
        OBVIOUS
      <4>3. QED
        BY <2>1, <2>2, <4>1, <4>2 DEF Meeting
    <3>3. QED
      BY <3>1, <3>2
  <2>7. QED
    BY <2>5, <2>6
<1> HIDE DEF T
<1>3. \A n \in Nat : n \in T
  BY <1>1, <1>2, Up
<1>4. QED
  BY <1>3 DEF T

\* The same function.
LEMMA NarrowingUnique ==
  ASSUME NEW start, NEW w, NEW s, NEW held, NEW clauses, NEW n \in Nat,
         NEW f, IsNarrowing(f, start, w, s, held, clauses, n),
         NEW g, IsNarrowing(g, start, w, s, held, clauses, n)
  PROVE  f[n] = g[n]
<1> DEFINE T == {k \in Nat : k <= n => f[k] = g[k]}
<1>1. 0 \in T
  BY DEF IsNarrowing
<1>2. ASSUME NEW k \in Nat, k \in T PROVE k + 1 \in T
  <2>1. SUFFICES ASSUME k + 1 <= n PROVE f[k + 1] = g[k + 1]
    OBVIOUS
  <2>2. k + 1 \in 0..n /\ k + 1 # 0 /\ (k + 1) - 1 = k /\ f[k] = g[k]
    BY <1>2, <2>1
  <2>3. /\ f[k + 1] = {o \in f[k] : Keep(clauses[k + 1], w, DumpsOf(s, held, clauses[k + 1]), o)}
        /\ g[k + 1] = {o \in g[k] : Keep(clauses[k + 1], w, DumpsOf(s, held, clauses[k + 1]), o)}
    BY <2>2 DEF IsNarrowing
  <2>4. QED
    BY <2>2, <2>3
<1> HIDE DEF T
<1>3. \A k \in Nat : k \in T
  BY <1>1, <1>2, Up
<1>4. QED
  BY <1>3 DEF T

LEMMA NarrowedIs ==
  ASSUME NEW start, NEW w, NEW s, NEW held, NEW clauses, Len(clauses) \in Nat
  PROVE  Narrowed(start, w, s, held, clauses) = Meeting(start, w, s, held, clauses, Len(clauses))
<1> DEFINE f == CHOOSE f : IsNarrowing(f, start, w, s, held, clauses, Len(clauses))
<1>1. PICK g : /\ IsNarrowing(g, start, w, s, held, clauses, Len(clauses))
               /\ g[Len(clauses)] = Meeting(start, w, s, held, clauses, Len(clauses))
  BY NarrowingExists
<1>2. IsNarrowing(f, start, w, s, held, clauses, Len(clauses))
  BY <1>1
<1>3. Narrowed(start, w, s, held, clauses) = f[Len(clauses)]
  BY DEF Narrowed, IsNarrowing
<1> HIDE DEF f
<1>4. f[Len(clauses)] = g[Len(clauses)]
  BY <1>1, <1>2, NarrowingUnique
<1>5. QED
  BY <1>1, <1>3, <1>4

\* A search applied to the answers of the clauses given before, or to every offset.
Applied(s, held, clauses) ==
  [i \in DOMAIN clauses |-> [clause |-> clauses[i], dumps |-> DumpsOf(s, held, clauses[i])]]

LEMMA SearchAnswers ==
  ASSUME NEW s, IsSession(s), NEW held, NEW c \in Searches, NEW given, IsSeq(given),
         s.offsets = {} \/ s.offsets = Answers(given, s.width)
  PROVE  LET t == RunSearch(s, held, c)
         IN  t.offsets = Answers(IF Restarts(s, c) THEN Applied(s, held, c)
                                                   ELSE given \o Applied(s, held, c), t.width)
<1>1. PICK w, start, t :
        /\ w = SearchWidth(s, c) /\ t = RunSearch(s, held, c)
        /\ start = (IF Restarts(s, c) THEN FullOffsets(w) ELSE s.offsets)
  OBVIOUS
<1>2. c \in Seq(Range(c)) /\ Len(c) \in Nat /\ DOMAIN c = 1..Len(c)
  BY RecorderAssumption
<1>3. t = [s EXCEPT !.width = w, !.offsets = Narrowed(start, w, s, held, c)]
  BY <1>1 DEF RunSearch
<1>4. t.width = w /\ t.offsets = Narrowed(start, w, s, held, c)
  BY <1>3 DEF IsSession
<1>5. t.offsets = Meeting(start, w, s, held, c, Len(c))
  BY <1>2, <1>4, NarrowedIs
<1>6. PICK a : a = Applied(s, held, c)
  OBVIOUS
<1>7. /\ DOMAIN a = 1..Len(c)
      /\ \A i \in 1..Len(c) : a[i].clause = c[i] /\ a[i].dumps = DumpsOf(s, held, c[i])
  BY <1>2, <1>6 DEF Applied
<1>8. CASE Restarts(s, c)
  <2>1. start = FullOffsets(w)
    BY <1>1, <1>8
  <2>2. Answers(a, w) = Meeting(start, w, s, held, c, Len(c))
    BY <1>7, <2>1 DEF Answers, Meeting
  <2>3. QED
    BY <1>1, <1>4, <1>5, <1>6, <1>8, <2>2
<1>9. CASE ~Restarts(s, c)
  <2>1. s.width = w /\ start = Answers(given, w)
    BY <1>1, <1>9 DEF Restarts
  <2>2. PICK b, n : b = given \o a /\ n = Len(given)
    OBVIOUS
  <2>3. PICK U : U = Range(given) \cup Range(a)
    OBVIOUS
  <2>4. a \in Seq(U) /\ given \in Seq(U) /\ Len(a) = Len(c)
    <3>1. PICK m, R : m = Len(c) /\ R = Range(a)
      OBVIOUS
    <3>2. DOMAIN a = 1..m /\ a \in [1..m -> R]
      BY <1>2, <1>6, <1>7, <3>1 DEF Range, Applied
    <3>3. a \in Seq(R) /\ m \in Nat
      BY <1>2, <3>1, <3>2
    <3>4. Len(a) = m
      BY <3>2, <3>3
    <3>5. a \in Seq(U)
      BY <2>3, <3>1, <3>3, SeqMonotonic
    <3>6. given \in Seq(U)
      BY <2>3, SeqMonotonic DEF IsSeq
    <3>7. QED
      BY <3>1, <3>4, <3>5, <3>6
  <2>5. /\ n \in Nat /\ DOMAIN given = 1..n /\ DOMAIN b = 1..(n + Len(c))
        /\ \A i \in 1..n : b[i] = given[i]
        /\ \A i \in 1..Len(c) : b[n + i] = a[i]
    <3>6. n \in Nat /\ DOMAIN given = 1..n
      BY <2>2, <2>4, LenProperties
    <3>7. /\ given \o a \in Seq(U) /\ Len(given \o a) = Len(given) + Len(a)
          /\ \A i \in 1..(Len(given) + Len(a)) :
               (given \o a)[i] = IF i <= Len(given) THEN given[i] ELSE a[i - Len(given)]
      BY <2>4, ConcatProperties
    <3>1. b \in Seq(U) /\ Len(b) = n + Len(c) /\ DOMAIN b = 1..(n + Len(c))
      <4>1. b \in Seq(U) /\ Len(b) = n + Len(c)
        BY <2>2, <2>4, <3>7
      <4>2. QED
        BY <4>1, LenProperties
    <3>2. \A i \in 1..(n + Len(c)) : b[i] = IF i <= n THEN given[i] ELSE a[i - n]
      BY <2>2, <2>4, <3>7
    <3>3. ASSUME NEW i \in 1..n PROVE b[i] = given[i]
      BY <1>2, <3>6, <3>2
    <3>4. ASSUME NEW i \in 1..Len(c) PROVE b[n + i] = a[i]
      <4>1. PICK j : j = n + i
        OBVIOUS
      <4>2. j \in 1..(n + Len(c)) /\ ~(j <= n) /\ j - n = i
        BY <1>2, <3>6, <4>1
      <4>3. QED
        BY <3>2, <4>1, <4>2
    <3>5. QED
      BY <3>6, <3>1, <3>3, <3>4
  <2>6. ASSUME NEW o
        PROVE  o \in Answers(b, w) <=> o \in Meeting(start, w, s, held, c, Len(c))
    <3>1. ASSUME o \in Answers(b, w) PROVE o \in Meeting(start, w, s, held, c, Len(c))
      <4>1. ASSUME NEW i \in 1..n PROVE Keep(given[i].clause, w, given[i].dumps, o)
        <5>1. i \in DOMAIN b /\ b[i] = given[i]
          BY <1>2, <2>5
        <5>2. QED
          BY <3>1, <5>1 DEF Answers
      <4>2. ASSUME NEW i \in 1..Len(c) PROVE Keep(c[i], w, DumpsOf(s, held, c[i]), o)
        <5>1. PICK j : j = n + i
          OBVIOUS
        <5>2. j \in DOMAIN b /\ b[j] = a[i]
          BY <1>2, <2>5, <5>1
        <5>3. Keep(a[i].clause, w, a[i].dumps, o)
          BY <3>1, <5>2 DEF Answers
        <5>4. QED
          BY <1>7, <5>3
      <4>3. QED
        BY <2>1, <2>5, <3>1, <4>1, <4>2 DEF Answers, Meeting
    <3>2. ASSUME o \in Meeting(start, w, s, held, c, Len(c)) PROVE o \in Answers(b, w)
      <4>1. ASSUME NEW i \in DOMAIN b PROVE Keep(b[i].clause, w, b[i].dumps, o)
        <5>1. CASE i <= n
          <6>1. i \in DOMAIN given /\ b[i] = given[i]
            BY <1>2, <2>5, <5>1
          <6>2. QED
            BY <2>1, <3>2, <6>1 DEF Answers, Meeting
        <5>2. CASE ~(i <= n)
          <6>1. PICK j : j = i - n
            OBVIOUS
          <6>2. j \in 1..Len(c) /\ i = n + j
            BY <1>2, <2>5, <5>2, <6>1
          <6>3. b[i] = a[j]
            BY <2>5, <6>2
          <6>4. Keep(c[j], w, DumpsOf(s, held, c[j]), o)
            BY <3>2, <6>2 DEF Meeting
          <6>5. QED
            BY <1>7, <6>2, <6>3, <6>4
        <5>3. QED
          BY <5>1, <5>2
      <4>2. QED
        BY <2>1, <3>2, <4>1 DEF Answers, Meeting
    <3>3. QED
      BY <3>1, <3>2
  <2>7. Answers(b, w) = Meeting(start, w, s, held, c, Len(c))
    BY <2>6 DEF Answers, Meeting
  <2>8. QED
    BY <1>1, <1>4, <1>5, <1>6, <1>9, <2>2, <2>7
<1>10. QED
  BY <1>8, <1>9

\* A step that is no search leaves the candidates, on disk and in the hands of a command.
Answering == \E c \in Searches : Search(c) /\ SearchReads(yaml, bins, c)

LEMMA CandidatesStay ==
  ASSUME TypeOK, [Next]_vars, ~Answering,
         proc.pc # "idle" => proc.mem.offsets = yaml.offsets /\ proc.mem.width = yaml.width
  PROVE  yaml'.offsets = yaml.offsets /\ yaml'.width = yaml.width /\ narrowed' = narrowed
<1>1. narrowed' = narrowed
  <2>1. ASSUME NEW c \in Searches, Search(c) PROVE narrowed' = narrowed
    BY <2>1 DEF Search, Answering
  <2>2. QED
    BY <2>1 DEF Next, vars, Unrun, StartInteractive, Replay, OpenLog, SaveStamp, LiveFrame, WriteLine,
       NoHotkey, SaveDump, Quit, PressF5, StartScript, ScriptFrame, FinishScript, Kill, KillInLine,
       PowerCut, Rebuild
<1>2. IsSession(proc.mem) /\ proc.frame \in Nat
  BY DEF TypeOK, IsCommand
<1>3. ASSUME yaml' = [proc.mem EXCEPT !.logFrames = Count(proc.frame)]
      PROVE  yaml'.offsets = proc.mem.offsets /\ yaml'.width = proc.mem.width
  BY <1>2, <1>3, Counted
<1>4. ASSUME NEW c \in Searches, Search(c) PROVE yaml' = yaml
  BY <1>4 DEF Search, Answering
<1>5. QED
  BY <1>1, <1>3, <1>4, YamlChanges

LEMMA CandidatesInHand ==
  ASSUME TypeOK, [Next]_vars, proc'.pc # "idle"
  PROVE  IF proc.pc = "idle"
         THEN (proc'.mem.offsets = yaml.offsets /\ proc'.mem.width = yaml.width) \/ proc' = proc
         ELSE proc'.mem.offsets = proc.mem.offsets /\ proc'.mem.width = proc.mem.width
<1>0. IsSession(proc.mem) /\ proc.frame + 1 \in Nat /\ IsSession(yaml)
  BY DEF TypeOK, IsCommand
<1>1. CASE proc' = proc \/ proc' = Idle
  BY <1>1, IdleTyped
<1>2. CASE \E o \in InteractiveOpts : StartInteractive(o) /\ proc' # proc
  <2>1. PICK o \in InteractiveOpts : StartInteractive(o) /\ proc' # proc
    BY <1>2
  <2>2. proc.pc = "idle" /\ proc'.mem = (IF o.resume THEN yaml ELSE Stamp(yaml, build, o.rom))
    BY <2>1, StartDoes
  <2>3. QED
    BY <1>0, <2>2, Stamped
<1>3. CASE Replay
  BY <1>3, ReplayDoes, IdleTyped
<1>4. CASE OpenLog \/ WriteLine \/ NoHotkey \/ SaveStamp \/ SaveDump
  <2>1. proc'.mem = proc.mem /\ proc.pc # "idle"
    BY <1>4, LoggedDoes DEF Goes, Recording
  <2>2. QED
    BY <2>1
<1>5. CASE \E pad \in Pads : LiveFrame(pad)
  BY <1>5, LiveFrameDoes, IdleTyped
<1>6. CASE \E raw \in Typed : PressF5(raw)
  <2>1. PICK raw \in Typed : PressF5(raw)
    BY <1>6
  <2>2. proc.pc = "hotkey"
    BY <2>1, PressF5Does
  <2>3. CASE Goes("live", proc.frame + 1)
    BY <2>2, <2>3 DEF Goes
  <2>4. CASE ~Goes("live", proc.frame + 1)
    <3>1. PICK d : d.frame = proc.frame
                   /\ proc'.mem = [AddDump(proc.mem, d) EXCEPT !.logFrames = Count(proc.frame + 1)]
      BY <2>1, <2>4, PressF5Does
    <3>2. d.frame \in Nat
      BY <3>1 DEF TypeOK, IsCommand
    <3>3. QED
      BY <1>0, <2>2, <3>1, <3>2, Dumped
  <2>5. QED
    BY <2>3, <2>4
<1>7. CASE \E o \in Scripts : StartScript(o) /\ proc' # proc
  <2>1. PICK o \in Scripts : StartScript(o) /\ proc' # proc
    BY <1>7
  <2>2. proc.pc = "idle" /\ (proc'.mem = yaml \/ proc'.mem = Stamp(yaml, build, o.rom))
    BY <2>1, StartScriptDoes
  <2>3. QED
    BY <1>0, <2>2, Stamped
<1>8. CASE ScriptFrame
  BY <1>8, ScriptFrameDoes
<1>9. QED
  BY <1>1, <1>2, <1>3, <1>4, <1>5, <1>6, <1>7, <1>8, Steps

LEMMA OffsetsKept ==
  ASSUME TypeOK, OffsetsInv, [Next]_vars
  PROVE  OffsetsInv'
<1>1. CASE Answering
  <2>1. PICK c \in Searches : Search(c) /\ SearchReads(yaml, bins, c)
    BY <1>1 DEF Answering
  <2>2. proc.pc = "idle" /\ proc' = proc
    BY <2>1 DEF Search
  <2>3. /\ yaml' = RunSearch(yaml, bins, c)
        /\ narrowed' = IF Restarts(yaml, c) THEN Applied(yaml, bins, c)
                                            ELSE narrowed \o Applied(yaml, bins, c)
    BY <2>1 DEF Search, Save, Applied
  <2>4. /\ IsSession(yaml) /\ IsSeq(narrowed)
        /\ yaml.offsets = {} \/ yaml.offsets = Answers(narrowed, yaml.width)
    BY DEF TypeOK, OffsetsInv
  <2>5. yaml'.offsets = Answers(narrowed', yaml'.width)
    BY <2>3, <2>4, SearchAnswers
  <2>6. QED
    BY <2>2, <2>5 DEF OffsetsInv
<1>2. CASE ~Answering
  <2>1. yaml'.offsets = yaml.offsets /\ yaml'.width = yaml.width /\ narrowed' = narrowed
    BY <1>2, CandidatesStay DEF OffsetsInv
  <2>2. proc'.pc # "idle" => proc'.mem.offsets = yaml.offsets /\ proc'.mem.width = yaml.width
    BY CandidatesInHand DEF OffsetsInv
  <2>3. PICK o, w : o = yaml'.offsets /\ w = yaml'.width
    OBVIOUS
  <2>4. /\ o = {} \/ o = Answers(narrowed, w)
        /\ narrowed # <<>> => o = Answers(narrowed, w)
    BY <2>1, <2>3 DEF OffsetsInv
  <2>5. QED
    BY <2>1, <2>2, <2>3, <2>4 DEF OffsetsInv
<1>3. QED
  BY <1>1, <1>2

-----------------------------------------------------------------------------
(* Where the command is in its run.                                        *)
LEMMA LogStaysThere ==
  ASSUME TypeOK, [Next]_vars
  PROVE  (log.exists => log'.exists) /\ (OpenLog => log'.exists)
<1>0. log = [exists |-> log.exists, text |-> log.text]
  BY DEF TypeOK, LogTyped
<1>1. CASE UNCHANGED log
  BY <1>1 DEF OpenLog
<1>2. CASE OpenLog
  BY <1>2 DEF OpenLog
<1>3. CASE WriteLine \/ KillInLine \/ PowerCut
  <2>1. \E text : log' = [log EXCEPT !.text = text]
    <3>1. ASSUME NEW tail, log' = [log EXCEPT !.text.tail = tail]
          PROVE  log' = [log EXCEPT !.text = [log.text EXCEPT !.tail = tail]]
      BY <1>0, <3>1
    <3>2. CASE WriteLine
      BY <3>2 DEF WriteLine
    <3>3. CASE KillInLine
      <4>1. PICK piece : log' = [log EXCEPT !.text.tail = IF @ = <<>> THEN <<piece>> ELSE <<Junk>>]
        BY <3>3 DEF KillInLine
      <4>2. PICK tail : tail = IF log.text.tail = <<>> THEN <<piece>> ELSE <<Junk>>
        OBVIOUS
      <4>3. log' = [log EXCEPT !.text.tail = tail]
        BY <4>1, <4>2
      <4>4. QED
        BY <3>1, <4>3
    <3>4. CASE PowerCut
      BY <3>4 DEF PowerCut
    <3>5. QED
      BY <1>3, <3>2, <3>3, <3>4
  <2>2. PICK text : log' = [log EXCEPT !.text = text]
    BY <2>1
  <2>3. log'.exists = log.exists
    BY <1>0, <2>2
  <2>4. ~OpenLog
    BY <1>3 DEF OpenLog, WriteLine, KillInLine, PowerCut, Close, Idle
  <2>5. QED
    BY <2>3, <2>4
<1>7. QED
  BY <1>1, <1>2, <1>3 DEF Next, vars, files, Unrun, StartInteractive, Replay, SaveStamp,
     LiveFrame, NoHotkey, SaveDump, Quit, PressF5, StartScript, ScriptFrame, FinishScript, Search,
     Kill, Rebuild

\* The log that a command reads before it opens anything: what a resume goes on from.
LEMMA WholeLines ==
  ASSUME LogTyped, log.text.tail = <<>>
  PROVE  LinesOf(log.text) = log.text.lines
<1>1. PICK s : s = log.text.lines
  OBVIOUS
<1>2. s \in Seq(LogLines) /\ s \o <<>> = s
  BY <1>1, ConcatEmptySeq DEF LogTyped
<1>3. QED
  BY <1>1, <1>2 DEF LinesOf

LEMMA PriorIs ==
  ASSUME LogTyped, NEW o
  PROVE  /\ ~(o.resume /\ log.exists) => PriorLog(o).frames = <<>>
         /\ o.resume /\ log.exists /\ log.text.tail = <<>> /\ IsLog(log.text.lines)
              => PriorLog(o).frames = PadsOf(log.text.lines)
<1>1. CASE ~(o.resume /\ log.exists)
  <2>1. PICK h : h = <<Header("v1", NoRom)>>
    OBVIOUS
  <2>2. PriorLog(o) = Parse(h)
    BY <1>1, <2>1 DEF PriorLog
  <2>3. IsLog(h) /\ PadsOf(h) = <<>>
    BY <2>1, NewLog
  <2>4. Parse(h).frames = PadsOf(h)
    BY <2>3, ParsedLog
  <2>5. QED
    BY <1>1, <2>2, <2>3, <2>4
<1>2. CASE o.resume /\ log.exists
  <2>1. SUFFICES ASSUME log.text.tail = <<>>, IsLog(log.text.lines)
                 PROVE  PriorLog(o).frames = PadsOf(log.text.lines)
    BY <1>2
  <2>2. PriorLog(o) = Parse(log.text.lines)
    BY <1>2, <2>1, WholeLines DEF PriorLog
  <2>3. PICK s : s = log.text.lines
    OBVIOUS
  <2>4. Parse(s).frames = PadsOf(s)
    BY <2>1, <2>3, ParsedLog
  <2>5. QED
    BY <2>2, <2>3, <2>4
<1>3. QED
  BY <1>1, <1>2

LEMMA RunKept ==
  ASSUME TypeOK, RunInv, [Next]_vars
  PROVE  RunInv'
<1>1. (log.exists => log'.exists) /\ (OpenLog => log'.exists)
  BY LogStaysThere
<1>2. CASE proc' = proc
  BY <1>1, <1>2 DEF RunInv
<1>3. CASE proc' = Idle
  BY <1>3, IdleTyped DEF RunInv
<1>4. CASE \E o \in InteractiveOpts : StartInteractive(o) /\ proc' # proc
  <2>1. PICK o \in InteractiveOpts : StartInteractive(o) /\ proc' # proc
    BY <1>4
  <2>2. proc'.pc = "replay" /\ proc'.opts = o /\ proc'.prior = PriorLog(o).frames
    BY <2>1, StartDoes
  <2>3. ~o.resume => PriorLog(o).frames = <<>>
    BY PriorIs DEF TypeOK
  <2>4. QED
    BY <2>2, <2>3 DEF RunInv
<1>5. CASE Replay
  <2>1. CASE proc' = Idle
    BY <1>3, <2>1
  <2>2. CASE proc' # Idle
    <3>1. /\ proc.pc = "replay" /\ proc'.pc = "open" /\ proc'.opts = proc.opts
          /\ proc'.prior = proc.prior /\ proc'.core.pads = proc.prior /\ proc'.frame = Len(proc.prior)
      BY <1>5, <2>2, ReplayDoes
    <3>2. QED
      BY <3>1 DEF RunInv
  <2>3. QED
    BY <2>1, <2>2
<1>6. CASE OpenLog
  <2>1. proc.pc = "open" /\ Goes(IF proc.opts.resume THEN "live" ELSE "stamp", proc.frame)
    BY <1>6, LoggedDoes
  <2>2. QED
    BY <1>1, <1>6, <2>1 DEF Goes, RunInv
<1>7. CASE WriteLine
  <2>1. proc.pc = "write" /\ Goes("hotkey", proc.frame)
    BY <1>7, LoggedDoes
  <2>2. QED
    BY <1>1, <2>1 DEF Goes, RunInv
<1>8. CASE NoHotkey \/ SaveDump \/ SaveStamp
  <2>1. \/ proc.pc \in {"hotkey", "dumped"} /\ Goes("live", proc.frame + 1)
        \/ proc.pc = "stamp" /\ Goes("live", proc.frame)
    BY <1>8, LoggedDoes
  <2>2. QED
    BY <1>1, <2>1 DEF Goes, RunInv
<1>9. CASE \E pad \in Pads : LiveFrame(pad)
  <2>1. PICK pad \in Pads : LiveFrame(pad)
    BY <1>9
  <2>2. CASE proc' = Idle
    BY <1>3, <2>2
  <2>3. CASE proc' # Idle
    <3>1. /\ proc.pc = "live" /\ proc'.pc = "write" /\ proc'.frame = proc.frame
          /\ proc'.core.pads = Append(proc.core.pads, pad)
      BY <2>1, <2>3, LiveFrameDoes
    <3>2. PICK s, t : s = proc.core.pads /\ t = Append(s, pad)
      OBVIOUS
    <3>3. s \in Seq(Pads)
      BY <3>1, <3>2 DEF TypeOK, IsCommand, IsHistory, Recording
    <3>4. Len(t) = Len(s) + 1
      BY <3>2, <3>3, AppendProperties
    <3>5. QED
      BY <1>1, <3>1, <3>2, <3>4 DEF RunInv
  <2>4. QED
    BY <2>2, <2>3
<1>10. CASE \E raw \in Typed : PressF5(raw)
  <2>1. PICK raw \in Typed : PressF5(raw)
    BY <1>10
  <2>2. /\ proc.pc = "hotkey" /\ proc'.core = proc.core
        /\ \/ proc'.pc = "live" /\ proc'.frame = proc.frame + 1
           \/ proc'.pc = "dumped" /\ proc'.frame = proc.frame
    BY <2>1, PressF5Does DEF Goes
  <2>3. QED
    BY <1>1, <2>2 DEF RunInv
<1>11. CASE \E o \in Scripts : StartScript(o) /\ proc' # proc
  BY <1>11, StartScriptDoes DEF RunInv
<1>12. CASE ScriptFrame
  BY <1>12, ScriptFrameDoes DEF RunInv
<1>13. QED
  BY <1>2, <1>3, <1>4, <1>5, <1>6, <1>7, <1>8, <1>9, <1>10, <1>11, <1>12, Steps

-----------------------------------------------------------------------------
(* The log is what was played.                                             *)
LEMMA DamageStays ==
  ASSUME [Next]_vars
  PROVE  damage \subseteq damage' /\ (KillInLine => "torn" \in damage')
<1>1. KillInLine => "torn" \in damage'
  BY DEF KillInLine
<1>2. CASE FinishScript \/ Kill \/ KillInLine \/ PowerCut
  BY <1>1, <1>2 DEF FinishScript, Kill, KillInLine, PowerCut
<1>3. QED
  BY <1>1, <1>2 DEF Next, vars, files, Unrun, StartInteractive, Replay, OpenLog, SaveStamp, LiveFrame,
     WriteLine, NoHotkey, SaveDump, Quit, PressF5, StartScript, ScriptFrame, Search, Rebuild

LEMMA LogChanges ==
  ASSUME [Next]_vars
  PROVE  log' = log \/ OpenLog \/ WriteLine \/ KillInLine \/ PowerCut
  BY DEF Next, vars, files, Unrun, StartInteractive, Replay, SaveStamp,
     LiveFrame, NoHotkey, SaveDump, Quit, PressF5, StartScript, ScriptFrame, FinishScript, Search,
     Kill, Rebuild

\* The log as LogInv has it, of any log and any command.
LogOf(l, p) ==
  /\ l.text.tail = <<>>
  /\ l.exists => IsLog(l.text.lines)
  /\ p.pc \in {"replay", "open"} =>
       p.prior = IF p.opts.resume /\ l.exists THEN PadsOf(l.text.lines) ELSE <<>>
  /\ p.pc \in {"stamp", "live", "write", "hotkey", "dumped"} =>
       /\ l.exists
       /\ PadsOf(l.text.lines) = IF p.pc = "write" THEN Front(p.core.pads) ELSE p.core.pads
  /\ p.pc = "write" => Len(l.text.lines) <= MaxFrames

LEMMA LogInvKept ==
  ASSUME TypeOK, RunInv, LogInv, [Next]_vars
  PROVE  LogInv'
<1>1. SUFFICES ASSUME "torn" \notin damage' PROVE LogOf(log', proc')
  BY DEF LogInv, LogOf
<1>2. ~KillInLine /\ LogOf(log, proc) /\ LogTyped
  BY <1>1, DamageStays DEF LogInv, LogOf, TypeOK
<1>3. CASE PowerCut
  <2>1. PICK n \in 1..(Len(log.text.lines) - 1) :
          log' = [log EXCEPT !.text = [lines |-> SubSeq(@.lines, 1, n), tail |-> <<>>]]
    BY <1>3 DEF PowerCut
  <2>2. log.exists /\ proc' = Idle
    BY <1>3 DEF PowerCut, Close
  <2>3. PICK s, t : s = log.text.lines /\ t = SubSeq(s, 1, n)
    OBVIOUS
  <2>4. IsLog(s) /\ n \in 1..Len(s)
    BY <1>2, <2>1, <2>2, <2>3 DEF LogOf, LogTyped
  <2>5. IsLog(t)
    BY <2>3, <2>4, LogCut
  <2>6. log' = [exists |-> log.exists, text |-> [lines |-> t, tail |-> <<>>]]
    BY <1>2, <2>1, <2>3 DEF LogTyped
  <2>7. log'.text.tail = <<>> /\ log'.text.lines = t /\ proc'.pc = "idle"
    BY <2>2, <2>6, IdleTyped
  <2>8. QED
    BY <2>5, <2>7 DEF LogOf
<1>4. CASE OpenLog
  <2>1. proc.pc = "open" /\ Goes(IF proc.opts.resume THEN "live" ELSE "stamp", proc.frame)
    BY <1>4, LoggedDoes
  <2>2. proc'.core.pads = proc.prior /\ proc'.pc \in {"live", "stamp"}
    BY <2>1 DEF Goes, RunInv
  <2>3. CASE proc.opts.resume /\ log.exists
    <3>1. log' = log
      BY <1>4, <2>3 DEF OpenLog
    <3>2. QED
      BY <1>2, <2>1, <2>2, <2>3, <3>1 DEF LogOf
  <2>4. CASE ~(proc.opts.resume /\ log.exists)
    <3>1. PICK h : h = <<Header("v1", NoRom)>>
      OBVIOUS
    <3>2. log' = [exists |-> TRUE, text |-> [lines |-> h, tail |-> <<>>]]
      BY <1>4, <2>4, <3>1, NewLog DEF OpenLog
    <3>3. proc.prior = <<>>
      BY <1>2, <2>1, <2>4 DEF LogOf
    <3>4. log'.exists /\ log'.text.tail = <<>> /\ log'.text.lines = h
      BY <3>2
    <3>5. IsLog(h) /\ PadsOf(h) = <<>>
      BY <3>1, NewLog
    <3>6. QED
      BY <2>2, <3>3, <3>4, <3>5 DEF LogOf
  <2>5. QED
    BY <2>3, <2>4
<1>5. CASE WriteLine
  <2>1. proc.pc = "write" /\ Goes("hotkey", proc.frame)
    BY <1>5, LoggedDoes
  <2>2. PICK p, l, f, s : p = Last(proc.core.pads) /\ f = Front(proc.core.pads)
                       /\ s = log.text.lines /\ l = Run(1, p)
    OBVIOUS
  <2>3. p \in Pads /\ proc.core.pads = Append(f, p)
    BY <2>1, <2>2, WrittenPad
  <2>4. IsLog(s) /\ PadsOf(s) = f /\ Len(s) <= MaxFrames /\ log.text.tail = <<>> /\ log.exists
    BY <1>2, <2>1, <2>2 DEF LogOf
  <2>5. PICK t : t = Append(s, l)
    OBVIOUS
  <2>6. AddLine(log.text, l) = [lines |-> t, tail |-> <<>>]
    BY <2>2, <2>4, <2>5 DEF AddLine
  <2>7. log' = [log EXCEPT !.text = AddLine(@, l)]
    BY <1>5, <2>2 DEF WriteLine
  <2>8. log' = [exists |-> log.exists, text |-> [lines |-> t, tail |-> <<>>]]
    BY <1>2, <2>6, <2>7 DEF LogTyped
  <2>9. log'.exists /\ log'.text.lines = t /\ log'.text.tail = <<>>
    BY <2>4, <2>8
  <2>10. IsLog(t) /\ PadsOf(t) = Append(f, p)
    BY <2>2, <2>3, <2>4, <2>5, LogGoesOn
  <2>11. QED
    BY <2>1, <2>3, <2>9, <2>10 DEF Goes, LogOf
<1>6. CASE log' = log
  <2>1. PICK l : l = log
    OBVIOUS
  <2>2. LogOf(l, proc) /\ log' = l
    BY <1>2, <1>6, <2>1
  <2>3. SUFFICES LogOf(l, proc')
    BY <2>2
  <2>4. CASE proc' = proc
    BY <2>2, <2>4
  <2>5. CASE proc' = Idle
    BY <2>2, <2>5, IdleTyped DEF LogOf
  <2>6. CASE \E o \in InteractiveOpts : StartInteractive(o) /\ proc' # proc
    <3>1. PICK o \in InteractiveOpts : StartInteractive(o) /\ proc' # proc
      BY <2>6
    <3>2. proc'.pc = "replay" /\ proc'.opts = o /\ proc'.prior = PriorLog(o).frames
      BY <3>1, StartDoes
    <3>3. PriorLog(o).frames = IF o.resume /\ l.exists THEN PadsOf(l.text.lines) ELSE <<>>
      BY <1>2, <2>1, PriorIs DEF LogOf
    <3>4. QED
      BY <2>2, <3>2, <3>3 DEF LogOf
  <2>7. CASE Replay
    <3>1. CASE proc' = Idle
      BY <2>5, <3>1
    <3>2. CASE proc' # Idle
      BY <2>2, <2>7, <3>2, ReplayDoes DEF LogOf
    <3>3. QED
      BY <3>1, <3>2
  <2>8. CASE NoHotkey \/ SaveDump \/ SaveStamp
    <3>1. proc.pc \in {"hotkey", "dumped", "stamp"} /\ proc'.pc = "live" /\ proc'.core = proc.core
      BY <2>8, LoggedDoes DEF Goes
    <3>2. QED
      BY <2>2, <3>1 DEF LogOf
  <2>9. CASE \E pad \in Pads : LiveFrame(pad)
    <3>1. PICK pad \in Pads : LiveFrame(pad)
      BY <2>9
    <3>2. CASE proc' = Idle
      BY <2>5, <3>2
    <3>3. CASE proc' # Idle
      <4>1. /\ proc.pc = "live" /\ Len(log.text.lines) < MaxLog /\ proc'.pc = "write"
            /\ proc'.core.pads = Append(proc.core.pads, pad)
        BY <3>1, <3>3, LiveFrameDoes
      <4>2. PICK s, t : s = proc.core.pads /\ t = Append(s, pad)
        OBVIOUS
      <4>3. s \in Seq(Pads)
        BY <4>1, <4>2 DEF TypeOK, IsCommand, IsHistory, Recording
      <4>4. Front(t) = s
        <5>1. PICK n : n = Len(s)
          OBVIOUS
        <5>2. t \in Seq(Pads) /\ Len(t) = n + 1 /\ n \in Nat /\ \A i \in 1..n : t[i] = s[i]
          BY <4>2, <4>3, <5>1, AppendProperties
        <5>3. PICK f : f = SubSeq(t, 1, n)
          OBVIOUS
        <5>4. f \in Seq(Pads) /\ Len(f) = n /\ \A i \in 1..n : f[i] = s[i]
          BY <5>2, <5>3
        <5>5. f = s
          BY <4>3, <5>1, <5>4, SeqEqual
        <5>6. Front(t) = f
          BY <5>2, <5>3 DEF Front
        <5>7. QED
          BY <5>5, <5>6
      <4>5. Len(l.text.lines) <= MaxFrames
        BY <1>2, <2>1, <4>1, RecorderAssumption DEF LogTyped
      <4>6. QED
        BY <2>2, <4>1, <4>2, <4>4, <4>5 DEF LogOf
    <3>4. QED
      BY <3>2, <3>3
  <2>10. CASE \E raw \in Typed : PressF5(raw)
    <3>1. PICK raw \in Typed : PressF5(raw)
      BY <2>10
    <3>2. proc.pc = "hotkey" /\ proc'.core = proc.core /\ proc'.pc \in {"live", "dumped"}
      BY <3>1, PressF5Does DEF Goes
    <3>3. QED
      BY <2>2, <3>2 DEF LogOf
  <2>11. CASE \E o \in Scripts : StartScript(o) /\ proc' # proc
    BY <2>2, <2>11, StartScriptDoes DEF LogOf
  <2>12. CASE ScriptFrame
    BY <2>2, <2>12, ScriptFrameDoes DEF LogOf
  <2>13. QED
    BY <1>4, <1>5, <2>2, <2>4, <2>5, <2>6, <2>7, <2>8, <2>9, <2>10, <2>11, <2>12, Steps
<1>7. QED
  BY <1>2, <1>3, <1>4, <1>5, <1>6, LogChanges

-----------------------------------------------------------------------------
(* A run and its dumps.  What is played up to a frame stays what it was.   *)
LEMMA AfterIs ==
  ASSUME NEW h, IsHistory(h), NEW n, NEW a, a = SubSeq(h.pads, 1, n)
  PROVE  After(h, n) = [build |-> h.build, rom |-> h.rom, pads |-> a]
<1>1. After(h, n) = [h EXCEPT !.pads = a]
  BY DEF After
<1>2. QED
  BY <1>1 DEF IsHistory

LEMMA PlayedStays ==
  ASSUME NEW s \in Seq(Pads), NEW pad \in Pads, NEW h, IsHistory(h), h.pads = s,
         NEW n \in Nat, n <= Len(s)
  PROVE  After([h EXCEPT !.pads = Append(s, pad)], n) = After(h, n)
<1>1. PICK t : t = Append(s, pad)
  OBVIOUS
<1>2. t \in Seq(Pads) /\ Len(t) = Len(s) + 1 /\ \A i \in 1..Len(s) : t[i] = s[i]
  BY <1>1, AppendProperties
<1>3. SubSeq(t, 1, n) = SubSeq(s, 1, n)
  <2>1. PICK a, b : a = SubSeq(t, 1, n) /\ b = SubSeq(s, 1, n)
    OBVIOUS
  <2>2. a \in Seq(Pads) /\ Len(a) = n /\ \A i \in 1..n : a[i] = t[i]
    BY <1>2, <2>1, SubSeqProperties
  <2>3. b \in Seq(Pads) /\ Len(b) = n /\ \A i \in 1..n : b[i] = s[i]
    BY <2>1, SubSeqProperties
  <2>4. a = b
    BY <1>2, <2>2, <2>3, SeqEqual
  <2>5. QED
    BY <2>1, <2>4
<1>4. PICK g : g = [h EXCEPT !.pads = t]
  OBVIOUS
<1>5. g = [build |-> h.build, rom |-> h.rom, pads |-> t]
  BY <1>4 DEF IsHistory
<1>6. g.build = h.build /\ g.rom = h.rom /\ g.pads = t /\ IsHistory(g)
  BY <1>2, <1>5 DEF IsHistory
<1>7. PICK a : a = SubSeq(s, 1, n)
  OBVIOUS
<1>8. After(g, n) = [build |-> g.build, rom |-> g.rom, pads |-> a]
  BY <1>3, <1>6, <1>7, AfterIs
<1>9. After(h, n) = [build |-> h.build, rom |-> h.rom, pads |-> a]
  BY <1>7, AfterIs
<1>10. QED
  BY <1>1, <1>4, <1>6, <1>8, <1>9

\* Up to its last frame the run is itself.
LEMMA PlayedIsAll ==
  ASSUME NEW h, IsHistory(h), NEW n, n = Len(h.pads)
  PROVE  After(h, n) = h
<1>1. PICK s : s = h.pads
  OBVIOUS
<1>2. s \in Seq(Pads) /\ Len(s) = n /\ n \in Nat
  BY <1>1 DEF IsHistory
<1>3. SubSeq(s, 1, n) = s
  <2>1. PICK b : b = SubSeq(s, 1, n)
    OBVIOUS
  <2>2. b \in Seq(Pads) /\ Len(b) = n /\ \A i \in 1..n : b[i] = s[i]
    BY <1>2, <2>1, SubSeqProperties
  <2>3. b = s
    BY <1>2, <2>2, SeqEqual
  <2>4. QED
    BY <2>1, <2>3
<1>4. After(h, n) = [build |-> h.build, rom |-> h.rom, pads |-> s]
  BY <1>1, <1>3, AfterIs
<1>5. QED
  BY <1>1, <1>4 DEF IsHistory

\* What a replay that goes through has compared: each dump that is alone.
LEMMA ReplayCompares ==
  ASSUME NEW p, IsCommand(p), p.pc = "replay", ~ReplayRefuses(p), ~p.opts.skip,
         NEW d \in Checkpoints(p.mem), AloneIn(p.mem.dumps, d)
  PROVE  d.file \in DOMAIN bins
         /\ bins[d.file] = Wram(After([p.core EXCEPT !.pads = p.prior], d.frame + 1))
<1>1. PICK whole : whole = [p.core EXCEPT !.pads = p.prior]
  OBVIOUS
<1>2. Checkpoints(p.mem) \subseteq Range(p.mem.dumps) /\ \A e \in Checkpoints(p.mem) : e.frame \in Nat
  BY DEF Checkpoints, IsCommand, IsSession, Listed, Range
<1>3. d \in ByFile(p.mem)
  <2>1. ASSUME NEW e \in Checkpoints(p.mem), e.file = d.file PROVE e.frame <= d.frame
    <3>1. CASE e = d
      BY <1>2, <3>1
    <3>2. CASE e # d
      BY <1>2, <2>1, <3>2 DEF AloneIn
    <3>3. QED
      BY <3>1, <3>2
  <2>2. QED
    BY <2>1 DEF ByFile
<1>4. \A e \in ByFile(p.mem) : e.frame = d.frame => e = d
  BY <1>2 DEF ByFile, AloneIn
<1>5. (CHOOSE e \in ByFile(p.mem) : e.frame = d.frame) = d
  BY <1>3, <1>4
<1>6. d.frame \in {e.frame : e \in ByFile(p.mem)}
  BY <1>3
<1>7. PICK f : f = d.frame
  OBVIOUS
<1>8. /\ (CHOOSE e \in ByFile(p.mem) : e.frame = f).file \in DOMAIN bins
      /\ VerifyCheckpoint(bins[(CHOOSE e \in ByFile(p.mem) : e.frame = f).file],
                          Wram(After(whole, f + 1)))
  BY <1>1, <1>6, <1>7 DEF ReplayRefuses
<1>9. QED
  BY <1>1, <1>5, <1>7, <1>8 DEF VerifyCheckpoint

\* A step stutters, ends the command, finds none running, or is one of the command's.
LEMMA StepsOfRun ==
  ASSUME TypeOK, [Next]_vars
  PROVE  \/ UNCHANGED vars \/ proc' = Idle \/ (proc' = proc /\ proc.pc = "idle")
         \/ \E o \in InteractiveOpts : StartInteractive(o) /\ proc' # proc
         \/ Replay \/ OpenLog \/ WriteLine \/ NoHotkey \/ SaveStamp \/ SaveDump
         \/ \E pad \in Pads : LiveFrame(pad)
         \/ \E raw \in Typed : PressF5(raw)
         \/ \E o \in Scripts : StartScript(o) /\ proc' # proc
         \/ ScriptFrame
<1>1. ASSUME NEW o, StartInteractive(o) \/ StartScript(o) PROVE proc.pc = "idle"
  BY <1>1 DEF StartInteractive, StartScript
<1>2. (\E c \in Searches : Search(c)) \/ Rebuild => proc' = proc /\ proc.pc = "idle"
  BY DEF Search, Rebuild
<1>3. Quit \/ FinishScript \/ Kill \/ KillInLine \/ PowerCut => proc' = Idle
  BY DEF Quit, FinishScript, Kill, KillInLine, PowerCut, Close
<1>4. (\E o \in InteractiveOpts : StartInteractive(o)) =>
        \/ proc' = proc /\ proc.pc = "idle"
        \/ \E o \in InteractiveOpts : StartInteractive(o) /\ proc' # proc
  BY <1>1
<1>5. (\E o \in Scripts : StartScript(o)) =>
        \/ proc' = proc /\ proc.pc = "idle"
        \/ \E o \in Scripts : StartScript(o) /\ proc' # proc
  BY <1>1
<1>6. CASE UNCHANGED vars
  BY <1>6
<1>7. CASE Next
  BY <1>2, <1>3, <1>4, <1>5, <1>7 DEF Next
<1>8. QED
  BY <1>6, <1>7

LEMMA SameDumps ==
  ASSUME NEW s, NEW t, s.dumps = t.dumps
  PROVE  Checkpoints(s) = Checkpoints(t)
  BY DEF Checkpoints

LEMMA CheckpointFrames ==
  ASSUME NEW s, IsSession(s)
  PROVE  /\ Checkpoints(s) \subseteq Range(s.dumps)
         /\ \A d \in Checkpoints(s) : d.frame \in Nat /\ d.frame > 0
  BY DEF Checkpoints, IsSession, Listed, Range

\* A command that goes on with the same dumps and the same run.
LEMMA DumpsStay ==
  ASSUME TypeOK, RunInv, DumpInv, bins' = bins, yaml'.dumps = yaml.dumps,
         proc.pc \in Recording \ {"replay", "dumped"}, proc'.pc \in Recording \ {"replay", "dumped"},
         proc'.opts = proc.opts, proc'.mem = proc.mem, proc'.core = proc.core,
         proc'.frame \in {proc.frame, proc.frame + 1}
  PROVE  DumpInv'
<1>1. Checkpoints(yaml') = Checkpoints(yaml)
  BY SameDumps
<1>2. proc.frame \in Nat /\ IsSession(yaml)
  BY DEF TypeOK, IsCommand
<1>3. ASSUME NEW d \in Checkpoints(yaml') PROVE d.frame < proc'.frame
  <2>1. d.frame < proc.frame /\ d.frame \in Nat
    BY <1>1, <1>2, CheckpointFrames DEF DumpInv
  <2>2. QED
    BY <1>2, <2>1
<1>4. ASSUME NEW d, HoldsRun(d) PROVE HoldsRun(d)'
  BY <1>4 DEF HoldsRun
<1>5. ASSUME ~proc'.opts.skip, NEW d \in Checkpoints(proc'.mem), AloneIn(proc'.mem.dumps, d)
      PROVE  HoldsRun(d)'
  BY <1>4, <1>5 DEF DumpInv
<1>6. QED
  BY <1>3, <1>5 DEF DumpInv

LEMMA DumpKept ==
  ASSUME TypeOK, RunInv, DumpInv, [Next]_vars
  PROVE  DumpInv'
<1>1. CASE UNCHANGED vars
  BY <1>1 DEF DumpInv, HoldsRun, vars
<1>2. CASE proc'.pc \notin Recording
  BY <1>2 DEF DumpInv, Recording
<1>3. "idle" \notin Recording /\ Idle.pc = "idle"
  BY DEF Recording, Idle
<1>4. CASE \E o \in InteractiveOpts : StartInteractive(o) /\ proc' # proc
  <2>1. PICK o \in InteractiveOpts : StartInteractive(o) /\ proc' # proc
    BY <1>4
  <2>2. /\ proc'.pc = "replay"
        /\ proc'.mem = (IF o.resume THEN yaml ELSE Stamp(yaml, build, o.rom))
        /\ IF o.resume THEN ~LogTooShort(yaml, Len(proc'.prior)) ELSE ~NotFresh(yaml)
        /\ IsCommand(proc')
    BY <2>1, StartDoes
  <2>3. yaml' = yaml
    BY <2>1 DEF StartInteractive, files
  <2>4. proc'.mem.dumps = yaml.dumps
    BY <2>2, Stamped DEF TypeOK
  <2>5. ASSUME NEW d \in Checkpoints(yaml) PROVE d.frame < Len(proc'.prior)
    <3>1. d.frame \in Nat /\ d.frame > 0 /\ d \in Range(yaml.dumps)
      BY <2>5, CheckpointFrames DEF TypeOK
    <3>2. Len(proc'.prior) \in Nat
      BY <2>2 DEF IsCommand, Recording
    <3>3. CASE o.resume
      <4>1. ~LogTooShort(yaml, Len(proc'.prior))
        BY <2>2, <3>3
      <4>2. ~(d.frame >= Len(proc'.prior))
        BY <2>5, <4>1 DEF LogTooShort
      <4>3. QED
        BY <3>1, <3>2, <4>2
    <3>4. CASE ~o.resume
      <4>1. yaml.dumps = <<>>
        BY <2>2, <3>4 DEF NotFresh
      <4>2. QED
        BY <3>1, <4>1 DEF Range
    <3>5. QED
      BY <3>3, <3>4
  <2>6. QED
    BY <2>2, <2>3, <2>4, <2>5 DEF DumpInv, Recording
<1>5. CASE Replay /\ proc' # Idle
  <2>1. /\ proc.pc = "replay" /\ IsCommand(proc') /\ proc'.pc = "open" /\ proc'.opts = proc.opts
        /\ proc'.mem = proc.mem /\ proc'.frame = Len(proc.prior)
        /\ proc'.core = [proc.core EXCEPT !.pads = proc.prior]
        /\ proc.prior = <<>> \/ ~ReplayRefuses(proc)
    BY <1>5, ReplayDoes
  <2>2. yaml' = yaml /\ bins' = bins
    BY <1>5 DEF Replay, files
  <2>3. proc.mem.dumps = yaml.dumps /\ \A d \in Checkpoints(yaml) : d.frame < Len(proc.prior)
    BY <2>1 DEF DumpInv, Recording
  <2>4. ASSUME ~proc.opts.skip, NEW d \in Checkpoints(proc.mem), AloneIn(proc.mem.dumps, d)
        PROVE  HoldsRun(d)'
    <3>1. d \in Checkpoints(yaml) /\ d.frame \in Nat /\ d.frame > 0
      BY <2>3, <2>4, SameDumps, CheckpointFrames DEF TypeOK
    <3>2. proc.prior # <<>>
      <4>1. SUFFICES ASSUME proc.prior = <<>> PROVE FALSE
        OBVIOUS
      <4>2. Len(proc.prior) = 0
        BY <4>1
      <4>3. QED
        BY <2>3, <3>1, <4>2
    <3>3. IsCommand(proc) /\ ~ReplayRefuses(proc)
      BY <2>1, <3>2 DEF TypeOK
    <3>4. d.file \in DOMAIN bins
          /\ bins[d.file] = Wram(After([proc.core EXCEPT !.pads = proc.prior], d.frame + 1))
      BY <2>1, <2>4, <3>3, ReplayCompares
    <3>5. QED
      BY <2>1, <2>2, <3>4 DEF HoldsRun
  <2>5. QED
    BY <2>1, <2>2, <2>3, <2>4 DEF DumpInv
<1>6. CASE OpenLog \/ WriteLine \/ NoHotkey
  <2>1. /\ proc.pc \in {"open", "write", "hotkey"} /\ proc'.pc \in {"live", "stamp", "hotkey"}
        /\ proc'.opts = proc.opts /\ proc'.mem = proc.mem /\ proc'.core = proc.core
        /\ proc'.frame \in {proc.frame, proc.frame + 1}
    BY <1>6, LoggedDoes DEF Goes
  <2>2. bins' = bins /\ yaml' = yaml
    BY <1>6 DEF OpenLog, WriteLine, NoHotkey, files
  <2>3. QED
    BY <2>1, <2>2, DumpsStay DEF Recording
<1>7. CASE SaveStamp
  <2>1. /\ proc.pc = "stamp" /\ proc'.pc = "live"
        /\ proc'.opts = proc.opts /\ proc'.mem = proc.mem /\ proc'.core = proc.core
        /\ proc'.frame = proc.frame
    BY <1>7, LoggedDoes DEF Goes
  <2>2. bins' = bins /\ yaml' = proc.mem
    BY <1>7 DEF SaveStamp, Save
  <2>3. proc.mem.dumps = yaml.dumps
    BY <2>1 DEF DumpInv, Recording
  <2>4. QED
    BY <2>1, <2>2, <2>3, DumpsStay DEF Recording
<1>8. CASE SaveDump
  <2>1. /\ proc.pc = "dumped" /\ proc'.pc = "live"
        /\ proc'.opts = proc.opts /\ proc'.mem = proc.mem /\ proc'.core = proc.core
        /\ proc'.frame = proc.frame + 1
    BY <1>8, LoggedDoes DEF Goes
  <2>2. bins' = bins /\ yaml' = proc.mem
    BY <1>8 DEF SaveDump, Save
  <2>3. PICK e : proc.mem.dumps = Append(yaml.dumps, e) /\ e.frame = proc.frame
    BY <2>1 DEF DumpInv
  <2>4. proc.frame \in Nat /\ IsSession(yaml) /\ IsSession(proc.mem)
    BY DEF TypeOK, IsCommand
  <2>5. Range(proc.mem.dumps) = Range(yaml.dumps) \cup {e}
    BY <2>3, <2>4, ListedMore DEF IsSession
  <2>6. ASSUME NEW d \in Checkpoints(proc.mem) PROVE d.frame < proc.frame + 1
    <3>1. d \in Range(proc.mem.dumps) /\ d.frame \in Nat /\ d.frame > 0
      BY <2>4, <2>6, CheckpointFrames
    <3>2. CASE d = e
      BY <2>3, <2>4, <3>2
    <3>3. CASE d # e
      <4>1. d \in Checkpoints(yaml)
        BY <2>5, <3>1, <3>3 DEF Checkpoints
      <4>2. d.frame < proc.frame
        BY <2>1, <4>1 DEF DumpInv, Recording
      <4>3. QED
        BY <2>4, <3>1, <4>2
    <3>4. QED
      BY <3>2, <3>3
  <2>7. ASSUME ~proc.opts.skip, NEW d \in Checkpoints(proc.mem), AloneIn(proc.mem.dumps, d)
        PROVE  HoldsRun(d)'
    <3>1. HoldsRun(d)
      BY <2>1, <2>7 DEF DumpInv, Recording
    <3>2. QED
      BY <2>1, <2>2, <3>1 DEF HoldsRun
  <2>8. QED
    BY <2>1, <2>2, <2>6, <2>7 DEF DumpInv
<1>9. CASE \E pad \in Pads : LiveFrame(pad)
  <2>1. PICK pad \in Pads : LiveFrame(pad)
    BY <1>9
  <2>2. CASE proc' = Idle
    BY <1>2, <1>3, <2>2
  <2>3. CASE proc' # Idle
    <3>1. /\ proc.pc = "live" /\ proc'.pc = "write" /\ proc'.frame = proc.frame /\ yaml' = yaml
          /\ proc'.core = [proc.core EXCEPT !.pads = Append(@, pad)]
          /\ proc'.opts = proc.opts /\ proc'.mem = proc.mem
      BY <2>1, <2>3, LiveFrameDoes
    <3>2. bins' = bins
      BY <2>1 DEF LiveFrame
    <3>3. PICK h, s, g : h = proc.core /\ s = proc.core.pads /\ g = proc'.core
      OBVIOUS
    <3>4. IsHistory(h) /\ s \in Seq(Pads) /\ h.pads = s /\ proc.frame = Len(s)
      BY <3>1, <3>3 DEF TypeOK, IsCommand, IsHistory, Recording, RunInv
    <3>5. g = [h EXCEPT !.pads = Append(s, pad)]
      BY <3>1, <3>3
    <3>6. proc.mem.dumps = yaml.dumps /\ \A d \in Checkpoints(yaml) : d.frame < proc.frame
      BY <3>1 DEF DumpInv, Recording
    <3>7. ASSUME ~proc.opts.skip, NEW d \in Checkpoints(proc.mem), AloneIn(proc.mem.dumps, d)
          PROVE  HoldsRun(d)'
      <4>1. d.frame \in Nat /\ d.frame < Len(s)
        <5>1. d \in Checkpoints(yaml)
          BY <3>6, <3>7, SameDumps
        <5>2. QED
          BY <3>4, <3>6, <5>1, CheckpointFrames DEF TypeOK
      <4>2. PICK n : n = d.frame + 1
        OBVIOUS
      <4>3. n \in Nat /\ n <= Len(s)
        BY <3>4, <4>1, <4>2
      <4>4. After(g, n) = After(h, n)
        BY <3>4, <3>5, <4>3, PlayedStays
      <4>5. HoldsRun(d)
        BY <3>1, <3>7 DEF DumpInv, Recording
      <4>6. QED
        BY <3>2, <3>3, <4>2, <4>4, <4>5 DEF HoldsRun
    <3>8. QED
      BY <3>1, <3>6, <3>7 DEF DumpInv
  <2>4. QED
    BY <2>2, <2>3
<1>10. CASE \E raw \in Typed : PressF5(raw)
  <2>1. PICK raw \in Typed : PressF5(raw)
    BY <1>10
  <2>2. proc.pc = "hotkey" /\ yaml' = yaml
    BY <2>1 DEF PressF5
  <2>3. CASE Goes("live", proc.frame + 1) /\ bins' = bins
    <3>1. /\ proc'.pc = "live" /\ proc'.opts = proc.opts /\ proc'.mem = proc.mem
          /\ proc'.core = proc.core /\ proc'.frame = proc.frame + 1
      BY <2>3 DEF Goes
    <3>2. QED
      BY <2>2, <2>3, <3>1, DumpsStay DEF Recording
  <2>4. CASE ~(Goes("live", proc.frame + 1) /\ bins' = bins)
    <3>1. PICK e : /\ e.frame = proc.frame
                   /\ bins' = [f \in DOMAIN bins \cup {e.file} |->
                                 IF f = e.file THEN Wram(proc.core) ELSE bins[f]]
                   /\ IsCommand(proc') /\ proc'.pc = "dumped" /\ proc'.opts = proc.opts
                   /\ proc'.core = proc.core /\ proc'.frame = proc.frame
                   /\ proc'.mem = [AddDump(proc.mem, e) EXCEPT !.logFrames = Count(proc.frame + 1)]
      BY <2>1, <2>4, PressF5Does
    <3>2. proc.frame \in Nat /\ proc.frame + 1 \in Nat /\ IsSession(yaml) /\ IsSession(proc.mem)
      BY DEF TypeOK, IsCommand
    <3>3. proc.mem.dumps = yaml.dumps /\ \A d \in Checkpoints(yaml) : d.frame < proc.frame
      BY <2>2 DEF DumpInv, Recording
    <3>4. proc'.mem.dumps = Append(yaml.dumps, e)
      <4>1. PICK s, n : s = proc.mem /\ n = proc.frame + 1
        OBVIOUS
      <4>2. IsSession(s) /\ n \in Nat /\ e.frame \in Nat
        BY <3>1, <3>2, <4>1
      <4>3. PICK t : t = [AddDump(s, e) EXCEPT !.logFrames = Count(n)]
        OBVIOUS
      <4>4. t.dumps = Append(s.dumps, e)
        BY <4>2, <4>3, Dumped
      <4>5. QED
        BY <3>1, <3>3, <4>1, <4>3, <4>4
    <3>5. Range(proc'.mem.dumps) = Range(yaml.dumps) \cup {e}
      <4>1. PICK dumps, t : dumps = yaml.dumps /\ t = Append(dumps, e)
        OBVIOUS
      <4>2. Listed(dumps) /\ e.frame \in Nat
        BY <3>1, <3>2, <4>1 DEF IsSession
      <4>3. Range(t) = Range(dumps) \cup {e}
        BY <4>1, <4>2, ListedMore
      <4>4. QED
        BY <3>4, <4>1, <4>3
    <3>6. IsHistory(proc.core) /\ proc.frame + 1 = Len(proc.core.pads)
      BY <2>2 DEF TypeOK, IsCommand, Recording, RunInv
    <3>7. ASSUME ~proc.opts.skip, NEW d \in Checkpoints(proc'.mem), AloneIn(proc'.mem.dumps, d)
          PROVE  HoldsRun(d)'
      <4>1. CASE d = e
        <5>1. PICK h, n : h = proc.core /\ n = proc.frame + 1
          OBVIOUS
        <5>2. After(h, n) = h
          BY <3>6, <5>1, PlayedIsAll
        <5>3. bins'[e.file] = Wram(h) /\ e.file \in DOMAIN bins'
          BY <3>1, <5>1
        <5>4. QED
          BY <3>1, <4>1, <5>1, <5>2, <5>3 DEF HoldsRun
      <4>2. CASE d # e
        <5>1. d \in Range(yaml.dumps) /\ d \in Checkpoints(yaml) /\ d \in Checkpoints(proc.mem)
          BY <3>3, <3>5, <3>7, <4>2 DEF Checkpoints
        <5>2. AloneIn(proc.mem.dumps, d)
          BY <3>3, <3>5, <3>7 DEF AloneIn
        <5>3. HoldsRun(d)
          BY <2>2, <3>7, <5>1, <5>2 DEF DumpInv, Recording
        <5>4. d.frame < proc.frame /\ d.frame \in Nat
          BY <3>2, <3>3, <5>1, CheckpointFrames
        <5>5. d.file # e.file
          <6>1. e.file = d.file => e.frame < d.frame
            BY <3>5, <3>7, <4>2 DEF AloneIn
          <6>2. ~(e.frame < d.frame)
            BY <3>1, <3>2, <5>4
          <6>3. QED
            BY <6>1, <6>2
        <5>6. d.file \in DOMAIN bins' /\ bins'[d.file] = bins[d.file]
          BY <3>1, <5>3, <5>5 DEF HoldsRun
        <5>7. QED
          BY <3>1, <5>3, <5>6 DEF HoldsRun
      <4>3. QED
        BY <4>1, <4>2
    <3>8. QED
      BY <2>2, <3>1, <3>3, <3>4, <3>5, <3>7 DEF DumpInv, Recording
  <2>5. QED
    BY <2>3, <2>4
<1>11. CASE \E o \in Scripts : StartScript(o) /\ proc' # proc
  <2>1. proc'.pc = "script"
    BY <1>11, StartScriptDoes
  <2>2. QED
    BY <1>2, <2>1 DEF Recording
<1>12. CASE ScriptFrame
  <2>1. proc'.pc \in {"script", "finish"}
    BY <1>12, ScriptFrameDoes
  <2>2. QED
    BY <1>2, <2>1 DEF Recording
<1>13. QED
  BY <1>1, <1>2, <1>3, <1>4, <1>5, <1>6, <1>7, <1>8, <1>9, <1>10, <1>11, <1>12, StepsOfRun

-----------------------------------------------------------------------------
(* The files of the session: what an entry names is there.                 *)
LEMMA FilesGrow ==
  ASSUME TypeOK, [Next]_vars
  PROVE  DOMAIN bins \subseteq DOMAIN bins' /\ (saved => saved')
<1>1. ASSUME NEW raw, PressF5(raw) PROVE DOMAIN bins \subseteq DOMAIN bins'
  BY <1>1, PressF5Does
<1>2. ASSUME ScriptFrame PROVE DOMAIN bins \subseteq DOMAIN bins'
  BY <1>2, ScriptFrameDoes
<1>3. (\E raw \in Typed : PressF5(raw)) \/ ScriptFrame \/ bins' = bins
  BY DEF Next, vars, files, Unrun, StartInteractive, Replay, OpenLog, SaveStamp, LiveFrame, WriteLine,
     NoHotkey, SaveDump, Quit, StartScript, FinishScript, Search, Kill, KillInLine, PowerCut, Rebuild
<1>4. saved => saved'
  <2>1. ASSUME NEW c, Search(c) PROVE saved => saved'
    BY <2>1 DEF Search, Save
  <2>2. ASSUME NEW pad, LiveFrame(pad) PROVE saved => saved'
    BY <2>2 DEF LiveFrame, Save
  <2>3. SaveStamp \/ SaveDump \/ Quit \/ FinishScript => saved' = TRUE
    BY DEF SaveStamp, SaveDump, Quit, FinishScript, Save
  <2>4. QED
    BY <2>1, <2>2, <2>3 DEF Next, vars, files, Unrun, StartInteractive, Replay, OpenLog, WriteLine,
       NoHotkey, PressF5, StartScript, ScriptFrame, Kill, KillInLine, PowerCut, Rebuild
<1>5. QED
  BY <1>1, <1>2, <1>3, <1>4

\* What the session in the hands of a command is made of.
LEMMA InHand ==
  ASSUME TypeOK, [Next]_vars
  PROVE  \/ proc'.pc = "idle" /\ proc'.mem.logFrames \in {NoCount, proc.mem.logFrames}
         \/ /\ proc'.mem.dumps = proc.mem.dumps /\ proc'.mem.logFrames = proc.mem.logFrames
            /\ proc.pc # "idle"
         \/ proc'.mem.dumps = yaml.dumps /\ proc'.mem.logFrames = yaml.logFrames
         \/ /\ proc.pc = "hotkey"
            /\ \E d : /\ proc'.mem.dumps = Append(proc.mem.dumps, d) /\ d.frame = proc.frame
                      /\ d.file \in DOMAIN bins'
            /\ proc'.mem.logFrames = Count(proc.frame + 1)
         \/ ScriptFrame
<1>0. IsSession(proc.mem) /\ proc.frame + 1 \in Nat /\ IsSession(yaml)
  BY DEF TypeOK, IsCommand
<1>1. CASE UNCHANGED vars
  BY <1>1 DEF vars
<1>2. CASE proc' = Idle
  BY <1>2, IdleTyped DEF NewSession
<1>3. CASE proc' = proc /\ proc.pc = "idle"
  BY <1>3
<1>4. CASE \E o \in InteractiveOpts : StartInteractive(o) /\ proc' # proc
  <2>1. PICK o \in InteractiveOpts : StartInteractive(o) /\ proc' # proc
    BY <1>4
  <2>2. proc'.mem = (IF o.resume THEN yaml ELSE Stamp(yaml, build, o.rom))
    BY <2>1, StartDoes
  <2>3. QED
    BY <1>0, <2>2, Stamped
<1>5. CASE Replay
  <2>1. CASE proc' = Idle
    BY <1>2, <2>1
  <2>2. CASE proc' # Idle
    BY <1>5, <2>2, ReplayDoes
  <2>3. QED
    BY <2>1, <2>2
<1>6. CASE OpenLog \/ WriteLine \/ NoHotkey \/ SaveStamp \/ SaveDump
  <2>1. proc'.mem = proc.mem /\ proc.pc # "idle"
    BY <1>6, LoggedDoes DEF Goes, Recording
  <2>2. QED
    BY <2>1
<1>7. CASE \E pad \in Pads : LiveFrame(pad)
  <2>1. CASE proc' = Idle
    BY <1>2, <2>1
  <2>2. CASE proc' # Idle
    BY <1>7, <2>2, LiveFrameDoes
  <2>3. QED
    BY <2>1, <2>2
<1>8. CASE \E raw \in Typed : PressF5(raw)
  <2>1. PICK raw \in Typed : PressF5(raw)
    BY <1>8
  <2>2. proc.pc = "hotkey"
    BY <2>1, PressF5Does
  <2>3. CASE Goes("live", proc.frame + 1)
    BY <2>2, <2>3 DEF Goes
  <2>4. CASE ~Goes("live", proc.frame + 1)
    <3>1. PICK d : /\ d.frame = proc.frame
                   /\ bins' = [f \in DOMAIN bins \cup {d.file} |->
                                 IF f = d.file THEN Wram(proc.core) ELSE bins[f]]
                   /\ proc'.mem = [AddDump(proc.mem, d) EXCEPT !.logFrames = Count(proc.frame + 1)]
      BY <2>1, <2>4, PressF5Does
    <3>2. PICK s, n : s = proc.mem /\ n = proc.frame + 1
      OBVIOUS
    <3>3. IsSession(s) /\ n \in Nat /\ d.frame \in Nat
      BY <1>0, <3>1, <3>2 DEF TypeOK, IsCommand
    <3>4. PICK t : t = [AddDump(s, d) EXCEPT !.logFrames = Count(n)]
      OBVIOUS
    <3>5. t.dumps = Append(s.dumps, d) /\ t.logFrames = Count(n)
      BY <3>3, <3>4, Dumped
    <3>6. d.file \in DOMAIN bins' /\ proc'.mem = t
      BY <3>1, <3>2, <3>4
    <3>7. QED
      BY <2>2, <3>1, <3>2, <3>5, <3>6
  <2>5. QED
    BY <2>3, <2>4
<1>9. CASE \E o \in Scripts : StartScript(o) /\ proc' # proc
  <2>1. PICK o \in Scripts : StartScript(o) /\ proc' # proc
    BY <1>9
  <2>2. proc'.mem = yaml \/ proc'.mem = Stamp(yaml, build, o.rom)
    BY <2>1, StartScriptDoes
  <2>3. QED
    BY <1>0, <2>2, Stamped
<1>10. QED
  BY <1>1, <1>2, <1>3, <1>4, <1>5, <1>6, <1>7, <1>8, <1>9, StepsOfRun

\* What session.yaml is made of.
LEMMA OnDisk ==
  ASSUME TypeOK, [Next]_vars
  PROVE  \/ yaml'.dumps = yaml.dumps /\ yaml'.logFrames = yaml.logFrames /\ (yaml' = yaml \/ saved')
         \/ /\ proc.pc # "idle" /\ saved' /\ yaml'.dumps = proc.mem.dumps
            /\ yaml'.logFrames \in {proc.mem.logFrames, Count(proc.frame)}
<1>1. IsSession(proc.mem) /\ proc.frame \in Nat /\ IsSession(yaml)
  BY DEF TypeOK, IsCommand
<1>2. ASSUME yaml' = [proc.mem EXCEPT !.logFrames = Count(proc.frame)]
      PROVE  yaml'.dumps = proc.mem.dumps /\ yaml'.logFrames = Count(proc.frame)
  BY <1>1, <1>2, Counted
<1>3. ASSUME NEW c, yaml' = RunSearch(yaml, bins, c)
      PROVE  yaml'.dumps = yaml.dumps /\ yaml'.logFrames = yaml.logFrames
  BY <1>1, <1>3, Searched
<1>4. QED
  BY <1>2, <1>3, YamlChanges

\* A count of frames is only written while the log is open.
LEMMA CountWritten ==
  ASSUME TypeOK, [Next]_vars, yaml' # yaml, yaml'.logFrames # yaml.logFrames
  PROVE  \/ proc.pc = "live"
         \/ proc.pc # "idle" /\ yaml'.logFrames = proc.mem.logFrames
<1>1. IsSession(yaml)
  BY DEF TypeOK
<1>2. ASSUME NEW c, Search(c) PROVE yaml'.logFrames = yaml.logFrames
  <2>1. yaml' = RunSearch(yaml, bins, c) \/ yaml' = yaml
    BY <1>2 DEF Search, Save
  <2>2. QED
    BY <1>1, <2>1, Searched
<1>3. ASSUME NEW pad, LiveFrame(pad) PROVE proc.pc = "live"
  BY <1>3 DEF LiveFrame
<1>4. Quit => proc.pc = "live"
  BY DEF Quit
<1>5. SaveStamp \/ SaveDump \/ FinishScript => proc.pc # "idle" /\ yaml' = proc.mem
  BY DEF SaveStamp, SaveDump, FinishScript, Save
<1>6. QED
  BY <1>2, <1>3, <1>4, <1>5 DEF Next, vars, files, Unrun, StartInteractive, Replay, OpenLog, WriteLine,
     NoHotkey, PressF5, StartScript, ScriptFrame, Kill, KillInLine, PowerCut, Rebuild

LEMMA CleanKept ==
  ASSUME TypeOK, RunInv, FilesInv, [Next]_vars,
         proc'.pc \in {"stamp", "live", "write", "hotkey", "dumped"}
  PROVE  ~clean'
<1>1. CASE OpenLog
  BY <1>1 DEF OpenLog
<1>2. CASE UNCHANGED vars
  BY <1>2 DEF vars, FilesInv
<1>3. CASE proc' = Idle
  BY <1>3, IdleTyped
<1>4. CASE proc' = proc /\ proc.pc = "idle"
  BY <1>4
<1>5. CASE \E o \in InteractiveOpts : StartInteractive(o) /\ proc' # proc
  BY <1>5, StartDoes
<1>6. CASE Replay
  BY <1>6, ReplayDoes, IdleTyped
<1>7. CASE WriteLine \/ NoHotkey \/ SaveStamp \/ SaveDump
  BY <1>7 DEF WriteLine, NoHotkey, SaveStamp, SaveDump, FilesInv
<1>8. CASE \E pad \in Pads : LiveFrame(pad)
  <2>1. CASE proc' = Idle
    BY <1>3, <2>1
  <2>2. CASE proc' # Idle
    BY <1>8, <2>2, LiveFrameDoes DEF FilesInv
  <2>3. QED
    BY <2>1, <2>2
<1>9. CASE \E raw \in Typed : PressF5(raw)
  BY <1>9 DEF PressF5, FilesInv
<1>10. CASE \E o \in Scripts : StartScript(o) /\ proc' # proc
  BY <1>10, StartScriptDoes
<1>11. CASE ScriptFrame
  BY <1>11, ScriptFrameDoes
<1>12. QED
  BY <1>1, <1>2, <1>3, <1>4, <1>5, <1>6, <1>7, <1>8, <1>9, <1>10, <1>11, StepsOfRun

LEMMA FilesKept ==
  ASSUME TypeOK, RunInv, FilesInv, [Next]_vars
  PROVE  FilesInv'
<1>1. DOMAIN bins \subseteq DOMAIN bins' /\ (saved => saved') /\ (log.exists => log'.exists)
  BY FilesGrow, LogStaysThere
<1>2. IsSession(proc.mem) /\ proc.frame \in Nat
  BY DEF TypeOK, IsCommand
<1>3. ASSUME yaml'.logFrames # NoCount PROVE saved' /\ log'.exists
  <2>1. CASE yaml' = yaml
    BY <1>1, <1>3, <2>1 DEF FilesInv
  <2>2. CASE yaml' # yaml
    <3>1. saved'
      BY <1>1, <2>2, OnDisk
    <3>2. CASE yaml'.logFrames = yaml.logFrames
      BY <1>1, <1>3, <3>1, <3>2 DEF FilesInv
    <3>3. CASE yaml'.logFrames # yaml.logFrames
      <4>1. proc.pc = "live" \/ yaml'.logFrames = proc.mem.logFrames
        BY <2>2, <3>3, CountWritten
      <4>2. log.exists
        BY <1>3, <4>1 DEF FilesInv, RunInv
      <4>3. QED
        BY <1>1, <3>1, <4>2
    <3>4. QED
      BY <3>2, <3>3
  <2>3. QED
    BY <2>1, <2>2
<1>4. ASSUME proc'.mem.logFrames # NoCount PROVE log'.exists
  <2>1. CASE ScriptFrame
    BY <1>1, <1>4, <2>1, ScriptFrameDoes DEF FilesInv
  <2>2. CASE proc.pc = "hotkey"
    BY <1>1, <2>2 DEF RunInv
  <2>3. CASE ~ScriptFrame /\ proc.pc # "hotkey"
    <3>1. proc'.mem.logFrames \in {NoCount, proc.mem.logFrames, yaml.logFrames}
      BY <2>3, InHand
    <3>2. QED
      BY <1>1, <1>4, <3>1 DEF FilesInv
  <2>4. QED
    BY <2>1, <2>2, <2>3
<1>5. ASSUME NEW d \in Range(yaml'.dumps) PROVE d.file \in DOMAIN bins'
  BY <1>1, <1>5, OnDisk DEF FilesInv, Filed
<1>6. ASSUME proc'.pc # "idle", NEW d \in Range(proc'.mem.dumps) PROVE d.file \in DOMAIN bins'
  <2>1. CASE ScriptFrame
    <3>1. proc.pc = "script"
      BY <2>1, ScriptFrameDoes
    <3>2. QED
      BY <1>6, <2>1, <3>1, ScriptFrameDoes DEF FilesInv
  <2>2. CASE proc'.mem.dumps = yaml.dumps \/ (proc.pc # "idle" /\ proc'.mem.dumps = proc.mem.dumps)
    BY <1>1, <1>6, <2>2 DEF FilesInv, Filed
  <2>3. CASE ~ScriptFrame /\ ~(proc'.mem.dumps = yaml.dumps
                               \/ (proc.pc # "idle" /\ proc'.mem.dumps = proc.mem.dumps))
    <3>1. PICK e : /\ proc.pc = "hotkey" /\ proc'.mem.dumps = Append(proc.mem.dumps, e)
                   /\ e.frame = proc.frame /\ e.file \in DOMAIN bins'
      BY <1>6, <2>3, InHand
    <3>2. PICK dumps, t : dumps = proc.mem.dumps /\ t = Append(dumps, e)
      OBVIOUS
    <3>3. Listed(dumps) /\ e.frame \in Nat
      BY <1>2, <3>1, <3>2 DEF IsSession
    <3>4. Range(t) = Range(dumps) \cup {e}
      BY <3>2, <3>3, ListedMore
    <3>5. d \in Range(dumps) \/ d = e
      BY <1>6, <3>1, <3>2, <3>4
    <3>6. QED
      BY <1>1, <3>1, <3>2, <3>5 DEF FilesInv, Filed
  <2>4. QED
    BY <2>1, <2>2, <2>3
<1>7. proc'.pc \in {"stamp", "live", "write", "hotkey", "dumped"} => ~clean'
  BY CleanKept
<1>8. QED
  BY <1>3, <1>4, <1>5, <1>6, <1>7 DEF FilesInv, Filed

-----------------------------------------------------------------------------
(* What lint asks beside the log.                                          *)
LEMMA FitsSame ==
  ASSUME NEW s, NEW t, NEW exists, NEW n, FitsLog(s, exists, n),
         t.dumps = s.dumps, t.logFrames = s.logFrames
  PROVE  FitsLog(t, exists, n)
<1>1. Checkpoints(t) = Checkpoints(s)
  BY SameDumps
<1>2. QED
  BY <1>1 DEF FitsLog

LEMMA FitsMore ==
  ASSUME NEW s, IsSession(s), NEW n \in Int, FitsLog(s, TRUE, n)
  PROVE  FitsLog(s, TRUE, n + 1)
<1>1. ASSUME NEW d \in Checkpoints(s) PROVE d.frame < n + 1
  <2>1. d.frame < n /\ d.frame \in Nat
    BY CheckpointFrames DEF FitsLog
  <2>2. QED
    BY <2>1
<1>2. ASSUME s.logFrames # NoCount PROVE s.logFrames[1] <= n + 1
  <2>1. s.logFrames[1] <= n /\ s.logFrames[1] \in Nat
    BY <1>2 DEF FitsLog, IsSession
  <2>2. QED
    BY <2>1
<1>3. FramesIncrease(s.dumps)
  BY DEF FitsLog
<1>4. QED
  BY <1>1, <1>2, <1>3 DEF FitsLog

\* A session without entries fits a new log, if its count, when it has one, is none.
LEMMA FitsNew ==
  ASSUME NEW s, s.dumps = <<>>, s.logFrames = NoCount \/ s.logFrames[1] <= 0
  PROVE  FitsLog(s, TRUE, 0)
<1>1. DOMAIN <<>> = {} /\ Range(<<>>) = {}
  BY EmptySeq DEF Range
<1>2. FramesIncrease(s.dumps) /\ Checkpoints(s) = {}
  BY <1>1 DEF FramesIncrease, Checkpoints
<1>3. QED
  BY <1>2 DEF FitsLog

\* A dump of the frame just written, and the count of the frames so far.
LEMMA FitsDumped ==
  ASSUME NEW s, IsSession(s), NEW f \in Nat, FitsLog(s, TRUE, f + 1),
         \A d \in Checkpoints(s) : d.frame < f,
         NEW e, e.frame = f, NEW t, t.dumps = Append(s.dumps, e), t.logFrames = Count(f + 1)
  PROVE  FitsLog(t, TRUE, f + 1)
<1>1. PICK dumps, more : dumps = s.dumps /\ more = Append(dumps, e)
  OBVIOUS
<1>2. Listed(dumps)
  BY <1>1 DEF IsSession
<1>3. /\ Range(more) = Range(dumps) \cup {e} /\ Len(more) = Len(dumps) + 1
      /\ more[Len(dumps) + 1] = e /\ Len(dumps) \in Nat /\ DOMAIN dumps = 1..Len(dumps)
      /\ \A i \in 1..Len(dumps) : more[i] = dumps[i]
      /\ Listed(more)
  BY <1>1, <1>2, ListedMore
<1>4. DOMAIN more = 1..(Len(dumps) + 1)
  BY <1>3, LenProperties DEF Listed, IsSeq
<1>5. \A i \in 1..Len(dumps) : dumps[i].frame \in Nat
                               /\ (dumps[i].frame > 0 => dumps[i].frame < f)
  <2>1. ASSUME NEW i \in 1..Len(dumps), dumps[i].frame > 0 PROVE dumps[i].frame < f
    <3>1. dumps[i] \in Checkpoints(s)
      BY <1>1, <1>3, <2>1 DEF Checkpoints, Range
    <3>2. QED
      BY <3>1
  <2>2. QED
    BY <1>2, <1>3, <2>1 DEF Listed
<1>6. FramesIncrease(more)
  <2>1. SUFFICES ASSUME NEW i \in DOMAIN more, NEW j \in DOMAIN more, i < j,
                        more[i].frame > 0, more[j].frame > 0
                 PROVE  more[j].frame > more[i].frame
    BY DEF FramesIncrease
  <2>2. i \in 1..Len(dumps) /\ more[i] = dumps[i]
    BY <1>3, <1>4, <2>1
  <2>3. CASE j = Len(dumps) + 1
    <3>1. more[j].frame = f
      BY <1>3, <2>3
    <3>2. more[i].frame < f /\ more[i].frame \in Nat
      BY <1>5, <2>1, <2>2
    <3>3. QED
      BY <3>1, <3>2
  <2>4. CASE j # Len(dumps) + 1
    <3>1. j \in 1..Len(dumps) /\ more[j] = dumps[j]
      BY <1>3, <1>4, <2>4
    <3>2. FramesIncrease(dumps)
      BY <1>1 DEF FitsLog
    <3>3. QED
      BY <1>3, <2>1, <2>2, <3>1, <3>2 DEF FramesIncrease
  <2>5. QED
    BY <2>3, <2>4
<1>7. ASSUME NEW d \in Checkpoints(t) PROVE d.frame < f + 1
  <2>1. d \in Range(more) /\ d.frame > 0
    BY <1>1, <1>7 DEF Checkpoints
  <2>2. CASE d = e
    BY <2>2
  <2>3. CASE d # e
    <3>1. d \in Checkpoints(s)
      BY <1>1, <1>3, <2>1, <2>3 DEF Checkpoints
    <3>2. d.frame < f /\ d.frame \in Nat
      BY <3>1, CheckpointFrames
    <3>3. QED
      BY <3>2
  <2>4. QED
    BY <2>2, <2>3
<1>8. t.logFrames[1] <= f + 1
  BY DEF Count
<1>9. QED
  BY <1>1, <1>6, <1>7, <1>8 DEF FitsLog

\* Nothing that no command did: the step was none of these.
LEMMA Undamaged ==
  ASSUME TypeOK, [Next]_vars, damage' = {}
  PROVE  /\ damage = {} /\ ~KillInLine /\ ~PowerCut /\ ~FinishScript
         /\ log' = log \/ OpenLog \/ WriteLine
<1>1. ~KillInLine /\ ~PowerCut /\ ~FinishScript
  BY DEF KillInLine, PowerCut, FinishScript
<1>2. QED
  BY <1>1, DamageStays, LogChanges

\* What is in a log that no command tore, in the midst of a command.
LEMMA WholeLog ==
  ASSUME LogInv, damage = {}
  PROVE  /\ log.text.tail = <<>> /\ (log.exists => IsLog(log.text.lines))
         /\ log.exists => Len(log.text.lines) \in Nat /\ Len(log.text.lines) >= 1
<1>1. "torn" \notin damage
  OBVIOUS
<1>2. log.text.tail = <<>> /\ (log.exists => IsLog(log.text.lines))
  BY <1>1 DEF LogInv
<1>3. QED
  BY <1>2 DEF IsLog

LEMMA LogLength ==
  ASSUME TypeOK, RunInv, LogInv, damage = {}, proc.pc \in {"live", "hotkey"}
  PROVE  /\ log.exists
         /\ Len(log.text.lines) - 1 = IF proc.pc = "live" THEN proc.frame ELSE proc.frame + 1
<1>1. "torn" \notin damage
  OBVIOUS
<1>2. PICK lines, s : lines = log.text.lines /\ s = proc.core.pads
  OBVIOUS
<1>3. log.exists /\ IsLog(lines) /\ PadsOf(lines) = s
  BY <1>1, <1>2 DEF LogInv
<1>4. Len(s) = Len(lines) - 1
  BY <1>3, PadsOfLog
<1>5. Len(s) = IF proc.pc = "live" THEN proc.frame ELSE proc.frame + 1
  BY <1>2 DEF RunInv
<1>6. QED
  BY <1>2, <1>3, <1>4, <1>5

\* A log without pad lines is its header.
LEMMA OnlyHeader ==
  ASSUME TypeOK, LogInv, damage = {}, log.exists, PadLines = {}
  PROVE  Len(log.text.lines) = 1
<1>1. PICK lines : lines = log.text.lines
  OBVIOUS
<1>2. IsLog(lines) /\ LinesOf(log.text) = lines
  BY <1>1, WholeLog, WholeLines DEF TypeOK
<1>3. SUFFICES ASSUME Len(lines) # 1 PROVE FALSE
  BY <1>1
<1>4. Len(lines) \in Nat /\ 2 \in 2..Len(lines) /\ 2 \in DOMAIN lines
  <2>1. lines \in Seq(LogLines) /\ Len(lines) >= 1
    BY <1>2 DEF IsLog
  <2>2. Len(lines) \in Nat /\ DOMAIN lines = 1..Len(lines) /\ Len(lines) # 1
    BY <1>1, <1>3, <2>1, LenProperties
  <2>3. QED
    BY <2>1, <2>2
<1>5. PICK p \in Pads : lines[2] = Run(1, p)
  BY <1>2, <1>4 DEF IsLog
<1>6. lines[2] # Blank /\ lines[2] # Header("v1", NoRom)
  <2>1. PICK l : l = lines[2]
    OBVIOUS
  <2>2. l[1] = "run"
    BY <1>5, <2>1 DEF Run
  <2>3. Blank[1] = "blank" /\ Header("v1", NoRom)[1] = "header"
    BY DEF Blank, Header
  <2>4. QED
    BY <2>1, <2>2, <2>3
<1>7. lines[2] \in PadLines
  BY <1>2, <1>4, <1>6 DEF PadLines, Range
<1>8. QED
  BY <1>7

\* The session on disk and the one in hand fit the log that is there after the step, when
\* they are the same as before.
LEMMA LogFits ==
  ASSUME TypeOK, RunInv, LogInv, DumpInv, FilesInv, LintInv, [Next]_vars, damage' = {},
         NEW s, IsSession(s), Fits(s),
         OpenLog => s.logFrames = yaml.logFrames \/ s.logFrames = proc.mem.logFrames,
         OpenLog => s.dumps = yaml.dumps
  PROVE  FitsLog(s, log'.exists, Len(log'.text.lines) - 1)
<1>1. damage = {}
  BY Undamaged
<1>2. CASE log' = log
  BY <1>2 DEF Fits
<1>3. CASE WriteLine
  <2>1. proc.pc = "write"
    BY <1>3 DEF WriteLine
  <2>2. log.exists /\ log.text.tail = <<>> /\ LogTyped
    BY <1>1, <2>1, WholeLog DEF RunInv, TypeOK
  <2>3. PICK lines, l, t : lines = log.text.lines /\ l = Run(1, Last(proc.core.pads))
                           /\ t = Append(lines, l)
    OBVIOUS
  <2>4. lines \in Seq(LogLines) /\ l \in LogLines
    BY <2>1, <2>2, <2>3, WrittenPad DEF LogTyped, LogLines
  <2>5. Len(t) = Len(lines) + 1 /\ Len(lines) \in Nat
    BY <2>3, <2>4
  <2>6. log' = [log EXCEPT !.text = AddLine(@, l)]
    BY <1>3, <2>3 DEF WriteLine
  <2>7. AddLine(log.text, l) = [lines |-> t, tail |-> <<>>]
    BY <2>2, <2>3 DEF AddLine
  <2>8. log' = [exists |-> log.exists, text |-> [lines |-> t, tail |-> <<>>]]
    BY <2>2, <2>6, <2>7 DEF LogTyped
  <2>9. log'.exists = TRUE /\ log'.text.lines = t
    BY <2>2, <2>8
  <2>10. PICK n : n = Len(lines) - 1
    OBVIOUS
  <2>11. n \in Int /\ Len(t) - 1 = n + 1
    BY <2>5, <2>10
  <2>12. log.exists = TRUE
    BY <2>2 DEF LogTyped
  <2>13. FitsLog(s, TRUE, n)
    BY <2>3, <2>10, <2>12 DEF Fits
  <2>14. FitsLog(s, TRUE, n + 1)
    BY <2>11, <2>13, FitsMore
  <2>15. QED
    BY <2>9, <2>11, <2>14
<1>4. CASE OpenLog /\ log' # log
  <2>1. proc.pc = "open" /\ ~(proc.opts.resume /\ log.exists)
        /\ log' = [exists |-> TRUE, text |-> AddLine(NoText, Header("v1", NoRom))]
    BY <1>4 DEF OpenLog
  <2>2. PICK h : h = <<Header("v1", NoRom)>>
    OBVIOUS
  <2>3. log' = [exists |-> TRUE, text |-> [lines |-> h, tail |-> <<>>]] /\ Len(h) = 1
    BY <2>1, <2>2, NewLog
  <2>4. log'.exists = TRUE /\ Len(log'.text.lines) - 1 = 0
    BY <2>3
  <2>5. s.dumps = <<>>
    <3>1. CASE ~log.exists
      BY <3>1 DEF Fits, FitsLog
    <3>2. CASE log.exists
      <4>1. proc.mem.dumps = <<>> /\ proc.mem.dumps = yaml.dumps
        BY <1>1, <2>1, <3>2 DEF LintInv, DumpInv, Recording
      <4>2. QED
        BY <1>4, <4>1
    <3>3. QED
      BY <3>1, <3>2
  <2>6. s.logFrames = NoCount \/ s.logFrames[1] <= 0
    <3>1. CASE ~log.exists
      BY <1>4, <3>1 DEF FilesInv
    <3>2. CASE log.exists
      <4>1. Len(log.text.lines) = 1
        BY <1>1, <2>1, <3>2 DEF LintInv
      <4>2. s.logFrames # NoCount => s.logFrames[1] <= 1 - 1
        BY <4>1 DEF Fits, FitsLog
      <4>3. QED
        BY <4>2
    <3>3. QED
      BY <3>1, <3>2
  <2>7. QED
    BY <2>4, <2>5, <2>6, FitsNew
<1>5. QED
  BY <1>2, <1>3, <1>4, Undamaged

\* A command that records was recording, or none was running.
LEMMA StillRecording ==
  ASSUME TypeOK, [Next]_vars, proc'.pc \in Recording
  PROVE  proc.pc = "idle" \/ proc.pc \in Recording
<1>1. {"idle", "script", "finish"} \cap Recording = {}
  BY DEF Recording
<1>2. CASE UNCHANGED vars
  BY <1>2 DEF vars
<1>3. CASE proc' = Idle \/ (proc' = proc /\ proc.pc = "idle")
  BY <1>1, <1>3, IdleTyped
<1>4. CASE \E o \in InteractiveOpts : StartInteractive(o) /\ proc' # proc
  BY <1>4, StartDoes
<1>5. CASE Replay \/ OpenLog \/ WriteLine \/ NoHotkey \/ SaveStamp \/ SaveDump
  BY <1>5, ReplayDoes, LoggedDoes DEF Recording
<1>6. CASE \E pad \in Pads : LiveFrame(pad)
  BY <1>6, LiveFrameDoes DEF Recording
<1>7. CASE \E raw \in Typed : PressF5(raw)
  BY <1>7, PressF5Does DEF Recording
<1>8. CASE \E o \in Scripts : StartScript(o) /\ proc' # proc
  BY <1>1, <1>8, StartScriptDoes
<1>9. CASE ScriptFrame
  BY <1>1, <1>9, ScriptFrameDoes
<1>10. QED
  BY <1>2, <1>3, <1>4, <1>5, <1>6, <1>7, <1>8, <1>9, StepsOfRun

\* The end of a session: the count is the frames of the log.
Ends == proc.pc = "live" /\ yaml' = [proc.mem EXCEPT !.logFrames = Count(proc.frame)] /\ log' = log

LEMMA FitsEnded ==
  ASSUME TypeOK, RunInv, LogInv, LintInv, damage = {}, Ends
  PROVE  /\ FitsLog(yaml', log'.exists, Len(log'.text.lines) - 1)
         /\ yaml'.logFrames = Count(Len(log'.text.lines) - 1)
<1>1. PICK s, n : s = proc.mem /\ n = proc.frame
  OBVIOUS
<1>2. IsSession(s) /\ n \in Nat
  BY <1>1 DEF TypeOK, IsCommand
<1>3. PICK t : t = [s EXCEPT !.logFrames = Count(n)]
  OBVIOUS
<1>4. t.dumps = s.dumps /\ t.logFrames = Count(n) /\ Count(n)[1] = n
  BY <1>2, <1>3, Counted
<1>5. yaml' = t
  BY <1>1, <1>3 DEF Ends
<1>6. log.exists /\ Len(log.text.lines) - 1 = n
  BY <1>1, LogLength DEF Ends
<1>7. FitsLog(s, log.exists, n)
  BY <1>1, <1>6 DEF LintInv, Fits, Ends, Recording
<1>8. Checkpoints(t) = Checkpoints(s)
  BY <1>4, SameDumps
<1>9. t.logFrames[1] <= n
  BY <1>2, <1>4
<1>10. FitsLog(t, log.exists, n)
  BY <1>4, <1>7, <1>8, <1>9 DEF FitsLog
<1>11. QED
  BY <1>4, <1>5, <1>6, <1>10 DEF Ends

\* What the steps of no damage do to session.yaml.
LEMMA DiskSteps ==
  ASSUME TypeOK, [Next]_vars, damage' = {}
  PROVE  \/ /\ yaml'.dumps = yaml.dumps /\ yaml'.logFrames = yaml.logFrames
            /\ OpenLog => ~clean'
            /\ ~OpenLog => (clean' <=> clean)
         \/ Ends
         \/ proc.pc \in {"stamp", "dumped"} /\ yaml' = proc.mem /\ log' = log /\ (clean' <=> clean)
<1>1. IsSession(yaml)
  BY DEF TypeOK
<1>2. CASE \E c \in Searches : Search(c)
  <2>1. PICK c \in Searches : Search(c)
    BY <1>2
  <2>2. clean' = clean /\ (yaml' = RunSearch(yaml, bins, c) \/ yaml' = yaml) /\ proc.pc = "idle"
    BY <2>1 DEF Search, Save
  <2>3. ~OpenLog
    BY <2>2 DEF OpenLog
  <2>4. QED
    BY <1>1, <2>2, <2>3, Searched
<1>3. CASE SaveStamp \/ SaveDump
  BY <1>3 DEF SaveStamp, SaveDump, Save
<1>4. CASE Quit
  BY <1>4 DEF Quit, Save, Ends
<1>5. CASE \E pad \in Pads : LiveFrame(pad)
  <2>1. PICK pad \in Pads : LiveFrame(pad)
    BY <1>5
  <2>2. CASE proc' = Idle
    <3>1. /\ proc.pc = "live"
          /\ \/ yaml' = [proc.mem EXCEPT !.logFrames = Count(proc.frame)]
             \/ proc'.pc = "write"
      BY <2>1, LiveFrameDoes
    <3>2. proc'.pc = "idle" /\ log' = log
      BY <2>1, <2>2, IdleTyped DEF LiveFrame
    <3>3. QED
      BY <3>1, <3>2 DEF Ends
  <2>3. CASE proc' # Idle
    <3>1. yaml' = yaml /\ clean' = clean /\ proc.pc = "live"
      BY <2>1, <2>3, LiveFrameDoes
    <3>2. ~OpenLog
      BY <3>1 DEF OpenLog
    <3>3. QED
      BY <3>1, <3>2
  <2>4. QED
    BY <2>2, <2>3
<1>6. CASE OpenLog
  BY <1>6 DEF OpenLog
<1>7. CASE ~OpenLog /\ yaml' = yaml /\ clean' = clean
  BY <1>7
<1>8. ~FinishScript /\ ~KillInLine /\ ~PowerCut
  BY Undamaged
<1>9. QED
  BY <1>2, <1>3, <1>4, <1>5, <1>6, <1>7, <1>8 DEF Next, vars, files, Unrun, Close, StartInteractive,
     Replay, WriteLine, NoHotkey, PressF5, StartScript, ScriptFrame, Kill, Rebuild

\* A start, and the replay after it, leave the log.
LEMMA FreshStart ==
  ASSUME TypeOK, LogInv, LintInv, [Next]_vars, damage = {},
         proc'.pc \in {"replay", "open"}, ~proc'.opts.resume
  PROVE  proc'.mem.dumps = <<>> /\ (log'.exists => Len(log'.text.lines) = 1)
<1>1. CASE UNCHANGED vars
  BY <1>1 DEF vars, LintInv
<1>2. CASE \E o \in InteractiveOpts : StartInteractive(o) /\ proc' # proc
  <2>1. PICK o \in InteractiveOpts : StartInteractive(o) /\ proc' # proc
    BY <1>2
  <2>2. /\ proc'.opts = o /\ proc'.mem = (IF o.resume THEN yaml ELSE Stamp(yaml, build, o.rom))
        /\ IF o.resume THEN ~LogTooShort(yaml, Len(proc'.prior)) ELSE ~NotFresh(yaml)
    BY <2>1, StartDoes
  <2>3. log' = log
    BY <2>1 DEF StartInteractive, files
  <2>4. yaml.dumps = <<>> /\ ~(log.exists /\ PadLines # {}) /\ proc'.mem = Stamp(yaml, build, o.rom)
    BY <2>2 DEF NotFresh
  <2>5. proc'.mem.dumps = <<>>
    BY <2>4, Stamped DEF TypeOK
  <2>6. log.exists => Len(log.text.lines) = 1
    BY <2>4, OnlyHeader
  <2>7. QED
    BY <2>3, <2>5, <2>6
<1>3. CASE Replay
  <2>1. log' = log
    BY <1>3 DEF Replay, files
  <2>2. proc.pc = "replay" /\ proc'.opts = proc.opts /\ proc'.mem = proc.mem
    BY <1>3, ReplayDoes, IdleTyped
  <2>3. QED
    BY <2>1, <2>2 DEF LintInv
<1>4. CASE proc' = Idle \/ (proc' = proc /\ proc.pc = "idle")
  BY <1>4, IdleTyped
<1>5. CASE OpenLog \/ WriteLine \/ NoHotkey \/ SaveStamp \/ SaveDump
  BY <1>5, LoggedDoes DEF Goes
<1>6. CASE \E pad \in Pads : LiveFrame(pad)
  BY <1>6, LiveFrameDoes, IdleTyped
<1>7. CASE \E raw \in Typed : PressF5(raw)
  BY <1>7, PressF5Does DEF Goes
<1>8. CASE \E o \in Scripts : StartScript(o) /\ proc' # proc
  BY <1>8, StartScriptDoes
<1>9. CASE ScriptFrame
  BY <1>9, ScriptFrameDoes
<1>10. QED
  BY <1>1, <1>2, <1>3, <1>4, <1>5, <1>6, <1>7, <1>8, <1>9, StepsOfRun

LEMMA LintKept ==
  ASSUME TypeOK, RunInv, LogInv, DumpInv, FilesInv, LintInv, [Next]_vars
  PROVE  LintInv'
<1> SUFFICES ASSUME damage' = {}
             PROVE  /\ FitsLog(yaml', log'.exists, Len(log'.text.lines) - 1)
                    /\ proc'.pc \in Recording =>
                         FitsLog(proc'.mem, log'.exists, Len(log'.text.lines) - 1)
                    /\ proc'.pc \in {"replay", "open"} /\ ~proc'.opts.resume =>
                         proc'.mem.dumps = <<>> /\ (log'.exists => Len(log'.text.lines) = 1)
                    /\ clean' /\ yaml'.logFrames # NoCount =>
                         yaml'.logFrames = Count(Len(log'.text.lines) - 1)
  BY DEF LintInv, Fits
<1>1. damage = {} /\ (log' = log \/ OpenLog \/ WriteLine)
  BY Undamaged
<1>2. Fits(yaml) /\ (proc.pc \in Recording => Fits(proc.mem))
  BY <1>1 DEF LintInv
<1>3. IsSession(yaml') /\ IsSession(proc'.mem) /\ IsSession(proc.mem) /\ proc.frame \in Nat
  BY YamlKept, ProcKept DEF IsCommand, TypeOK
<1>4. FitsLog(yaml', log'.exists, Len(log'.text.lines) - 1)
      /\ (clean' /\ yaml'.logFrames # NoCount => yaml'.logFrames = Count(Len(log'.text.lines) - 1))
  <2>1. CASE Ends
    BY <1>1, <2>1, FitsEnded
  <2>2. CASE proc.pc \in {"stamp", "dumped"} /\ yaml' = proc.mem /\ log' = log /\ (clean' <=> clean)
    <3>1. ~clean'
      BY <2>2 DEF FilesInv
    <3>2. Fits(proc.mem)
      BY <1>2, <2>2 DEF Recording
    <3>3. QED
      BY <2>2, <3>1, <3>2 DEF Fits
  <2>3. CASE /\ yaml'.dumps = yaml.dumps /\ yaml'.logFrames = yaml.logFrames
             /\ OpenLog => ~clean'
             /\ ~OpenLog => (clean' <=> clean)
    <3>1. PICK s : s = yaml'
      OBVIOUS
    <3>2. IsSession(s) /\ s.dumps = yaml.dumps /\ s.logFrames = yaml.logFrames
      BY <1>3, <2>3, <3>1
    <3>3. Fits(s)
      BY <1>2, <3>2, FitsSame DEF Fits
    <3>4. FitsLog(s, log'.exists, Len(log'.text.lines) - 1)
      BY <3>2, <3>3, LogFits
    <3>5. ASSUME clean', yaml'.logFrames # NoCount
          PROVE  yaml'.logFrames = Count(Len(log'.text.lines) - 1)
      <4>1. ~OpenLog /\ clean
        BY <2>3, <3>5
      <4>2. ~WriteLine
        BY <4>1 DEF WriteLine, FilesInv
      <4>3. log' = log /\ yaml.logFrames # NoCount /\ yaml.logFrames = yaml'.logFrames
        BY <1>1, <2>3, <3>5, <4>1, <4>2
      <4>4. yaml.logFrames = Count(Len(log.text.lines) - 1)
        BY <1>1, <4>1, <4>3 DEF LintInv
      <4>5. QED
        BY <4>3, <4>4
    <3>6. QED
      BY <3>1, <3>4, <3>5
  <2>4. QED
    BY <2>1, <2>2, <2>3, DiskSteps
<1>5. ASSUME proc'.pc \in Recording
      PROVE  FitsLog(proc'.mem, log'.exists, Len(log'.text.lines) - 1)
  <2>1. "idle" \notin Recording /\ ~ScriptFrame
    BY <1>5, ScriptFrameDoes DEF Recording
  <2>2. PICK t : t = proc'.mem
    OBVIOUS
  <2>3. CASE t.dumps = yaml.dumps /\ t.logFrames = yaml.logFrames
    <3>1. Fits(t)
      BY <1>2, <2>3, FitsSame DEF Fits
    <3>2. QED
      BY <1>3, <2>2, <2>3, <3>1, LogFits
  <2>4. CASE t.dumps = proc.mem.dumps /\ t.logFrames = proc.mem.logFrames /\ proc.pc # "idle"
    <3>1. Fits(proc.mem)
      BY <1>2, <1>5, <2>4, StillRecording
    <3>2. Fits(t)
      BY <2>4, <3>1, FitsSame DEF Fits
    <3>3. OpenLog => t.dumps = yaml.dumps
      BY <2>4 DEF OpenLog, DumpInv, Recording
    <3>4. QED
      BY <1>3, <2>2, <2>4, <3>2, <3>3, LogFits
  <2>5. CASE /\ proc.pc = "hotkey"
             /\ \E d : t.dumps = Append(proc.mem.dumps, d) /\ d.frame = proc.frame
             /\ t.logFrames = Count(proc.frame + 1)
    <3>1. log' = log
      BY <1>1, <2>5 DEF OpenLog, WriteLine
    <3>2. log.exists /\ Len(log.text.lines) - 1 = proc.frame + 1
      BY <1>1, <2>5, LogLength
    <3>3. PICK s, f, e : s = proc.mem /\ f = proc.frame
                         /\ t.dumps = Append(proc.mem.dumps, e) /\ e.frame = proc.frame
      BY <2>5
    <3>4. log.exists = TRUE
      BY <3>2 DEF TypeOK, LogTyped
    <3>5. IsSession(s) /\ f \in Nat /\ e.frame = f
      BY <1>3, <3>3
    <3>6. FitsLog(s, TRUE, f + 1)
      BY <1>2, <2>5, <3>2, <3>3, <3>4 DEF Fits, Recording
    <3>7. \A d \in Checkpoints(s) : d.frame < f
      <4>1. s.dumps = yaml.dumps /\ \A d \in Checkpoints(yaml) : d.frame < f
        BY <2>5, <3>3 DEF DumpInv, Recording
      <4>2. Checkpoints(s) = Checkpoints(yaml)
        BY <4>1, SameDumps
      <4>3. QED
        BY <4>1, <4>2
    <3>8. t.dumps = Append(s.dumps, e) /\ t.logFrames = Count(f + 1)
      BY <2>5, <3>3
    <3>9. FitsLog(t, TRUE, f + 1)
      BY <3>5, <3>6, <3>7, <3>8, FitsDumped
    <3>10. QED
      BY <2>2, <3>1, <3>2, <3>3, <3>4, <3>9
  <2>6. QED
    BY <1>5, <2>1, <2>2, <2>3, <2>4, <2>5, InHand
<1>6. proc'.pc \in {"replay", "open"} /\ ~proc'.opts.resume =>
        proc'.mem.dumps = <<>> /\ (log'.exists => Len(log'.text.lines) = 1)
  BY <1>1, FreshStart
<1>7. QED
  BY <1>4, <1>5, <1>6

-----------------------------------------------------------------------------
LEMMA InitHolds ==
  ASSUME Init
  PROVE  RecInv
<1>1. yaml = NewSession /\ proc = Idle /\ damage = {} /\ narrowed = <<>>
      /\ log = [exists |-> FALSE, text |-> NoText]
  BY DEF Init
<1>2. <<>> \in Seq(LogLines) /\ DOMAIN <<>> = {} /\ Range(<<>>) = {} /\ IsSeq(<<>>)
  BY EmptySeq DEF Range, IsSeq
<1>3. /\ NewSession.dumps = <<>> /\ NewSession.logFrames = NoCount /\ NewSession.offsets = {}
      /\ Idle.pc = "idle" /\ Idle.mem = NewSession /\ "idle" \notin Recording
      /\ NoText.lines = <<>> /\ NoText.tail = <<>>
  BY DEF NewSession, Idle, Recording, NoText
<1>4. TypeOK
  BY <1>1, <1>2, NewSessionTyped, IdleTyped DEF TypeOK, LogTyped, NoText
<1>5. OffsetsInv
  BY <1>1, <1>3 DEF OffsetsInv
<1>6. LogInv /\ RunInv /\ DumpInv
  BY <1>1, <1>3 DEF LogInv, RunInv, DumpInv, Recording
<1>7. FilesInv
  BY <1>1, <1>2, <1>3 DEF FilesInv, Filed
<1>8. LintInv
  <2>1. Checkpoints(NewSession) = {} /\ FramesIncrease(NewSession.dumps)
    BY <1>2, <1>3 DEF Checkpoints, FramesIncrease
  <2>2. Fits(yaml)
    BY <1>1, <1>3, <2>1 DEF Fits, FitsLog
  <2>3. QED
    BY <1>1, <1>3, <2>2 DEF LintInv
<1>9. QED
  BY <1>4, <1>5, <1>6, <1>7, <1>8 DEF RecInv

LEMMA RecKept ==
  ASSUME RecInv, [Next]_vars
  PROVE  RecInv'
<1>1. TypeOK /\ OffsetsInv /\ LogInv /\ RunInv /\ DumpInv /\ FilesInv /\ LintInv
  BY DEF RecInv
<1>2. TypeOK' /\ OffsetsInv' /\ LogInv' /\ RunInv' /\ DumpInv' /\ FilesInv' /\ LintInv'
  BY <1>1, TypeKept, OffsetsKept, LogInvKept, RunKept, DumpKept, FilesKept, LintKept
<1>3. QED
  BY <1>2 DEF RecInv

(* The invariant of a session directory: what its state is made of, where  *)
(* the candidates, the log, the run, the dumps and the files stand to each *)
(* other between any two steps of a command, and after any kill or power   *)
(* cut (record.rs, session.rs).                                            *)
THEOREM RecInvHolds == Spec => []RecInv
<1>1. Init => RecInv
  BY InitHolds
<1>2. RecInv /\ [Next]_vars => RecInv'
  BY RecKept
<1>3. QED
  BY <1>1, <1>2, PTL DEF Spec

(* The text of the log is the input of the run: what parse makes of        *)
(* interactive.padlog while a session is recorded are the pad words the    *)
(* emulator has executed, whatever kills, power cuts and resumes came      *)
(* before (record.rs open_interactive_log and the live loop, lib.rs parse).*)
THEOREM LogIsWhatWasPlayedHolds == Spec => []LogIsWhatWasPlayed
<1>1. ASSUME RecInv PROVE LogIsWhatWasPlayed
  <2>1. SUFFICES ASSUME Live, "torn" \notin damage
                 PROVE  /\ Parse(LinesOf(log.text)).error = "ok"
                        /\ Parse(LinesOf(log.text)).frames =
                             IF proc.pc = "write" THEN Front(proc.core.pads) ELSE proc.core.pads
                        /\ proc.pc = "live" => proc.frame = Len(proc.core.pads)
    BY DEF LogIsWhatWasPlayed
  <2>2. LogInv /\ RunInv /\ LogTyped
    BY <1>1 DEF RecInv, TypeOK
  <2>3. proc.pc \in {"live", "write", "hotkey", "dumped"}
    BY <2>1 DEF Live
  <2>4. PICK lines, text : lines = log.text.lines /\ text = log.text
    OBVIOUS
  <2>5. /\ log.text.tail = <<>> /\ IsLog(lines)
        /\ PadsOf(lines) = IF proc.pc = "write" THEN Front(proc.core.pads) ELSE proc.core.pads
    BY <2>1, <2>2, <2>3, <2>4 DEF LogInv
  <2>6. LinesOf(log.text) = lines
    BY <2>2, <2>4, <2>5, WholeLines
  <2>7. Parse(lines) = [header |-> TRUE, rom |-> NoRom, frames |-> PadsOf(lines), error |-> "ok"]
    BY <2>5, ParsedLog
  <2>8. proc.pc = "live" => proc.frame = Len(proc.core.pads)
    BY <2>2 DEF RunInv
  <2>9. QED
    BY <2>5, <2>6, <2>7, <2>8
<1>2. RecInv => LogIsWhatWasPlayed
  BY <1>1
<1>3. QED
  BY <1>2, RecInvHolds, PTL

(* A session that was not resumed with --skip-replay-verify is one run:    *)
(* every dump of session.yaml that a resume can tell from the others holds *)
(* the WRAM this run had after its frame, so a search compares states of   *)
(* the game that was played (record.rs replay_prior_log, the F5 dump and   *)
(* its entry).                                                             *)
THEOREM DumpsReplayHolds == Spec => []DumpsReplay
<1>1. ASSUME RecInv PROVE DumpsReplay
  <2>1. SUFFICES ASSUME proc.pc = "live", ~proc.opts.skip,
                        NEW d \in Range(yaml.dumps), d.frame > 0, Alone(d)
                 PROVE  /\ d.frame < Len(proc.core.pads)
                        /\ d.file \in DOMAIN bins
                        /\ bins[d.file] = Wram(After(proc.core, d.frame + 1))
    BY DEF DumpsReplay
  <2>2. DumpInv /\ RunInv
    BY <1>1 DEF RecInv
  <2>3. proc.mem.dumps = yaml.dumps /\ d \in Checkpoints(yaml) /\ d \in Checkpoints(proc.mem)
    BY <2>1, <2>2 DEF DumpInv, Recording, Checkpoints
  <2>4. AloneIn(proc.mem.dumps, d)
    BY <2>1, <2>3 DEF Alone, AloneIn
  <2>5. HoldsRun(d)
    BY <2>1, <2>2, <2>3, <2>4 DEF DumpInv, Recording
  <2>6. d.frame < proc.frame /\ proc.frame = Len(proc.core.pads)
    BY <2>1, <2>2, <2>3 DEF DumpInv, RunInv, Recording
  <2>7. QED
    BY <2>5, <2>6 DEF HoldsRun
<1>2. RecInv => DumpsReplay
  BY <1>1
<1>3. QED
  BY <1>2, RecInvHolds, PTL

LEMMA FailingLog ==
  ASSUME NEW a, NEW b, NEW c, ~a, ~b, ~c
  PROVE  Failing([C2 |-> a, C3 |-> b, C4 |-> c]) = {}
  BY DEF Failing

LEMMA FailingDumps ==
  ASSUME NEW a, NEW b, NEW c, NEW d, ~a, ~c
  PROVE  Failing([C5 |-> a, C6 |-> b, C7 |-> c, C13 |-> d]) \subseteq {"C6", "C13"}
  BY DEF Failing

(* What the recorder writes, lint accepts: as long as the directory was    *)
(* used by the interactive recorder alone, a session saved once fails no   *)
(* check of its files, its log, its count or its frames, in the middle of  *)
(* a session, after a kill, and as a final one (lint.rs lint_session).     *)
THEOREM LintFailsOnlyOnChoicesHolds == Spec => []LintFailsOnlyOnChoices
<1>1. ASSUME RecInv PROVE LintFailsOnlyOnChoices
  <2> SUFFICES ASSUME damage = {}, yaml.logFrames # NoCount,
                      NEW final, final = (proc.pc = "idle" /\ clean)
               PROVE  LintOf(final) \subseteq {"C6", "C8", "C9", "C10", "C11", "C13"}
    BY DEF LintFailsOnlyOnChoices
  <2>1. TypeOK /\ LogInv /\ FilesInv /\ LintInv
    BY <1>1 DEF RecInv
  <2>2. saved /\ log.exists /\ Filed(yaml)
    BY <2>1 DEF FilesInv
  <2>3. PICK lines : lines = log.text.lines
    OBVIOUS
  <2>4. IsLog(lines) /\ LinesOf(log.text) = lines /\ lines \in Seq(LogLines)
    BY <2>1, <2>2, <2>3, WholeLog, WholeLines DEF TypeOK, LogTyped
  <2>5. PICK pads, n : pads = PadsOf(lines) /\ n = Len(lines) - 1
    OBVIOUS
  <2>6. Len(pads) = n /\ n \in Nat
    <3>1. pads \in Seq(Pads) /\ Len(pads) = Len(lines) - 1
      BY <2>4, <2>5, PadsOfLog
    <3>2. QED
      BY <2>5, <3>1
  <2>7. Parse(lines) = [header |-> TRUE, rom |-> NoRom, frames |-> pads, error |-> "ok"]
    BY <2>4, <2>5, ParsedLog
  <2>8. PICK facts : facts = Facts(log.exists, log.text)
    OBVIOUS
  <2>9. facts.headed /\ facts.counted /\ facts.frames = n
    <3>1. PICK headed : headed = (log.exists /\ \E i \in DOMAIN lines :
                                    /\ lines[i] = Header("v1", NoRom)
                                    /\ \A j \in 1..(i - 1) : lines[j] = Blank)
      OBVIOUS
    <3>2. headed
      <4>1. 1 \in DOMAIN lines /\ 1..(1 - 1) = {} /\ lines[1] = Header("v1", NoRom)
        BY <2>4 DEF IsLog
      <4>2. QED
        BY <2>2, <3>1, <4>1
    <3>3. PadlogFrameCount(log.text).error = "ok" /\ PadlogFrameCount(log.text).frames = pads
      BY <2>3, <2>7 DEF PadlogFrameCount
    <3>4. facts = [exists |-> log.exists, headed |-> headed,
                   counted |-> headed /\ PadlogFrameCount(log.text).error = "ok",
                   frames |-> Len(PadlogFrameCount(log.text).frames)]
      BY <2>4, <2>8, <3>1 DEF Facts
    <3>5. QED
      BY <2>6, <3>2, <3>3, <3>4
  <2>10. Fits(yaml) /\ (final => yaml.logFrames = Count(n))
    BY <2>1, <2>3, <2>5 DEF LintInv
  <2>11. Failing(LogChecks(yaml, facts, final)) = {}
    <3>1. PICK a, b, c :
            /\ a = ~facts.headed /\ b = (facts.headed /\ ~facts.counted)
            /\ c = (\/ yaml.logFrames = NoCount
                    \/ ~facts.counted
                    \/ final /\ yaml.logFrames # Count(facts.frames)
                    \/ ~final /\ yaml.logFrames[1] > facts.frames)
      OBVIOUS
    <3>2. LogChecks(yaml, facts, final) = [C2 |-> a, C3 |-> b, C4 |-> c]
      BY <3>1 DEF LogChecks
    <3>3. yaml.logFrames[1] \in Nat /\ yaml.logFrames[1] <= n
      BY <2>1, <2>3, <2>5, <2>10 DEF Fits, FitsLog, TypeOK, IsSession
    <3>4. ~(yaml.logFrames[1] > facts.frames)
      BY <2>6, <2>9, <3>3
    <3>5. ~(final /\ yaml.logFrames # Count(facts.frames))
      BY <2>9, <2>10
    <3>6. ~a /\ ~b /\ ~c
      BY <2>9, <3>1, <3>4, <3>5
    <3>7. QED
      BY <3>2, <3>6, FailingLog
  <2>12. Failing(DumpChecks(yaml, facts, bins)) \subseteq {"C6", "C13"}
    <3>1. PICK a, b, c, d :
            /\ a = (\E e \in Range(yaml.dumps) : e.file \notin DOMAIN bins)
            /\ b = (\/ ~IsInjective([i \in DOMAIN yaml.dumps |-> yaml.dumps[i].file])
                    \/ \E e \in Range(yaml.dumps) : ~LabelMatches(e.label) \/ e.label # e.file)
            /\ c = (\/ ~FramesIncrease(yaml.dumps)
                    \/ facts.counted /\ \E e \in Checkpoints(yaml) : e.frame >= facts.frames)
            /\ d = (\E e \in Range(yaml.dumps) : e.frame = 0)
      OBVIOUS
    <3>2. DumpChecks(yaml, facts, bins) = [C5 |-> a, C6 |-> b, C7 |-> c, C13 |-> d]
      BY <3>1 DEF DumpChecks
    <3>3. ~a
      BY <2>2, <3>1 DEF Filed
    <3>4. ASSUME NEW e \in Checkpoints(yaml) PROVE ~(e.frame >= facts.frames)
      <4>1. e.frame \in Nat /\ e.frame < n
        BY <2>1, <2>3, <2>5, <2>10, CheckpointFrames DEF Fits, FitsLog, TypeOK
      <4>2. QED
        BY <2>6, <2>9, <4>1
    <3>5. ~c
      BY <2>10, <3>1, <3>4 DEF Fits, FitsLog
    <3>6. QED
      BY <3>2, <3>3, <3>5, FailingDumps
  <2>13. Failing(PlanChecks(yaml, final, {})) \subseteq {"C8", "C9", "C10"}
         /\ Failing(StampCheck(yaml, build)) \subseteq {"C11"}
         /\ Failing([C12 |-> FALSE]) = {}
    BY DEF Failing, PlanChecks, StampCheck
  <2>14. LintOf(final) = Failing(LogChecks(yaml, facts, final)) \cup Failing(DumpChecks(yaml, facts, bins))
                           \cup Failing(PlanChecks(yaml, final, {})) \cup Failing(StampCheck(yaml, build))
                           \cup Failing([C12 |-> FALSE])
    BY <2>2, <2>8 DEF LintOf, FailedChecks
  <2>15. QED
    BY <2>11, <2>12, <2>13, <2>14
<1>2. RecInv => LintFailsOnlyOnChoices
  BY <1>1
<1>3. QED
  BY <1>2, RecInvHolds, PTL

(* The candidates are the answers: the offsets on disk are those of the    *)
(* search width that satisfy every clause given since the set was last     *)
(* full, judged on the dumps as they were when the clause was given        *)
(* (filter.rs, main.rs cmd_search, session.rs).                            *)
THEOREM CandidatesAreTheAnswersHolds == Spec => []CandidatesAreTheAnswers
<1>1. RecInv => CandidatesAreTheAnswers
  BY DEF RecInv, OffsetsInv, CandidatesAreTheAnswers, Answers
<1>2. QED
  BY <1>1, RecInvHolds, PTL
=============================================================================

----------------------------- MODULE RamSession -----------------------------
(***************************************************************************)
(* A ramdiff session (session.rs): what session.yaml holds, the dump files *)
(* and the pad log beside it, and the search over candidate offsets        *)
(* (filter.rs, main.rs cmd_search).  A dump is a function from the offsets *)
(* of WRAM to bytes.  A label is a sequence of characters; a file is named *)
(* by what the sanitizer leaves of the label.                              *)
(***************************************************************************)
EXTENDS Naturals, Sequences, FiniteSets, SequencesExt, FiniteSetsExt, Functions

CONSTANTS WramSize,     \* bytes of WRAM: session.rs WRAM_SIZE
          KeptChars,    \* the characters of [A-Za-z0-9_-] that labels use
          MaxFrames,    \* lib.rs MAX_FRAMES: the frames a parsed log may hold
          PadMask       \* lib.rs PAD_MASK: the largest word without a reserved bit

Absent == "absent"      \* a stamp the YAML does not have
NoCount == <<>>         \* log_frames absent; Count(n) when it is n
Count(n) == <<n>>

ByteSize(width) == IF width = "u16le" THEN 2 ELSE 1

ReadValue(width, wram, offset) ==
  IF width = "u8" THEN wram[offset] ELSE wram[offset] + 256 * wram[offset + 1]

FullOffsets(width) ==
  {o \in 0..(WramSize - 1) : /\ o % ByteSize(width) = 0
                             /\ o + ByteSize(width) <= WramSize}

NewSession == [dumps |-> <<>>, logFrames |-> NoCount, emu |-> Absent,
               rom |-> Absent, width |-> "u8", offsets |-> {}]

Stamp(session, emu, rom) == [session EXCEPT !.emu = emu, !.rom = rom]

SafeName(label) ==
  [i \in DOMAIN label |-> IF label[i] \in KeptChars THEN label[i] ELSE "_"]

Dump(label, frame) == [label |-> label, frame |-> frame, file |-> SafeName(label)]
AddDump(session, dump) == [session EXCEPT !.dumps = Append(@, dump)]

(* The first entry of a label; the file of the entry, if it can be read.   *)
HasLabel(session, label) == \E i \in DOMAIN session.dumps : session.dumps[i].label = label
DumpByLabel(session, label) ==
  session.dumps[Min({i \in DOMAIN session.dumps : session.dumps[i].label = label})]
Readable(session, bins, label) ==
  HasLabel(session, label) /\ DumpByLabel(session, label).file \in DOMAIN bins
LoadDumpBytes(session, bins, label) == bins[DumpByLabel(session, label).file]

-----------------------------------------------------------------------------
(* The clauses of a search, as cmd_search collects them.                   *)
SetWidth(width) == [op |-> "width", width |-> width, labels |-> <<>>, n |-> 0]
Compare(op, a, b) == [op |-> op, labels |-> <<a, b>>, n |-> 0]
ValueIn(n, a) == [op |-> "value", labels |-> <<a>>, n |-> n]
Delta(n, a, b) == [op |-> "delta", labels |-> <<a, b>>, n |-> n]

Holds(op, n, v) ==
  CASE op = "changed"   -> v[1] # v[2]
    [] op = "unchanged" -> v[1] = v[2]
    [] op = "inc"       -> v[2] > v[1]
    [] op = "dec"       -> v[2] < v[1]
    [] op = "value"     -> v[1] = n
    [] op = "delta"     -> v[2] - v[1] = n \/ v[1] - v[2] = n
    [] op = "width"     -> TRUE

Keep(clause, width, dumps, offset) ==
  Holds(clause.op, clause.n,
        [i \in DOMAIN dumps |-> ReadValue(width, dumps[i], offset)])

SearchWidth(session, clauses) ==
  LET widths == SelectSeq(clauses, LAMBDA c : c.op = "width")
  IN  IF widths = <<>> THEN session.width ELSE Last(widths).width

(* Whether a search starts again from every offset.                        *)
Restarts(session, clauses) ==
  session.offsets = {} \/ session.width # SearchWidth(session, clauses)

SearchReads(session, bins, clauses) ==
  \A i \in DOMAIN clauses : \A j \in DOMAIN clauses[i].labels :
     Readable(session, bins, clauses[i].labels[j])

DumpsOf(session, bins, clause) ==
  [j \in DOMAIN clause.labels |-> LoadDumpBytes(session, bins, clause.labels[j])]

\* What the clauses leave of the offsets they start from.
Narrowed(start, width, session, bins, clauses) ==
  LET left[i \in 0..Len(clauses)] ==
        IF i = 0 THEN start
        ELSE {o \in left[i - 1] :
                Keep(clauses[i], width, DumpsOf(session, bins, clauses[i]), o)}
  IN  left[Len(clauses)]

\* Mutant: every search starts from the full set.
RunSearchAfresh(session, bins, clauses) ==
  LET width == SearchWidth(session, clauses)
  IN  [session EXCEPT !.width = width,
                      !.offsets = Narrowed(FullOffsets(width), width, session, bins, clauses)]

RunSearch(session, bins, clauses) ==
  LET width == SearchWidth(session, clauses)
      start == IF Restarts(session, clauses) THEN FullOffsets(width)
                                             ELSE session.offsets
  IN  [session EXCEPT !.width = width,
                      !.offsets = Narrowed(start, width, session, bins, clauses)]

-----------------------------------------------------------------------------
(* The pad log of a session (refwork-script): a text of lines, one pad     *)
(* word per frame, with run lengths.  A line is what parse makes of it:    *)
(* nothing (blank, or only a comment), a header, a run of frames, or text  *)
(* that is none of these.  A text also has a tail: the piece of a last     *)
(* line that has no newline yet.                                           *)

Blank == <<"blank">>
Junk == <<"junk">>
Header(version, rom) == <<"header", version, rom>>
Run(count, word) == <<"run", count, word>>

NoRom == "none"        \* a header without rom=
BadRom == "bad"        \* a rom= that is not 64 hex characters

NoText == [lines |-> <<>>, tail |-> <<>>]
LinesOf(text) == text.lines \o text.tail

(* What one more whole line does to a text: after an unfinished line the   *)
(* two are one line, and no line of the format.                            *)
AddLine(text, line) ==
  [lines |-> Append(text.lines, IF text.tail = <<>> THEN line ELSE Junk),
   tail |-> <<>>]

-----------------------------------------------------------------------------
ParseHeader(line) ==
  IF line[1] # "header" THEN "BadHeader"
  ELSE IF line[2] # "v1" THEN "UnsupportedVersion"
  ELSE IF line[3] = BadRom THEN "BadRomHash"
  ELSE "ok"

ParseFrameLine(line, sofar) ==
  IF line[1] # "run" THEN "BadFrameLine"
  ELSE IF line[2] = 0 THEN "ZeroRun"
  ELSE IF line[3] > PadMask THEN "ReservedBitsSet"
  ELSE IF Len(sofar) + line[2] > MaxFrames THEN "TooManyFrames"
  ELSE "ok"

ParseLine(log, line) ==
  IF log.error # "ok" \/ line = Blank THEN log
  ELSE IF ~log.header
  THEN [log EXCEPT !.header = TRUE, !.error = ParseHeader(line),
                   !.rom = IF line[1] = "header" THEN line[3] ELSE @]
  ELSE LET error == ParseFrameLine(line, log.frames)
       IN  [log EXCEPT !.error = error,
                       !.frames = IF error = "ok"
                                  THEN @ \o [i \in 1..line[2] |-> line[3]]
                                  ELSE @]

Parse(lines) ==
  LET start == [header |-> FALSE, rom |-> NoRom, frames |-> <<>>, error |-> "ok"]
      after[i \in 0..Len(lines)] ==
        IF i = 0 THEN start ELSE ParseLine(after[i - 1], lines[i])
      log == after[Len(lines)]
  IN  IF log.error = "ok" /\ ~log.header THEN [log EXCEPT !.error = "BadHeader"]
                                         ELSE log

(* The canonical text: one line per maximal run of equal words.            *)
Write(rom, frames) ==
  LET starts == {i \in DOMAIN frames : i = 1 \/ frames[i] # frames[i - 1]}
      after(i) == Min({j \in starts : j > i} \cup {Len(frames) + 1})
      runs == SetToSortSeq(starts, <)
  IN  <<Header("v1", rom)>>
        \o [k \in DOMAIN runs |-> Run(after(runs[k]) - runs[k], frames[runs[k]])]

(* The pad word of a frame: the last word is held past the end.            *)
GetPad(frames, frame) ==
  IF frames = <<>> THEN 0
  ELSE frames[Min({frame + 1, Len(frames)})]
=============================================================================

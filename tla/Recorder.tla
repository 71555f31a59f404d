------------------------------ MODULE Recorder ------------------------------
(***************************************************************************)
(* ramdiff over one session directory: the interactive recorder with its   *)
(* fresh start and its --resume, the scripted recorder, and the searches   *)
(* between them (record.rs, session.rs, filter.rs).  One command runs at a *)
(* time; it may be killed between any two steps, inside a line it writes,  *)
(* or with the end of the log lost, and the build may change between two   *)
(* commands.  The emulator is what record.rs relies on: WRAM and the fault *)
(* are functions of the build, the ROM and the pad words run so far.       *)
(***************************************************************************)
EXTENDS Lint

CONSTANTS Builds, Roms,       \* EMU_VERSION strings; ROM identities
          Wram(_), Faults(_), \* of a history: WRAM after it, and whether it faults
          Pads,               \* pad words the player's devices give
          Typed,              \* lines typed at the F5 prompt, character by character
          FinalChars,         \* characters that end a CSI sequence
          Scripts,            \* option records of a scripted run
          Searches,           \* clause sequences of a search
          MaxLog,             \* bound: lines of the interactive log; no more than a
                              \* header and the frames that parse takes
          MaxScript,          \* bound: frames of one scripted run
          MaxCommands         \* bound: commands started

ASSUME RecorderAssumption ==
  /\ MaxFrames \in Nat /\ PadMask \in Nat /\ Pads \subseteq 0..PadMask
  /\ MaxLog \in Nat /\ MaxLog <= MaxFrames + 1
  /\ \A s \in Searches : s \in Seq(Range(s))

VARIABLES build,      \* the build on disk now
          log,        \* interactive.padlog: whether it exists, and its text
          yaml,       \* session.yaml
          saved,      \* whether session.yaml exists
          bins,       \* the dump files
          proc,       \* the running command
          started,    \* commands started so far
          damage,     \* what happened to the files that no command did
          clean,      \* whether the last log opened was closed by its recorder
          narrowed    \* the clauses applied since the candidates were last full

vars == <<build, log, yaml, saved, bins, proc, started, damage, clean, narrowed>>
files == <<log, yaml, saved, bins>>

History(b, rom) == [build |-> b, rom |-> rom, pads |-> <<>>]
Idle == [pc |-> "idle", opts |-> <<>>, mem |-> NewSession, prior |-> <<>>,
         core |-> <<>>, frame |-> 0]

Init ==
  /\ build \in Builds
  /\ log = [exists |-> FALSE, text |-> NoText]
  /\ yaml = NewSession /\ saved = FALSE
  /\ bins = [f \in {} |-> <<>>]
  /\ proc = Idle
  /\ started = 0 /\ damage = {} /\ clean = FALSE
  /\ narrowed = <<>>

Save(session) == yaml' = session /\ saved' = TRUE

WriteDump(label, wram) ==
  [f \in DOMAIN bins \cup {SafeName(label)} |->
     IF f = SafeName(label) THEN wram ELSE bins[f]]

Close(well) == proc' = Idle /\ clean' = well
Unrun == UNCHANGED <<build, started, damage, narrowed>>

-----------------------------------------------------------------------------
(* record.rs clean_label: leading escape sequences, control characters and *)
(* surrounding blanks go.                                                   *)
Control == {"ESC", "NL"}

CleanLabel(raw) ==
  LET n == Len(raw)
      csiEnd(i) == {j \in (i + 2)..n : raw[j] \in FinalChars}
      skip[i \in 1..(n + 1)] ==
        IF i > n \/ raw[Min({i, n})] # "ESC" THEN i
        ELSE IF i < n /\ raw[Min({i + 1, n})] = "["
        THEN skip[IF csiEnd(i) = {} THEN n + 1 ELSE Min(csiEnd(i)) + 1]
        ELSE IF i < n /\ raw[Min({i + 1, n})] = "O" THEN skip[Min({i + 3, n + 1})]
        ELSE skip[i + 1]
      kept == SelectSeq(SubSeq(raw, skip[1], n), LAMBDA c : c \notin Control)
      solid == {i \in DOMAIN kept : kept[i] # " "}
  IN  IF solid = {} THEN <<>> ELSE SubSeq(kept, Min(solid), Max(solid))

(* record.rs check_epoch: whether the stamps refuse this build or ROM.     *)
EpochRefuses(session, b, rom, downgrade) ==
  /\ ~downgrade
  /\ \/ session.rom \notin {Absent, rom}
     \/ session.emu \notin {Absent, b}

-----------------------------------------------------------------------------
(* The interactive recorder: its guards, before anything is opened.        *)
PriorLog(opts) ==
  IF opts.resume /\ log.exists THEN Parse(LinesOf(log.text))
                               ELSE Parse(<<Header("v1", NoRom)>>)

(* record.rs check_resume_integrity.                                       *)
LogTooShort(session, frames) ==
  IF ~log.exists
  THEN \/ Checkpoints(session) # {}
       \/ session.logFrames \notin {NoCount, Count(0)}
  ELSE \/ session.logFrames # NoCount /\ frames < session.logFrames[1]
       \/ \E d \in Checkpoints(session) : d.frame >= frames

(* record.rs count_pad_lines and ensure_fresh_session.                     *)
PadLines == {l \in Range(LinesOf(log.text)) : l # Blank /\ l # Header("v1", NoRom)}
NotFresh(session) == (log.exists /\ PadLines # {}) \/ session.dumps # <<>>

StartInteractive(opts) ==
  LET prior == PriorLog(opts)
      refused == \/ prior.error # "ok"
                 \/ IF opts.resume
                    THEN \/ LogTooShort(yaml, Len(prior.frames))
                         \/ EpochRefuses(yaml, build, opts.rom, opts.skip)
                    ELSE NotFresh(yaml)
  IN  /\ proc.pc = "idle" /\ started < MaxCommands
      /\ started' = started + 1
      /\ proc' = IF refused THEN proc ELSE
                   [pc |-> "replay", opts |-> opts, prior |-> prior.frames,
                    mem |-> IF opts.resume THEN yaml ELSE Stamp(yaml, build, opts.rom),
                    core |-> History(build, opts.rom), frame |-> 0]
      /\ UNCHANGED <<files, build, damage, clean, narrowed>>

(* The dumps a replay is compared with: of each file the entry with the    *)
(* latest frame, and of each frame one entry, the last in file order.      *)
ByFile(session) ==
  {d \in Checkpoints(session) :
     \A e \in Checkpoints(session) : e.file = d.file => e.frame <= d.frame}

After(core, n) == [core EXCEPT !.pads = SubSeq(@, 1, n)]

\* Mutant: only the sizes are compared.
VerifyCheckpointSize(expected, actual) == DOMAIN expected = DOMAIN actual

VerifyCheckpoint(expected, actual) == expected = actual

ReplayRefuses(p) ==
  LET whole == [p.core EXCEPT !.pads = p.prior]
      frames == {d.frame : d \in ByFile(p.mem)}
      chosen(f) == CHOOSE d \in ByFile(p.mem) : d.frame = f
  IN  \/ \E n \in 1..Len(p.prior) : Faults(After(whole, n))
      \/ \E f \in frames :
           \/ chosen(f).file \notin DOMAIN bins
           \/ ~p.opts.skip
              /\ ~VerifyCheckpoint(bins[chosen(f).file], Wram(After(whole, f + 1)))

Replay ==
  /\ proc.pc = "replay"
  /\ proc' = IF proc.prior # <<>> /\ ReplayRefuses(proc) THEN Idle
             ELSE [proc EXCEPT !.pc = "open", !.core.pads = proc.prior,
                               !.frame = Len(proc.prior)]
  /\ UNCHANGED <<files, clean>> /\ Unrun

(* record.rs open_interactive_log: append to a log that exists on resume,  *)
(* otherwise truncate it and write the header.                             *)
\* Mutant: a log that exists is started again.
OpenLogAnew ==
  /\ proc.pc = "open"
  /\ log' = [exists |-> TRUE, text |-> AddLine(NoText, Header("v1", NoRom))]
  /\ proc' = [proc EXCEPT !.pc = IF proc.opts.resume THEN "live" ELSE "stamp"]
  /\ clean' = FALSE
  /\ UNCHANGED <<yaml, saved, bins>> /\ Unrun

OpenLog ==
  /\ proc.pc = "open"
  /\ log' = IF proc.opts.resume /\ log.exists THEN log
            ELSE [exists |-> TRUE, text |-> AddLine(NoText, Header("v1", NoRom))]
  /\ proc' = [proc EXCEPT !.pc = IF proc.opts.resume THEN "live" ELSE "stamp"]
  /\ clean' = FALSE
  /\ UNCHANGED <<yaml, saved, bins>> /\ Unrun

SaveStamp ==
  /\ proc.pc = "stamp"
  /\ Save(proc.mem)
  /\ proc' = [proc EXCEPT !.pc = "live"]
  /\ UNCHANGED <<log, bins, clean>> /\ Unrun

-----------------------------------------------------------------------------
(* One turn of the live loop.                                              *)
LiveFrame(pad) ==
  LET core == [proc.core EXCEPT !.pads = Append(@, pad)]
  IN  /\ proc.pc = "live" /\ Len(log.text.lines) < MaxLog
      /\ IF Faults(core)
         THEN /\ Save([proc.mem EXCEPT !.logFrames = Count(proc.frame)])
              /\ Close(TRUE)
         ELSE /\ proc' = [proc EXCEPT !.pc = "write", !.core = core]
              /\ UNCHANGED <<yaml, saved, clean>>
      /\ UNCHANGED <<log, bins>> /\ Unrun

WriteLine ==
  /\ proc.pc = "write"
  /\ log' = [log EXCEPT !.text = AddLine(@, Run(1, Last(proc.core.pads)))]
  /\ proc' = [proc EXCEPT !.pc = "hotkey"]
  /\ UNCHANGED <<yaml, saved, bins, clean>> /\ Unrun

NoHotkey ==
  /\ proc.pc = "hotkey"
  /\ proc' = [proc EXCEPT !.pc = "live", !.frame = @ + 1]
  /\ UNCHANGED <<files, clean>> /\ Unrun

PressF5(raw) ==
  LET label == CleanLabel(raw)
  IN  /\ proc.pc = "hotkey"
      /\ IF label = <<>>
         THEN /\ proc' = [proc EXCEPT !.pc = "live", !.frame = @ + 1]
              /\ UNCHANGED bins
         ELSE /\ bins' = WriteDump(label, Wram(proc.core))
              /\ proc' = [proc EXCEPT
                            !.pc = "dumped",
                            !.mem = [AddDump(@, Dump(label, proc.frame))
                                       EXCEPT !.logFrames = Count(proc.frame + 1)]]
      /\ UNCHANGED <<log, yaml, saved, clean>> /\ Unrun

SaveDump ==
  /\ proc.pc = "dumped"
  /\ Save(proc.mem)
  /\ proc' = [proc EXCEPT !.pc = "live", !.frame = @ + 1]
  /\ UNCHANGED <<log, bins, clean>> /\ Unrun

\* Mutant: the frame count of the last dump is kept.
QuitKeepsCount ==
  /\ proc.pc = "live"
  /\ Save(proc.mem)
  /\ Close(TRUE)
  /\ UNCHANGED <<log, bins>> /\ Unrun

Quit ==
  /\ proc.pc = "live"
  /\ Save([proc.mem EXCEPT !.logFrames = Count(proc.frame)])
  /\ Close(TRUE)
  /\ UNCHANGED <<log, bins>> /\ Unrun

-----------------------------------------------------------------------------
(* The scripted recorder (run_record): its dumps go to disk frame by       *)
(* frame, session.yaml once at the end.                                    *)
StartScript(opts) ==
  LET first == yaml.dumps = <<>> /\ yaml.emu = Absent
      script == Parse(opts.text)
  IN  /\ proc.pc = "idle" /\ started < MaxCommands
      /\ started' = started + 1
      /\ IF \/ ~first /\ EpochRefuses(yaml, build, opts.rom, FALSE)
            \/ script.error # "ok"
         THEN UNCHANGED proc
         ELSE proc' = [pc |-> "script", opts |-> opts, prior |-> script.frames,
                       mem |-> IF first THEN Stamp(yaml, build, opts.rom) ELSE yaml,
                       core |-> History(build, opts.rom), frame |-> 0]
      /\ UNCHANGED <<files, build, damage, clean, narrowed>>

Digit == <<"0", "1", "2", "3", "4", "5", "6", "7", "8", "9">>
FrameLabel(frame) == <<"frame-", Digit[frame + 1]>>

(* The labels dumped after a frame: its mark, and the periodic one unless  *)
(* the frame faulted.                                                      *)
DueLabels(opts, frame, fault) ==
  (IF frame \in DOMAIN opts.marks THEN <<opts.marks[frame]>> ELSE <<>>)
    \o (IF ~fault /\ opts.every > 0 /\ frame > 0 /\ frame % opts.every = 0
        THEN <<FrameLabel(frame)>> ELSE <<>>)

DumpAll(due, wram) ==
  [f \in DOMAIN bins \cup {SafeName(due[i]) : i \in DOMAIN due} |->
     IF \E i \in DOMAIN due : SafeName(due[i]) = f THEN wram ELSE bins[f]]

RanAll == proc.frame = proc.opts.total

ScriptFrame ==
  LET core == [proc.core EXCEPT !.pads = Append(@, GetPad(proc.prior, proc.frame))]
      due == DueLabels(proc.opts, proc.frame, Faults(core))
      mem == [proc.mem EXCEPT
                !.dumps = @ \o [i \in DOMAIN due |-> Dump(due[i], proc.frame)]]
  IN  /\ proc.pc = "script" /\ proc.frame < MaxScript
      /\ ~RanAll
      /\ bins' = DumpAll(due, Wram(core))
      /\ proc' = [proc EXCEPT !.pc = IF Faults(core) THEN "finish" ELSE @,
                              !.core = core, !.mem = mem, !.frame = @ + 1]
      /\ UNCHANGED <<log, yaml, saved, clean>> /\ Unrun

FinishScript ==
  /\ \/ proc.pc = "finish"
     \/ proc.pc = "script" /\ RanAll
  /\ Save(proc.mem)
  /\ Close(clean)
  /\ damage' = damage \cup {"script"}
  /\ UNCHANGED <<log, bins, build, started, narrowed>>

-----------------------------------------------------------------------------
(* A search: an unknown label or an unreadable dump leaves the session as  *)
(* it is on disk.                                                          *)
Search(clauses) ==
  LET applied == [i \in DOMAIN clauses |->
                    [clause |-> clauses[i], dumps |-> DumpsOf(yaml, bins, clauses[i])]]
  IN  /\ proc.pc = "idle" /\ started < MaxCommands
      /\ started' = started + 1
      /\ IF SearchReads(yaml, bins, clauses)
         THEN /\ Save(RunSearch(yaml, bins, clauses))
              /\ narrowed' = IF Restarts(yaml, clauses) THEN applied
                                                        ELSE narrowed \o applied
         ELSE UNCHANGED <<yaml, saved, narrowed>>
      /\ UNCHANGED <<build, log, bins, proc, damage, clean>>

-----------------------------------------------------------------------------
(* What happens to a command from outside.                                 *)
Kill ==
  /\ proc.pc # "idle"
  /\ Close(clean)
  /\ damage' = IF proc.pc \in {"script", "finish"} THEN damage \cup {"script"} ELSE damage
  /\ UNCHANGED <<files, build, started, narrowed>>

(* The line is written piece by piece: some digits, all four, the newline. *)
KillInLine ==
  /\ proc.pc = "write"
  /\ \E piece \in {Junk, Run(1, Last(proc.core.pads))} :
       log' = [log EXCEPT !.text.tail = IF @ = <<>> THEN <<piece>> ELSE <<Junk>>]
  /\ damage' = damage \cup {"torn"}
  /\ Close(clean)
  /\ UNCHANGED <<yaml, saved, bins, build, started, narrowed>>

(* Lines are flushed to the system and not synced: a power cut may lose    *)
(* the end of the log.                                                     *)
PowerCut ==
  /\ proc.pc # "idle" /\ log.exists
  /\ \E n \in 1..(Len(log.text.lines) - 1) :
       log' = [log EXCEPT !.text = [lines |-> SubSeq(@.lines, 1, n), tail |-> <<>>]]
  /\ damage' = damage \cup {"lost"}
  /\ Close(clean)
  /\ UNCHANGED <<yaml, saved, bins, build, started, narrowed>>

Rebuild ==
  /\ proc.pc = "idle" /\ started < MaxCommands
  /\ build' \in Builds \ {build}
  /\ UNCHANGED <<files, proc, started, damage, clean, narrowed>>

InteractiveOpts == {o \in [resume : BOOLEAN, skip : BOOLEAN, rom : Roms] : o.skip => o.resume}

Next ==
  \/ \E o \in InteractiveOpts : StartInteractive(o)
  \/ Replay \/ OpenLog \/ SaveStamp
  \/ \E pad \in Pads : LiveFrame(pad)
  \/ WriteLine \/ NoHotkey \/ SaveDump \/ Quit
  \/ \E raw \in Typed : PressF5(raw)
  \/ \E o \in Scripts : StartScript(o)
  \/ ScriptFrame \/ FinishScript
  \/ \E c \in Searches : Search(c)
  \/ Kill \/ KillInLine \/ PowerCut \/ Rebuild

Spec == Init /\ [][Next]_vars

-----------------------------------------------------------------------------
Live == proc.pc \in {"live", "write", "hotkey", "dumped"}

(* The text of the log is the input of the run: while a session is         *)
(* recorded, the log parses to the pad words the emulator has executed,    *)
(* the frame under way left out until its line is written, whatever kills, *)
(* power cuts and resumes came before.  A kill inside a line is excepted:  *)
(* the next line is then glued to the piece.                               *)
LogIsWhatWasPlayed ==
  (Live /\ "torn" \notin damage) =>
    LET parsed == Parse(LinesOf(log.text))
        pads == proc.core.pads
    IN  /\ parsed.error = "ok"
        /\ parsed.frames = IF proc.pc = "write" THEN Front(pads) ELSE pads
        /\ proc.pc = "live" => proc.frame = Len(pads)

(* A session that was not resumed with --skip-replay-verify is one run:    *)
(* at the head of the live loop every dump of session.yaml that is the     *)
(* latest of its file and alone at its frame holds the WRAM this run had   *)
(* after that frame, so a search compares states of the game that was      *)
(* played.  Kills between the dump and its entry, lost log tails, builds   *)
(* that changed and scripted dumps in the same directory must all be       *)
(* caught at the resume.  Frame 0 marks a platform capture and is left out. *)
Alone(d) ==
  \A e \in Range(yaml.dumps) \ {d} :
     e.frame # d.frame /\ (e.file = d.file => e.frame < d.frame)
DumpsReplay ==
  (proc.pc = "live" /\ ~proc.opts.skip) =>
    \A d \in Range(yaml.dumps) :
      (d.frame > 0 /\ Alone(d)) =>
        /\ d.frame < Len(proc.core.pads)
        /\ d.file \in DOMAIN bins
        /\ bins[d.file] = Wram(After(proc.core, d.frame + 1))

(* What the recorder writes, lint accepts: as long as the directory was    *)
(* used by the interactive recorder alone and its log is whole, a session  *)
(* saved once fails no check of its files, its log or its frames, in the   *)
(* middle of a session, after a kill, and as a final session after Esc or  *)
(* a fault.  What is left to fail are the operator's labels and the build. *)
LintOf(final) ==
  FailedChecks(yaml, saved, log.exists, log.text, bins, FALSE, build, final, {})
LintFailsOnlyOnChoices ==
  (damage = {} /\ yaml.logFrames # NoCount) =>
    LintOf(proc.pc = "idle" /\ clean)
      \subseteq {"C6", "C8", "C9", "C10", "C11", "C13"}

(* The candidates are the answers: the offsets on disk are those of the    *)
(* search width that satisfy every clause given since the set was last     *)
(* full, judged on the dumps as they were when the clause was given; no    *)
(* recording between two searches, no failed search and no change of the   *)
(* width loses or keeps another.                                           *)
CandidatesAreTheAnswers ==
  (narrowed # <<>>) =>
    yaml.offsets =
      {o \in FullOffsets(yaml.width) :
         \A i \in DOMAIN narrowed :
            Keep(narrowed[i].clause, yaml.width, narrowed[i].dumps, o)}
=============================================================================

------------------------------- MODULE Lint -------------------------------
(***************************************************************************)
(* ramdiff lint (lint.rs): whether a recorded session is complete and      *)
(* sound, judged from the files of its directory alone.  A check is failed *)
(* when its id is in the result.                                           *)
(***************************************************************************)
EXTENDS RamSession

CONSTANT  Checklist     \* the session kind's spec: required, ordered,
                        \* forbidden, mayBeNotApplicable

(* A glob is modelled by the labels it matches.                            *)
Waived(globs, label) == \E g \in globs : label \in g

LabelMatches(label) == label # <<>> /\ \A i \in DOMAIN label : label[i] \in KeptChars

(* The unfinished last line is dropped before the log is parsed.           *)
PadlogFrameCount(text) == Parse(text.lines)

ContainsPart(label, part) ==
  \E i \in 0..Len(label) : i + Len(part) <= Len(label)
                           /\ SubSeq(label, i + 1, i + Len(part)) = part

(* The dumps the frame checks look at: frame 0 marks a platform capture.   *)
Checkpoints(session) == {d \in Range(session.dumps) : d.frame > 0}

FirstFrame(session, label) == DumpByLabel(session, label).frame

MissingRequired(session, globs) ==
  SelectSeq(Checklist.required,
            LAMBDA l : ~HasLabel(session, l) /\ ~Waived(globs, l))

(* C7 and C9: frames that do not follow the one before them.               *)
FramesIncrease(dumps) ==
  \A i, j \in DOMAIN dumps : i < j /\ dumps[i].frame > 0 /\ dumps[j].frame > 0 =>
    dumps[j].frame > dumps[i].frame
OrderKept(session) ==
  LET present == SelectSeq(Checklist.required, LAMBDA l : HasLabel(session, l))
  IN  \A i \in 2..Len(present) :
         FirstFrame(session, present[i]) > FirstFrame(session, present[i - 1])

(* What gather_facts reads of the log: whether its first line is exactly   *)
(* the header, and its parse without the unfinished line.                  *)
Facts(exists, text) ==
  LET lines == LinesOf(text)
      headed == exists /\ \E i \in DOMAIN lines : /\ lines[i] = Header("v1", NoRom)
                                                 /\ \A j \in 1..(i - 1) : lines[j] = Blank
      parsed == PadlogFrameCount(text)
  IN  [exists |-> exists, headed |-> headed,
       counted |-> headed /\ parsed.error = "ok", frames |-> Len(parsed.frames)]

(* C2, C3 and C4: the log, and the count of its frames in session.yaml.    *)
LogChecks(session, facts, final) ==
  [C2 |-> ~facts.headed,
   C3 |-> facts.headed /\ ~facts.counted,
   C4 |-> \/ session.logFrames = NoCount
          \/ ~facts.counted
          \/ final /\ session.logFrames # Count(facts.frames)
          \/ ~final /\ session.logFrames[1] > facts.frames]

(* C5, C6, C7 and C13: the dumps, their files, labels and frames.          *)
DumpChecks(session, facts, bins) ==
  LET dumps == Range(session.dumps)
  IN  [C5 |-> \E d \in dumps : d.file \notin DOMAIN bins,
       C6 |-> \/ ~IsInjective([i \in DOMAIN session.dumps |-> session.dumps[i].file])
              \/ \E d \in dumps : ~LabelMatches(d.label) \/ d.label # d.file,
       C7 |-> \/ ~FramesIncrease(session.dumps)
              \/ facts.counted /\ \E d \in Checkpoints(session) : d.frame >= facts.frames,
       C13 |-> \E d \in dumps : d.frame = 0]

(* C8, C9 and C10: the labels the session kind asks for, their order, and  *)
(* the ones it forbids.                                                    *)
PlanChecks(session, final, globs) ==
  [C8 |-> final /\ MissingRequired(session, globs) # <<>>,
   C9 |-> Checklist.ordered /\ ~OrderKept(session),
   C10 |-> \E d \in Range(session.dumps), p \in Checklist.forbidden : ContainsPart(d.label, p)]

StampCheck(session, emu) == [C11 |-> session.emu # emu \/ session.rom = Absent]

Failing(checks) == {c \in DOMAIN checks : checks[c]}

FailedChecks(session, saved, exists, text, bins, notApplicable, emu, final, globs) ==
  LET facts == Facts(exists, text)
      marked == Failing([C12 |-> notApplicable])
  IN  IF notApplicable /\ ~exists /\ Checklist.mayBeNotApplicable THEN {}
      ELSE IF ~saved THEN {"C1"} \cup marked
      ELSE Failing(LogChecks(session, facts, final)) \cup Failing(DumpChecks(session, facts, bins))
             \cup Failing(PlanChecks(session, final, globs)) \cup Failing(StampCheck(session, emu))
             \cup marked
=============================================================================

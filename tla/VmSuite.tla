------------------------------ MODULE VmSuite ------------------------------
(***************************************************************************)
(* The in-VM determinism suite (refwork-verify, vm_suite.rs) driving the   *)
(* mock worker.  Each client is one `vm-suite` process.  An iteration has  *)
(* three legs, each on a slot of its own:                                  *)
(*   0  a reference run from READY that snapshots after snapshotAt frames, *)
(*   1  a second cold run, with the perturbed script under --nondet-test,  *)
(*   2  a continuation of the snapshot to the end of the script.           *)
(* Every step of a client consumes the reply of its blocking call and      *)
(* issues the next one; pc is the failure stage the call reports under.    *)
(***************************************************************************)
EXTENDS VmWorker

CONSTANTS Suites,     \* the clients that are vm-suite processes
          Options     \* the command lines explored: see ValidOptions

\* vm_suite: the checks made before the worker is contacted.
ValidOptions(o) ==
    /\ o.script \in Seq(Pads)
    /\ o.frames \in Nat /\ o.frames >= 2
    /\ o.snapshotAt \in 1..(o.frames - 1)
    /\ o.iterations \in Nat \ {0}
    /\ o.nondet \in BOOLEAN

ASSUME SuitesAssumption == Suites \subseteq Clients
ASSUME OptionsAssumption == \A o \in Options : ValidOptions(o)

VARIABLES
    opts,       \* the client's command line
    pc,         \* the stage of its pending call, "start", "done" or "panicked";
                \* "off" when the process is never started
    iteration,  \* the iteration under way
    leg,        \* the leg of the iteration under way
    lease,      \* the slot of this leg
    base,       \* frame counter at this leg's restore
    frame,      \* script frames whose FrameMark this leg has passed
    current,    \* frame hashes of this leg
    reference,  \* frame hashes of leg 0
    mid,        \* ref of leg 0's snapshot
    double,     \* the double-run result of this iteration
    report      \* [iterations, failure, result] of VmSuiteReport

driverVars == <<opts, pc, iteration, leg, lease, base, frame, current,
                reference, mid, double, report>>
vars == <<workerVars, driverVars>>

-----------------------------------------------------------------------------

\* The bytes a frame hash covers: the RAM region, the head of meta and the
\* framebuffer (frame_hash over capture_spec).
FrameHash(guest) == <<Regions(guest), Framebuffer(guest)>>

\* --nondet-test: the low pad bit is flipped at the snapshot frame, or at the
\* last word of a shorter script.
FlipLowBit(word) == IF word % 2 = 0 THEN word + 1 ELSE word - 1

PerturbedIndex(o) == IF o.snapshotAt <= Len(o.script) THEN o.snapshotAt ELSE Len(o.script)

SecondScript(o) ==
    IF o.nondet THEN [o.script EXCEPT ![PerturbedIndex(o)] = FlipLowBit(@)] ELSE o.script

\* inject_with_boundary: one event per word that differs from the one before.
ChangeEvents(words, start, boundary) ==
    LET changed == {i \in DOMAIN words :
                        words[i] # IF i = 1 THEN boundary ELSE words[i-1]}
    IN  [at \in {start + i : i \in changed} |-> words[at - start]]

HeadWords(o) == SubSeq(o.script, 1, IF o.snapshotAt <= Len(o.script)
                                    THEN o.snapshotAt ELSE Len(o.script))
TailFromSnapshot(o) == SubSeq(o.script, o.snapshotAt, Len(o.script))   \* Mutant.
TailWords(o) == SubSeq(o.script, o.snapshotAt + 1, Len(o.script))
NoBoundary(o) == 0   \* Mutant: the tail is compared with a released pad.
Boundary(o)  == LiveWord(o.script, o.snapshotAt)

\* compare
Compare(expected, other, firstFrame) ==
    LET common == 1..(IF Len(expected) <= Len(other) THEN Len(expected) ELSE Len(other))
        differ == {i \in common : expected[i] # other[i]}
        first  == CHOOSE i \in differ : \A j \in differ : i <= j
    IN  CASE Len(expected) # Len(other) -> [ok |-> FALSE, at |-> firstFrame + Cardinality(common)]
          [] Len(expected) = Len(other) /\ differ # {} -> [ok |-> FALSE, at |-> firstFrame + first - 1]
          [] OTHER -> [ok |-> TRUE, at |-> 0]

\* zero_flake
Flakes(results) ==
    \E i \in DOMAIN results : ~results[i].double.ok \/ ~results[i].continuity.ok

NoResult == [ok |-> FALSE, at |-> 0]

-----------------------------------------------------------------------------

Init ==
    /\ WorkerInit
    /\ opts \in [Suites -> Options]
    /\ pc \in [Suites -> {"start", "off"}]
    /\ iteration = [c \in Suites |-> 1]
    /\ leg = [c \in Suites |-> 0]
    /\ lease = [c \in Suites |-> 0]
    /\ base = [c \in Suites |-> 0]
    /\ frame = [c \in Suites |-> 0]
    /\ current = [c \in Suites |-> << >>]
    /\ reference = [c \in Suites |-> << >>]
    /\ mid = [c \in Suites |-> READY]
    /\ double = [c \in Suites |-> NoResult]
    /\ report = [c \in Suites |->
                    [iterations |-> << >>, failure |-> "none", result |-> "fail"]]

Goto(c, stage) == pc' = [pc EXCEPT ![c] = stage]
Answered(c, stage) == pc[c] = stage /\ reply[c].status = "ok"

\* The first restore follows the connection and the perturbation of the
\* script, which indexes an empty script and panics under --nondet-test.
Connect(c) ==
    /\ pc[c] = "start"
    /\ IF opts[c].nondet /\ opts[c].script = << >>
       THEN Goto(c, "panicked") /\ UNCHANGED workerVars
       ELSE Goto(c, "restore") /\ Call(c, RestoreRequest(READY))
    /\ UNCHANGED <<opts, iteration, leg, lease, base, frame, current, reference,
                   mid, double, report>>

\* The worker cannot be reached: the report fails with no slot taken.
ConnectFails(c) ==
    /\ pc[c] = "start"
    /\ CountFault
    /\ Goto(c, "done")
    /\ report' = [report EXCEPT ![c].failure = "connect"]
    /\ UNCHANGED <<corrupt, slots, snapshots, nextSlot, sealing, calls, reply>>
    /\ UNCHANGED <<opts, iteration, leg, lease, base, frame, current, reference, mid, double>>

\* inject_with_boundary makes no call when no event is left; the first frame
\* is run next in that case.
InjectThenRun(c, slot, events) ==
    IF DOMAIN events = {}
    THEN Goto(c, "run") /\ Call(c, RunRequest(slot, 1))
    ELSE Goto(c, "inject") /\ Call(c, InjectRequest(slot, events))

StartFrame(c) == IF leg[c] = 2 THEN opts[c].snapshotAt ELSE 0

\* cold_run and continue_run up to their first injection.
Restored(c) ==
    LET o     == opts[c]
        start == reply[c].guest.counter
    IN  /\ Answered(c, "restore")
        /\ lease' = [lease EXCEPT ![c] = reply[c].lease]
        /\ base' = [base EXCEPT ![c] = start]
        /\ frame' = [frame EXCEPT ![c] = StartFrame(c)]
        /\ current' = [current EXCEPT ![c] = << >>]
        /\ InjectThenRun(c, reply[c].lease,
               CASE leg[c] = 0 -> ChangeEvents(HeadWords(o), start, 0)
                 [] leg[c] = 1 -> ChangeEvents(SecondScript(o), start, 0)
                 [] leg[c] = 2 -> ChangeEvents(TailWords(o), start, Boundary(o)))
        /\ UNCHANGED <<opts, iteration, leg, reference, mid, double, report>>

Injected(c) ==
    /\ Answered(c, "inject")
    /\ Goto(c, "run") /\ Call(c, RunRequest(lease[c], 1))
    /\ UNCHANGED <<opts, iteration, leg, lease, base, frame, current, reference,
                   mid, double, report>>

\* One frame has run: snapshot after snapshotAt frames of leg 0, destroy the
\* slot after the last frame, run the next frame otherwise.
Ran(c) ==
    LET f == frame[c] + 1
    IN  /\ Answered(c, "run")
        /\ frame' = [frame EXCEPT ![c] = f]
        /\ current' = [current EXCEPT ![c] = Append(@, FrameHash(reply[c].guest))]
        /\ CASE leg[c] = 0 /\ f = opts[c].snapshotAt ->
                  Goto(c, "snapshot") /\ Call(c, SlotRequest("snapshot", lease[c]))
             [] f = opts[c].frames ->
                  Goto(c, "destroy") /\ Call(c, SlotRequest("destroy", lease[c]))
             [] OTHER ->
                  Goto(c, "run") /\ Call(c, RunRequest(lease[c], 1))
        /\ UNCHANGED <<opts, iteration, leg, lease, base, reference, mid, double, report>>

\* The tail of the script is injected once the snapshot is taken.
Snapshotted(c) ==
    /\ Answered(c, "snapshot")
    /\ mid' = [mid EXCEPT ![c] = reply[c].ref]
    /\ InjectThenRun(c, lease[c],
           ChangeEvents(TailWords(opts[c]), base[c] + frame[c], Boundary(opts[c])))
    /\ UNCHANGED <<opts, iteration, leg, lease, base, frame, current, reference,
                   double, report>>

\* A leg is over.  run_iteration starts the next leg and compares; the loop of
\* vm_suite starts the next iteration or sets the result.
ReferenceDone(c) ==
    /\ Answered(c, "destroy") /\ leg[c] = 0
    /\ reference' = [reference EXCEPT ![c] = current[c]]
    /\ leg' = [leg EXCEPT ![c] = 1]
    /\ Goto(c, "restore") /\ Call(c, RestoreRequest(READY))
    /\ UNCHANGED <<opts, iteration, lease, base, frame, current, mid, double, report>>

SecondDone(c) ==
    /\ Answered(c, "destroy") /\ leg[c] = 1
    /\ double' = [double EXCEPT ![c] = Compare(reference[c], current[c], 1)]
    /\ leg' = [leg EXCEPT ![c] = 2]
    /\ Goto(c, "restore") /\ Call(c, RestoreRequest(mid[c]))
    /\ UNCHANGED <<opts, iteration, lease, base, frame, current, reference, mid, report>>

ContinuedDone(c) ==
    LET k       == opts[c].snapshotAt
        rest    == SubSeq(reference[c], k + 1, Len(reference[c]))
        outcome == [double     |-> double[c],
                    continuity |-> Compare(rest, current[c], k + 1)]
        results == Append(report[c].iterations, outcome)
    IN  /\ Answered(c, "destroy") /\ leg[c] = 2
        /\ IF iteration[c] < opts[c].iterations
           THEN /\ iteration' = [iteration EXCEPT ![c] = @ + 1]
                /\ leg' = [leg EXCEPT ![c] = 0]
                /\ report' = [report EXCEPT ![c].iterations = results]
                /\ Goto(c, "restore") /\ Call(c, RestoreRequest(READY))
           ELSE /\ report' = [report EXCEPT ![c].iterations = results,
                                            ![c].result = IF Flakes(results) THEN "fail" ELSE "pass"]
                /\ Goto(c, "done") /\ HangUp(c)
                /\ UNCHANGED <<iteration, leg>>
        /\ UNCHANGED <<opts, lease, base, frame, current, reference, mid, double>>

FailsWhenRefused(c) ==   \* Mutant: a transport error is awaited for ever.
    /\ reply[c].status \in Refusals
    /\ report' = [report EXCEPT ![c].failure = pc[c]]
    /\ Goto(c, "done") /\ HangUp(c)
    /\ UNCHANGED <<opts, iteration, leg, lease, base, frame, current, reference,
                   mid, double>>

\* Any RPC error ends the suite: the failure is recorded under its stage and
\* the slot is left as it is.
Fails(c) ==
    /\ pc[c] \in {"restore", "inject", "run", "snapshot", "destroy"}
    /\ reply[c].status \notin {"none", "ok"}
    /\ report' = [report EXCEPT ![c].failure = pc[c]]
    /\ Goto(c, "done") /\ HangUp(c)
    /\ UNCHANGED <<opts, iteration, leg, lease, base, frame, current, reference,
                   mid, double>>

DriverStep(c) ==
    \/ Connect(c) \/ Restored(c) \/ Injected(c) \/ Ran(c) \/ Snapshotted(c)
    \/ ReferenceDone(c) \/ SecondDone(c) \/ ContinuedDone(c) \/ Fails(c)

Step(c) == DriverStep(c) \/ ConnectFails(c)

Finished == \A c \in Suites : pc[c] \in {"done", "panicked", "off"}

-----------------------------------------------------------------------------
(* Properties *)

\* The suite keeps the worker's protocol on every path: no call is refused for
\* a slot or snapshot that does not exist, an event that is not in the future
\* or a snapshot taken while events are queued (the AgendaNotEmpty contract of
\* take_snapshot that the split injection of cold_run exists for).
NeverRefused == \A c \in Suites : reply[c].status \notin Refusals

\* The guest that plays `script` word by word, one frame after another, from
\* READY, with no schedule: what change-only injection must be equivalent to.
Played(script, n) ==
    LET after[i \in 0..n] ==
            IF i = 0 THEN ReadyGuest
            ELSE FrameMark(after[i-1], Entry(after[i-1].counter + 1, LiveWord(script, i)))
    IN  after[n]

ScriptOfLeg(c) == IF leg[c] = 1 THEN SecondScript(opts[c]) ELSE opts[c].script

\* In every leg the hash of each frame is the hash of that frame played word by word.
HashesPlayScript ==
    \A c \in Suites :
        pc[c] \in {"run", "snapshot", "inject", "destroy"} /\ ~(corrupt /\ leg[c] = 2) =>
            \A i \in DOMAIN current[c] :
                current[c][i] = FrameHash(Played(ScriptOfLeg(c),
                                    IF leg[c] = 2 THEN opts[c].snapshotAt + i ELSE i))

\* Change-only injection, split at the snapshot and seeded with the boundary
\* word, is accepted by the worker and puts the guest through exactly the
\* script, whatever other processes do to the worker (inject_with_boundary,
\* cold_run, continue_run).
InjectionPlaysScript == NeverRefused /\ HashesPlayScript

\* The first frame, from `from` on, whose hashes differ between two guests'
\* histories; 0 if none.
FirstDiff(G(_), H(_), from, to) ==
    LET differ == {i \in from..to : FrameHash(G(i)) # FrameHash(H(i))}
    IN  IF differ = {} THEN 0 ELSE CHOOSE i \in differ : \A j \in differ : i <= j

Verdict(at) == [ok |-> at = 0, at |-> at]

\* What the double-run leg must report: the perturbed word is caught at the
\* frame it was played in, and an unperturbed run never diverges.
DoubleRunVerdict ==
    \A c \in Suites : \A i \in DOMAIN report[c].iterations :
        report[c].iterations[i].double =
            Verdict(IF opts[c].nondet THEN PerturbedIndex(opts[c]) ELSE 0)

\* The continuation as a worker with corrupted restores runs it.
Continued(o, n) ==
    LET saved == Played(o.script, o.snapshotAt)
        after[i \in o.snapshotAt..n] ==
            IF i = o.snapshotAt
            THEN [saved EXCEPT !.nonzero = IF corrupt THEN @ + 1 ELSE @]
            ELSE FrameMark(after[i-1], Entry(after[i-1].counter + 1, LiveWord(o.script, i)))
    IN  after[n]

\* What the restore-continuity leg must report: the first frame at which the
\* corruption of the restored guest shows in a hashed region, and a pass when
\* it shows in none or there was no corruption.
ContinuityVerdict ==
    \A c \in Suites : \A i \in DOMAIN report[c].iterations :
        LET o    == opts[c]
            G(n) == Played(o.script, n)
            H(n) == Continued(o, n)
        IN  report[c].iterations[i].continuity =
                Verdict(FirstDiff(G, H, o.snapshotAt + 1, o.frames))

\* "zero flakes": a suite passes iff it ran every iteration without an RPC
\* failure and every leg of every iteration held.
PassMeansZeroFlakes ==
    \A c \in Suites : pc[c] = "done" =>
        (report[c].result = "pass" <=>
            /\ report[c].failure = "none"
            /\ Len(report[c].iterations) = opts[c].iterations
            /\ \A i \in 1..opts[c].iterations :
                  /\ report[c].iterations[i].double.ok
                  /\ report[c].iterations[i].continuity.ok)

\* The report says what happened: each leg the first frame that differs, the whole suite
\* whether every leg of every iteration held.
SuiteVerdict == DoubleRunVerdict /\ ContinuityVerdict /\ PassMeansZeroFlakes
=============================================================================

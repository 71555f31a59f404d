---------------------------- MODULE VmFirstRoom ----------------------------
(***************************************************************************)
(* The in-VM first-room gate (refwork-verify, vm_first_room.rs) driving    *)
(* the worker of VmWorker: restore, READY proof, one injection of the      *)
(* whole script, a run in steps with the room and the live pad captured at *)
(* each stop and the framebuffer at the checkpoints, destroy, verdict.     *)
(* Every step of a client consumes the reply of its blocking call and      *)
(* issues the next one.                                                    *)
(***************************************************************************)
EXTENDS VmWorker

CONSTANTS Gates,     \* the clients that are vm-first-room processes
          Options    \* the command lines and expectation files explored

ValidOptions(o) ==
    /\ o.script \in Seq(Pads)
    /\ o.target \in Nat
    /\ o.step \in Nat
    /\ o.budget \in Nat \ {0}
    /\ o.checkpoints \in Seq([frame : Nat, expected : Seq(Nat)])

VARIABLES
    opts,         \* script, snapshot ref, VmExpect: target_room, step, frame_budget
                  \* and checkpoints, whose `expected` is << >> in dry-run mode
    pc,           \* the stage of the pending call; "cleanup" ignores its reply;
                  \* "off" when the process is never started
    lease, base,  \* of the restored slot
    stops,        \* the stops not reached yet
    framesRun,    \* VmFirstRoomReport::frames_run
    readyProof,   \* << >> or << the regions read before any input >>
    transition,   \* << >> or << observed_by_frame >>
    captured,     \* framebuffer_checkpoints of the report
    padTraceOk,   \* pad_trace_ok
    failures,     \* stages of the failures recorded
    result        \* "fail" or "pass"

driverVars == <<opts, pc, lease, base, stops, framesRun, readyProof, transition,
                captured, padTraceOk, failures, result>>
vars == <<workerVars, driverVars>>

-----------------------------------------------------------------------------

\* One event per word that differs from the one before, the first always.
ChangeEvents(words, start) ==
    LET changed == {i \in DOMAIN words : i = 1 \/ words[i] # words[i-1]}
    IN  [at \in {start + i : i \in changed} |-> words[at - start]]

\* The frames the run stops at: the cadence, the budget and every checkpoint
\* within it.  step is not checked: 0 divides by zero.
Stops(o) ==
    {k * o.step : k \in 1..(o.budget \div o.step)} \cup {o.budget} \cup
    {o.checkpoints[i].frame : i \in {j \in DOMAIN o.checkpoints :
                                        o.checkpoints[j].frame <= o.budget}}

Least(S) == CHOOSE x \in S : \A y \in S : x <= y

\* The pad meta.last_pad must show at a stop.  At a checkpoint at frame 0 the
\* index wraps around and the script is taken to be over.
ExpectedPad(script, stop) ==
    LiveWord(script, IF stop = 0 THEN Len(script) + 1 ELSE stop)

\* The first checkpoint listed for a frame.
CheckpointAt(o, stop) == {i \in DOMAIN o.checkpoints : o.checkpoints[i].frame = stop}

Matched(expected, observed) ==
    CASE expected = << >> -> "recorded"
      [] expected # << >> /\ expected = observed -> "matched"
      [] OTHER -> "mismatch"

\* Mutant: the run is over at the transition, whatever is left to compare.
EnoughAtTransition(o, stop, seen, results) == seen # << >>

\* The early exit of the run loop: transition seen, as many checkpoints
\* captured as listed, and none left before the budget.
Enough(o, stop, seen, results) ==
    LET frames == {o.checkpoints[i].frame : i \in DOMAIN o.checkpoints} \cup {0}
        last   == CHOOSE f \in frames : \A g \in frames : g <= f
    IN  /\ seen # << >>
        /\ Len(results) = Len(o.checkpoints)
        /\ stop >= IF last <= o.budget THEN last ELSE o.budget

-----------------------------------------------------------------------------

Init ==
    /\ WorkerInit
    /\ opts \in [Gates -> Options]
    /\ pc \in [Gates -> {"start", "off"}]
    /\ lease = [c \in Gates |-> 0]
    /\ base = [c \in Gates |-> 0]
    /\ stops = [c \in Gates |-> {}]
    /\ framesRun = [c \in Gates |-> 0]
    /\ readyProof = [c \in Gates |-> << >>]
    /\ transition = [c \in Gates |-> << >>]
    /\ captured = [c \in Gates |-> << >>]
    /\ padTraceOk = [c \in Gates |-> TRUE]
    /\ failures = [c \in Gates |-> {}]
    /\ result = [c \in Gates |-> "fail"]

Goto(c, stage) == pc' = [pc EXCEPT ![c] = stage]
Answered(c, stage) == pc[c] = stage /\ reply[c].status = "ok"
Failed(c, stages) == pc[c] \in stages /\ reply[c].status \notin {"none", "ok"}
Record(c, stage) == failures' = [failures EXCEPT ![c] = @ \cup {stage}]

Connect(c) ==
    /\ pc[c] = "start"
    /\ Goto(c, "restore") /\ Call(c, RestoreRequest(opts[c].ref))
    /\ UNCHANGED <<opts, lease, base, stops, framesRun, readyProof, transition,
                   captured, padTraceOk, failures, result>>

ConnectFails(c) ==
    /\ pc[c] = "start"
    /\ CountFault
    /\ Goto(c, "done") /\ Record(c, "connect")
    /\ UNCHANGED <<corrupt, slots, snapshots, nextSlot, sealing, calls, reply>>
    /\ UNCHANGED <<opts, lease, base, stops, framesRun, readyProof, transition,
                   captured, padTraceOk, result>>

Restored(c) ==
    /\ Answered(c, "restore")
    /\ lease' = [lease EXCEPT ![c] = reply[c].lease]
    /\ base' = [base EXCEPT ![c] = reply[c].guest.counter]
    /\ Goto(c, "ready-proof") /\ Call(c, SlotRequest("read", reply[c].lease))
    /\ UNCHANGED <<opts, stops, framesRun, readyProof, transition, captured,
                   padTraceOk, failures, result>>

\* The regions of the READY proof, and the framebuffer next.  The report holds
\* the proof only once the framebuffer's geometry has been checked.
ReadyRead(c) ==
    /\ Answered(c, "ready-proof")
    /\ readyProof' = [readyProof EXCEPT ![c] = <<Regions(reply[c].guest)>>]
    /\ Goto(c, "geometry") /\ Call(c, SlotRequest("framebuffer", lease[c]))
    /\ UNCHANGED <<opts, lease, base, stops, framesRun, transition, captured,
                   padTraceOk, failures, result>>

\* READY proof recorded: the whole script is injected, in one call even when
\* it has no event.
Inject(c) ==
    /\ Answered(c, "geometry")
    /\ Goto(c, "inject")
    /\ Call(c, InjectRequest(lease[c], ChangeEvents(opts[c].script, base[c])))
    /\ UNCHANGED <<opts, lease, base, stops, framesRun, readyProof, transition,
                   captured, padTraceOk, failures, result>>

\* The stops are laid out and the run to the first one begins.
Injected(c) ==
    /\ Answered(c, "inject")
    /\ IF opts[c].step = 0
       THEN Goto(c, "panicked") /\ HangUp(c) /\ UNCHANGED stops
       ELSE /\ stops' = [stops EXCEPT ![c] = Stops(opts[c])]
            /\ Goto(c, "run") /\ Call(c, RunRequest(lease[c], Least(Stops(opts[c]))))
    /\ UNCHANGED <<opts, lease, base, framesRun, readyProof, transition, captured,
                   padTraceOk, failures, result>>

Destroy(c) == Goto(c, "destroy") /\ Call(c, SlotRequest("destroy", lease[c]))

\* The bottom of the run loop at `stop`: run to the next stop, or destroy.
Proceed(c, stop, left, seen, results) ==
    IF left = {} \/ Enough(opts[c], stop, seen, results)
    THEN Destroy(c)
    ELSE Goto(c, "run") /\ Call(c, RunRequest(lease[c], Least(left) - stop))

\* The first stop at which the room feature shows the target room.
FirstSeen(c, guest, stop) ==
    IF transition[c] = << >> /\ guest.room = opts[c].target
    THEN <<stop>> ELSE transition[c]

\* A run has reached its stop: compare the pad, look for the target room, and
\* capture the framebuffer if a checkpoint is listed here.
Ran(c) ==
    LET o     == opts[c]
        stop  == Least(stops[c])
        left  == stops[c] \ {stop}
        guest == reply[c].guest
        seen  == FirstSeen(c, guest, stop)
    IN  /\ Answered(c, "run")
        /\ stops' = [stops EXCEPT ![c] = left]
        /\ framesRun' = [framesRun EXCEPT ![c] = stop]
        /\ padTraceOk' = [padTraceOk EXCEPT ![c] =
                             @ /\ guest.lastPad = ExpectedPad(o.script, stop)]
        /\ transition' = [transition EXCEPT ![c] = seen]
        /\ IF CheckpointAt(o, stop) # {}
           THEN Goto(c, "framebuffer") /\ Call(c, SlotRequest("framebuffer", lease[c]))
           ELSE Proceed(c, stop, left, seen, captured[c])
        /\ UNCHANGED <<opts, lease, base, readyProof, captured, failures, result>>

\* In a build with overflow checks the pad comparison at frame 0 panics.
RanAtZeroPanics(c) ==
    /\ Answered(c, "run") /\ Least(stops[c]) = 0
    /\ Goto(c, "panicked") /\ HangUp(c)
    /\ UNCHANGED <<opts, lease, base, stops, framesRun, readyProof, transition,
                   captured, padTraceOk, failures, result>>

Captured(c) ==
    LET o          == opts[c]
        checkpoint == o.checkpoints[Least(CheckpointAt(o, framesRun[c]))]
        results    == Append(captured[c],
                          [frame |-> framesRun[c],
                           verdict |-> Matched(checkpoint.expected, Framebuffer(reply[c].guest))])
    IN  /\ Answered(c, "framebuffer")
        /\ captured' = [captured EXCEPT ![c] = results]
        /\ Proceed(c, framesRun[c], stops[c], transition[c], results)
        /\ UNCHANGED <<opts, lease, base, stops, framesRun, readyProof, transition,
                       padTraceOk, failures, result>>

-----------------------------------------------------------------------------
(* Failures.  From the restore on, every path ends in a DestroyVm.         *)

\* restore fails: there is no lease to give back.
RestoreFails(c) ==
    /\ Failed(c, {"restore"})
    /\ Record(c, "restore") /\ Goto(c, "done") /\ HangUp(c)
    /\ UNCHANGED <<opts, lease, base, stops, framesRun, readyProof, transition,
                   captured, padTraceOk, result>>

ReturnAtOnce(c) ==   \* Mutant: an early return drops the lease.
    /\ Goto(c, "done") /\ HangUp(c)
    /\ UNCHANGED <<opts, lease, base, stops, framesRun, transition, captured,
                   padTraceOk, result>>

\* Early returns: destroy the slot, ignoring what DestroyVm answers.
CleanUp(c) ==
    /\ Goto(c, "cleanup") /\ Call(c, SlotRequest("destroy", lease[c]))
    /\ UNCHANGED <<opts, lease, base, stops, framesRun, transition, captured,
                   padTraceOk, result>>

CallFails(c) ==
    /\ Failed(c, {"ready-proof", "geometry", "inject", "run"})
    /\ Record(c, IF pc[c] = "geometry" THEN "framebuffer" ELSE pc[c])
    /\ readyProof' = [readyProof EXCEPT ![c] =
                         IF pc[c] \in {"ready-proof", "geometry"} THEN << >> ELSE @]
    /\ CleanUp(c)

\* A worker other than the mock publishes another geometry.
GeometryMismatch(c) ==
    /\ Answered(c, "geometry")
    /\ CountFault
    /\ Record(c, "framebuffer")
    /\ readyProof' = [readyProof EXCEPT ![c] = << >>]
    /\ Goto(c, "cleanup") /\ Issue(c, SlotRequest("destroy", lease[c]))
    /\ UNCHANGED <<opts, lease, base, stops, framesRun, transition, captured,
                   padTraceOk, result>>

\* A worker other than the mock stops a run for another reason: the loop ends.
UnexpectedStop(c) ==
    /\ Answered(c, "run")
    /\ CountFault
    /\ framesRun' = [framesRun EXCEPT ![c] = Least(stops[c])]
    /\ Record(c, "run") /\ Goto(c, "destroy")
    /\ Issue(c, SlotRequest("destroy", lease[c]))
    /\ UNCHANGED <<opts, lease, base, stops, readyProof, transition, captured,
                   padTraceOk, result>>

\* The framebuffer of a checkpoint cannot be read: the loop ends.
CaptureFails(c) ==
    /\ Failed(c, {"framebuffer"})
    /\ Record(c, "framebuffer") /\ Destroy(c)
    /\ UNCHANGED <<opts, lease, base, stops, framesRun, readyProof, transition,
                   captured, padTraceOk, result>>

CleanedUp(c) ==
    /\ pc[c] = "cleanup" /\ reply[c].status # "none"
    /\ Goto(c, "done") /\ HangUp(c)
    /\ UNCHANGED <<opts, lease, base, stops, framesRun, readyProof, transition,
                   captured, padTraceOk, failures, result>>

\* The pass criteria at the end of vm_first_room.
Passes(c, failed) ==
    /\ failed = {} /\ readyProof[c] # << >> /\ transition[c] # << >>
    /\ \A i \in DOMAIN captured[c] : captured[c][i].verdict # "mismatch"
    /\ padTraceOk[c]

\* The last DestroyVm has answered; its failure fails the gate.
Judge(c) ==
    LET failed == failures[c] \cup (IF reply[c].status = "ok" THEN {} ELSE {"destroy"})
    IN  /\ pc[c] = "destroy" /\ reply[c].status # "none"
        /\ failures' = [failures EXCEPT ![c] = failed]
        /\ result' = [result EXCEPT ![c] = IF Passes(c, failed) THEN "pass" ELSE "fail"]
        /\ Goto(c, "done") /\ HangUp(c)
        /\ UNCHANGED <<opts, lease, base, stops, framesRun, readyProof, transition,
                       captured, padTraceOk>>

-----------------------------------------------------------------------------

DriverStep(c) ==
    \/ Connect(c) \/ Restored(c) \/ ReadyRead(c) \/ Inject(c) \/ Injected(c)
    \/ Ran(c) \/ RanAtZeroPanics(c) \/ Captured(c) \/ RestoreFails(c)
    \/ CallFails(c) \/ CaptureFails(c) \/ CleanedUp(c) \/ Judge(c)

Step(c) == DriverStep(c) \/ ConnectFails(c) \/ GeometryMismatch(c) \/ UnexpectedStop(c)

Finished == \A c \in Gates : pc[c] \in {"done", "panicked", "off"}

-----------------------------------------------------------------------------
(* Properties *)

\* The guest that plays the script word by word from the state this worker restores;
\* with an empty script the restored pad stays live.
RestoredGuest(o) ==
    IF o.ref = READY THEN ReadyGuest
    ELSE [counter |-> o.ref[2], room |-> o.ref[3],
          nonzero |-> IF corrupt THEN o.ref[4] + 1 ELSE o.ref[4],
          lastPad |-> o.ref[5], metaFrame |-> o.ref[6], running |-> TRUE]

Played(o, n) ==
    LET after[i \in 0..n] ==
            IF i = 0 THEN RestoredGuest(o)
            ELSE FrameMark(after[i-1],
                     IF o.script = << >> THEN << >>
                     ELSE Entry(after[i-1].counter + 1, LiveWord(o.script, i)))
    IN  after[n]

InBudget(o) == {i \in DOMAIN o.checkpoints : o.checkpoints[i].frame <= o.budget}

\* The checkpoints the gate compares: the first of each frame in the budget.
Compared(o) ==
    {i \in InBudget(o) : \A j \in InBudget(o) :
        o.checkpoints[j].frame = o.checkpoints[i].frame => i <= j}

\* The verdict is about the play-through and nothing else: a gate whose calls
\* all succeeded passes iff the script, played from the restored state, shows
\* the target room at a stop, the pads at every stop up to the end of the run,
\* and the expected framebuffer at each checkpoint compared.  The cadence, the
\* early exit and the order of the captures do not matter.
VerdictMatchesPlay ==
    \A c \in Gates :
        LET o == opts[c] IN
        pc[c] = "done" /\ failures[c] = {} =>
            (result[c] = "pass" <=>
                /\ \E s \in Stops(o) : Played(o, s).room = o.target
                /\ \A s \in {t \in Stops(o) : t <= framesRun[c]} :
                      Played(o, s).lastPad = ExpectedPad(o.script, s)
                /\ \A i \in Compared(o) :
                      o.checkpoints[i].expected \in
                          {<< >>, Framebuffer(Played(o, o.checkpoints[i].frame))})

\* "Frames after the restore boundary at which the target room was first
\* observed (upper-bounded by the capture cadence)": the room was reached less
\* than one step before the reported frame.
TransitionWithinCadence ==
    \A c \in Gates : transition[c] # << >> =>
        LET at == transition[c][1]
            o  == opts[c]
        IN  /\ Played(o, at).room = o.target
            /\ at > o.step => Played(o, at - o.step).room # o.target

\* The pad trace fails only when the pad was not the script's: an empty script
\* on a snapshot with a pad held, or a checkpoint before the first frame.
PadTraceFailsForCause ==
    \A c \in Gates : ~padTraceOk[c] =>
        \/ opts[c].script = << >> /\ RestoredGuest(opts[c]).lastPad # 0
        \/ CheckpointAt(opts[c], 0) # {}

\* What the report says is what the guest played: the verdict, the frame of the transition
\* and the pad trace.
GateVerdict == VerdictMatchesPlay /\ TransitionWithinCadence /\ PadTraceFailsForCause

\* Every path from the restore on gives the slot back: a finished gate leaves
\* one behind only if its restore or its last destroy failed, or if a second
\* RPC failed while it was cleaning up after a first.
SlotReleased ==
    \A c \in Gates : pc[c] = "done" /\ lease[c] \in DOMAIN slots /\ lease[c] # 0 =>
        "destroy" \in failures[c] \/ faults.count >= 2

=============================================================================

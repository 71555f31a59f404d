------------------------------ MODULE VmGates ------------------------------
(***************************************************************************)
(* refwork-verify's two in-VM gates on one worker: vm-suite processes      *)
(* (VmSuite) and vm-first-room processes (VmFirstRoom) share the slots,    *)
(* the snapshots and the failures of VmWorker.  A gate may restore the     *)
(* snapshot a suite is about to take.                                      *)
(***************************************************************************)
EXTENDS VmSuite

CONSTANTS Gates, GateOptions

VARIABLES gOpts, gPc, gLease, gBase, gStops, gFramesRun, gReadyProof, gTransition,
          gCaptured, gPadTraceOk, gFailures, gResult

G == INSTANCE VmFirstRoom WITH
       Options <- GateOptions, opts <- gOpts, pc <- gPc, lease <- gLease, base <- gBase,
       stops <- gStops, framesRun <- gFramesRun, readyProof <- gReadyProof,
       transition <- gTransition, captured <- gCaptured, padTraceOk <- gPadTraceOk,
       failures <- gFailures, result <- gResult

ASSUME GatesAssumption == /\ Gates \subseteq Clients \ Suites
                          /\ \A o \in GateOptions : G!ValidOptions(o)

gateVars == <<gOpts, gPc, gLease, gBase, gStops, gFramesRun, gReadyProof, gTransition,
              gCaptured, gPadTraceOk, gFailures, gResult>>
allVars == <<workerVars, driverVars, gateVars>>

BothInit == Init /\ G!Init

SuiteSteps(c) == Step(c) /\ UNCHANGED gateVars
GateSteps(c) == G!Step(c) /\ UNCHANGED driverVars
WorkerSteps == WorkerNext /\ UNCHANGED <<driverVars, gateVars>>

\* Every process has exited.
AllFinished == Finished /\ G!Finished
Ended == AllFinished /\ UNCHANGED allVars

Next == \/ \E c \in Suites : SuiteSteps(c)
        \/ \E c \in Gates : GateSteps(c)
        \/ WorkerSteps
        \/ Ended

\* Each process and the worker keep running; a failing RPC is never obliged to
\* fail, and a call given up is never obliged to arrive.
Fairness == /\ \A c \in Suites : WF_allVars(DriverStep(c) /\ UNCHANGED gateVars)
            /\ \A c \in Gates : WF_allVars(G!DriverStep(c) /\ UNCHANGED driverVars)
            /\ WF_allVars(Serve /\ UNCHANGED <<driverVars, gateVars>>)
            /\ WF_allVars(Store /\ UNCHANGED <<driverVars, gateVars>>)

Spec == BothInit /\ [][Next]_allVars /\ Fairness

-----------------------------------------------------------------------------
(* Properties *)

\* What a gate's report says is what its guest played: the verdict, the frame of the
\* transition and the pad trace (VmFirstRoom), whatever suites run beside it.
GateVerdict == G!GateVerdict

\* The slots of processes under way.
Working == {<<c, lease[c]>> : c \in {s \in Suites : pc[s] \in
                {"inject", "run", "snapshot", "destroy"}}}
           \cup {<<c, gLease[c]>> : c \in {g \in Gates : gPc[g] \in
                {"ready-proof", "geometry", "inject", "run", "framebuffer", "destroy", "cleanup"}}}

\* No two processes work on the same slot.
LeasesDisjoint == \A w, v \in Working : w[1] # v[1] => w[2] # v[2]

\* A process holds at most one slot, and gives it back unless an RPC failed: the slots
\* in use are at most those of processes under way and of failed ones.
SlotsAccounted ==
    Cardinality(DOMAIN slots) <=
        Cardinality({c \in Suites : \/ pc[c] \notin {"start", "done", "panicked", "off"}
                                    \/ report[c].failure \notin {"none", "connect"}})
        + Cardinality({c \in Gates : \/ gPc[c] \notin {"start", "done", "off"}
                                     \/ gFailures[c] \cap {"restore", "destroy"} # {}
                                     \/ faults.count >= 2})

\* The slots of one worker are shared without interference and none is lost: no two
\* processes work on one slot, every slot in use has a process that answers for it, and
\* each finished gate gave its own back.
LeasesAccounted == LeasesDisjoint /\ SlotsAccounted /\ G!SlotReleased

\* Every process ends, whatever RPCs fail.
Termination == <>AllFinished
=============================================================================

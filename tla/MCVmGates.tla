----------------------------- MODULE MCVmGates -----------------------------
\* Instances of VmGates for TLC: one suite or one gate alone with every command
\* line, and pairs of processes with a few.
EXTENDS VmGates, TLC

\* Every script of up to MaxWords words, every run length and snapshot frame.
CONSTANTS MaxWords, MaxFrames, MaxIterations

AnySuite ==
    {o \in [script : UNION {[1..n -> Pads] : n \in 0..MaxWords}, frames : 2..MaxFrames,
            snapshotAt : 1..(MaxFrames - 1), iterations : {MaxIterations},
            nondet : BOOLEAN] :
        o.snapshotAt < o.frames}

\* A few command lines for two processes at once.
FewSuites ==
    {[script |-> s, frames |-> 2, snapshotAt |-> 1, iterations |-> 1, nondet |-> n] :
        s \in {<<1>>, <<0, 1>>}, n \in BOOLEAN}

\* A guest snapshotted two frames into a game, in the first room with a pad
\* held, and one that has reached the target room.
MidGame == [counter |-> 4, room |-> InitialRoom, nonzero |-> 1, lastPad |-> 1,
            metaFrame |-> 2, running |-> TRUE]
PastDoor == [MidGame EXCEPT !.room = TargetRoom, !.nonzero = TransitionAfter]

MCSavedGuests == {MidGame, PastDoor}

GateScripts == UNION {[1..n -> {0, 1}] : n \in 0..3}
Refs == {READY, SnapshotRef(MidGame)}

\* Frames 0 to 4 with a budget of 2 or 3; hashes of either room or none.
Checkpoint == [frame : 0..4, expected : {<< >>} \cup
                  {<<r, ReadyFrame + f>> : r \in {InitialRoom, TargetRoom}, f \in 1..3}]
Plausible == {k \in Checkpoint : k.expected = << >> \/ k.expected[2] = ReadyFrame + k.frame}
CheckpointLists ==
    {<< >>} \cup {<<k>> : k \in Plausible}
            \cup {<<k, l>> : k, l \in {p \in Plausible : p.frame >= 2}}

\* Every script with every list of checkpoints.
AnyGate ==
    [script : GateScripts, ref : {READY}, target : {TargetRoom}, step : {2},
     budget : {3}, checkpoints : CheckpointLists]
    \cup
    [script : GateScripts, ref : Refs \cup {<<"unknown">>}, target : {InitialRoom, TargetRoom},
     step : 0..3, budget : 1..4,
     checkpoints : {<< >>, <<[frame |-> 2, expected |-> << >>]>>}]

\* What a suite of FewSuites snapshots after its first frame.
SuiteSnapshot == SnapshotRef(FrameMark(ReadyGuest, Entry(ReadyFrame + 1, 1)))

FewGates ==
    [script : {<<1>>, <<0, 1>>}, ref : {READY, SuiteSnapshot}, target : {TargetRoom},
     step : {1}, budget : {2}, checkpoints : {<< >>}]

MCSuiteOptions == AnySuite \cup FewSuites
MCGateOptions == AnyGate \cup FewGates

Off(c) == c :> "off"
On(c) == c :> "start"

CONSTANTS s1, s2, g1
Idle == CHOOSE o \in FewSuites : TRUE
IdleGate == CHOOSE o \in FewGates : TRUE

OneSuite == /\ pc = On(s1) @@ Off(s2) /\ gPc = Off(g1)
            /\ opts \in {s1 :> o @@ s2 :> Idle : o \in AnySuite} /\ gOpts = g1 :> IdleGate
            /\ faults = [count |-> 0, bound |-> 1]
TwoSuites == /\ pc = On(s1) @@ On(s2) /\ gPc = Off(g1)
             /\ opts \in [Suites -> FewSuites] /\ gOpts = g1 :> IdleGate
             /\ faults = [count |-> 0, bound |-> 1]
OneGate == /\ pc = Off(s1) @@ Off(s2) /\ gPc = On(g1)
           /\ opts = s1 :> Idle @@ s2 :> Idle /\ gOpts \in [Gates -> AnyGate]
           /\ corrupt => gOpts[g1].ref # READY   \* it corrupts nothing else
           /\ faults = [count |-> 0, bound |-> 2]
SuiteAndGate == /\ pc = On(s1) @@ Off(s2) /\ gPc = On(g1)
                /\ opts \in {s1 :> o @@ s2 :> Idle : o \in FewSuites}
                /\ gOpts \in [Gates -> FewGates]
                /\ faults = [count |-> 0, bound |-> 1]

MCInit == /\ corrupt \in CorruptChoices
          /\ OneSuite \/ TwoSuites \/ OneGate \/ SuiteAndGate
          /\ BothInit

MCSpec == MCInit /\ [][Next]_allVars /\ Fairness
=============================================================================

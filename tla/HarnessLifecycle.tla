-------------------------- MODULE HarnessLifecycle --------------------------
(***************************************************************************)
(* What refwork-harness promises to the agent and to the host, with no     *)
(* socket, no meta page and no emulator in it: it boots, says Ready once,  *)
(* marks the frames 1, 2, 3, ... without a gap, answers a hash request at  *)
(* most once per frame and only for the frame just marked, and ends once,  *)
(* either with a Fault or by stopping; after that nothing changes.         *)
(***************************************************************************)
EXTENDS Naturals

VARIABLES
  phase,     (* booting, ready, running, then faulted or stopped.           *)
  frame,     (* Frames marked.                                              *)
  reported   (* The frame last reported, 0 if none.                         *)

vars == <<phase, frame, reported>>
Alive == phase \in {"booting", "ready", "running"}

Init == phase = "booting" /\ frame = 0 /\ reported = 0

BecomeReady == phase = "booting" /\ phase' = "ready" /\ UNCHANGED <<frame, reported>>

Mark ==
  /\ phase \in {"ready", "running"}
  /\ phase' = "running"
  /\ frame' = frame + 1
  /\ UNCHANGED reported

Report ==
  /\ phase = "running"
  /\ reported < frame
  /\ reported' = frame
  /\ UNCHANGED <<phase, frame>>

End ==
  /\ Alive
  /\ phase' \in {"faulted", "stopped"}
  /\ UNCHANGED <<frame, reported>>

Next == BecomeReady \/ Mark \/ Report \/ End
Spec == Init /\ [][Next]_vars
=============================================================================

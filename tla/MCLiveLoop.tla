----------------------------- MODULE MCLiveLoop -----------------------------
(***************************************************************************)
(* The live loop with a gamepad that presses a button, turns its hat and   *)
(* releases the button, and a keyboard that holds two keys or none.  A    *)
(* tick is half a frame.                                                   *)
(***************************************************************************)
EXTENDS LiveLoop

MCPadEvents == <<Event("EV_KEY", 304, 1), Event("EV_ABS", 16, -1), Event("EV_KEY", 304, 0)>>
MCKeys == {{}, {"Up", "Z"}}
MCWorks == {<<1, FALSE>>, <<6, FALSE>>, <<6, TRUE>>}

(* Bound: keys and gamepad are used in the first two frames of a session,  *)
(* the third is run only without them.                                     *)
FewEvents == frame >= 2 => sent = 0 /\ keys = {}
=============================================================================

----------------------------- MODULE MCRecorder -----------------------------
(***************************************************************************)
(* A small ramdiff session for TLC: two builds, two pad words, and a WRAM  *)
(* of four bytes that counts frames and presses and keeps the last pad.    *)
(***************************************************************************)
EXTENDS Recorder

MCBuilds == {"b1", "b2"}

(* Offset 0 counts frames, 1 counts presses, 2 holds the last pad word, 3  *)
(* never changes.  The second build counts presses twice.                  *)
MCWram(h) ==
  LET presses == Cardinality({i \in DOMAIN h.pads : h.pads[i] # 0})
  IN  [o \in 0..3 |->
         CASE o = 0 -> Len(h.pads)
           [] o = 1 -> IF h.build = "b2" THEN 2 * presses ELSE presses
           [] o = 2 -> IF h.pads = <<>> THEN 0 ELSE Last(h.pads)
           [] o = 3 -> 7]

(* Two presses in a row fault from the third frame on, in the second build *)
(* from the second.                                                        *)
MCFaults(h) ==
  /\ Len(h.pads) >= (IF h.build = "b2" THEN 2 ELSE 3)
  /\ h.pads[Len(h.pads)] = 1 /\ h.pads[Len(h.pads) - 1] = 1

LabelA == <<"a">>
LabelB == <<"b", "_">>

(* A label behind the escape sequence of F5, and one that is not its file. *)
MCTyped == {<<"ESC", "[", "1", "5", "~", "a", "NL">>,
            <<" ", "b", "!", "NL">>}
MCKept == {"a", "b", "_", "-", "frame-", "0", "1", "2", "3", "4", "5", "15"}
MCFinals == {"~", "[", "a", "b"}

Script(lines, marks, every, total, rom) ==
  [text |-> lines, marks |-> marks, every |-> every, total |-> total, rom |-> rom,
   skip |-> FALSE, resume |-> FALSE]

MCScripts ==
  {Script(Write(NoRom, <<0, 1, 1>>), (0 :> LabelA @@ 2 :> LabelB), 1, 3, "rom"),
   Script(<<Blank, Header("v1", NoRom), Run(1, 1), Run(2, 0)>>, (1 :> LabelA), 0, 2, "rom"),
   Script(<<Header("v1", NoRom), Run(0, 1)>>, <<>>, 0, 2, "rom")}

MCSearches ==
  {<<Compare("changed", LabelA, LabelB), Delta(1, LabelB, LabelA)>>,
   <<SetWidth("u16le"), ValueIn(1, LabelA)>>}

MCChecklist == [required |-> <<LabelA, LabelB>>, ordered |-> TRUE,
                forbidden |-> {<<"b", "!">>}, mayBeNotApplicable |-> FALSE]

(* The first command runs the first build.                                 *)
MCInit == Init /\ build = "b1"
MCSpec == MCInit /\ [][Next]_vars
=============================================================================

------------------------------- MODULE MCHdma -------------------------------
(***************************************************************************)
(* A small instance of Hdma for TLC: counts below 4, 16 addresses.         *)
(***************************************************************************)
EXTENDS Hdma

Memory(bytes) == [a \in Addresses |-> bytes[a + 1]]

\* A table at 0: a line, four lines on one transfer, the end.  One at 9: two lines
\* repeated, then a line with data on both sides of the end of memory if they are
\* inline, and one repeated line if they are not, the end.
MCMemories == {Memory(<<1, 0, 1, 4, 7, 7, 0, 2, 2, 6, 3, 1, 5, 2, 1, 0>>)}

MCModes == {[unit |-> 2, step |-> 1, indirect |-> FALSE],
            [unit |-> 2, step |-> 0, indirect |-> TRUE]}

Register(r, h, v) == [reg |-> r, high |-> h, value |-> v]
MCStaged == {Register("a2a", FALSE, 3), Register("ntrl", FALSE, 1),
             Register("das", TRUE, 1), Register("a1t", TRUE, 1)}
=============================================================================

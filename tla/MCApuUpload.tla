---------------------------- MODULE MCApuUpload ----------------------------
(***************************************************************************)
(* A small upload for TLC: bytes of two bits, so that a block of five      *)
(* wraps its index, and memory of 16, so that one ends where memory does.  *)
(***************************************************************************)
EXTENDS ApuUpload

MCBlocks == <<[addr |-> 3, bytes |-> <<1, 2, 0, 3, 1>>], [addr |-> 14, bytes |-> <<2, 3>>]>>
=============================================================================

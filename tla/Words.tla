-------------------------------- MODULE Words --------------------------------
(***************************************************************************)
(* Bytes, words and byte-addressed memories, as the processors of the      *)
(* emulated machine use them: Rust's u8 and u16 with wrapping arithmetic,  *)
(* and a memory of which only the bytes that were ever written are kept.   *)
(***************************************************************************)
EXTENDS Integers, TLC

W8(n) == n % 256
W16(n) == n % 65536
W24(n) == n % 16777216

Lo(w) == w % 256
Hi(w) == (w \div 256) % 256
Word(lo, hi) == lo + 256 * hi
Signed8(b) == IF b >= 128 THEN b - 256 ELSE b

Bit(n, i) == (n \div 2^i) % 2 = 1

\* Bitwise operations on the sixteen low bits.
Bitwise16(a, b, Keep(_, _)) ==
  LET sum[i \in 0..16] ==
        IF i = 16 THEN 0
        ELSE (IF Keep(Bit(a, i), Bit(b, i)) THEN 2^i ELSE 0) + sum[i + 1]
  IN sum[0]
And(a, b) == Bitwise16(a, b, LAMBDA p, q : p /\ q)
Or(a, b) == Bitwise16(a, b, LAMBDA p, q : p \/ q)
Xor(a, b) == Bitwise16(a, b, LAMBDA p, q : p # q)
AndNot(a, b) == Bitwise16(a, b, LAMBDA p, q : p /\ ~q)

\* A memory maps the addresses that hold a byte other than the initial 0.
Peek(mem, a) == IF a \in DOMAIN mem THEN mem[a] ELSE 0
Poke(mem, a, v) == (a :> v) @@ mem
=============================================================================

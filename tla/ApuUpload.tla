----------------------------- MODULE ApuUpload -----------------------------
(***************************************************************************)
(* A CPU program that uploads blocks to the APU through the ports, as the  *)
(* tests of bus.rs and apu/mod.rs do and as games do: for each block the   *)
(* address, the command and a signal, for each byte the byte and its       *)
(* index, each acknowledged by its echo on port 0, then command 0 to jump. *)
(* After the jump any access may follow.                                   *)
(***************************************************************************)
EXTENDS ApuPort, Sequences

CONSTANTS
  Blocks,      (* The upload: addresses and bytes. *)
  Entry,       (* Where to jump. *)
  StoreClocks, (* Master clocks between the two halves of a 16-bit store. *)
  FreeBytes,   (* What may be written after the jump, *)
  MaxFree      (* and how many accesses there may be. *)

ASSUME UploadAssumption ==
  /\ Blocks \in Seq([addr : Addr, bytes : Seq(Byte)]) /\ Entry \in Addr
  /\ StoreClocks \in Nat
  /\ FreeBytes \subseteq Byte /\ MaxFree \in Nat

VARIABLES
  todo,   (* The writes still to make before an echo is awaited. *)
  sent    (* The block and the byte last sent, the signal that said so, its echo. *)

allVars == <<vars, todo, sent>>

\* A write; joined: the second half of a 16-bit store, which nothing separates from the first.
W(port, value) == [port |-> port, value |-> value, joined |-> FALSE]
J(port, value) == [port |-> port, value |-> value, joined |-> TRUE]

Header(addr, command, signal, word) ==
  IF word THEN <<W(2, addr % Bytes), J(3, addr \div Bytes), W(0, signal), J(1, command)>>
  ELSE <<W(2, addr % Bytes), J(3, addr \div Bytes), W(1, command), W(0, signal)>>

Data(index, value, word) ==
  IF word THEN <<W(0, index), J(1, value)>> ELSE <<W(1, value), W(0, index)>>

AddressOf(b) == IF b > Len(Blocks) THEN Entry ELSE Blocks[b].addr
BytesOf(b) == IF b \in DOMAIN Blocks THEN Blocks[b].bytes ELSE <<>>

\* Between two things to send, and after the last.
Acknowledged == Idle /\ todo = <<>> /\ sent.echoed
Finished == sent.block > Len(Blocks) /\ sent.echoed

\* The first block is kicked when its command is in place; the signal that starts a later
\* one is neither the last signal, nor the next index, nor zero, and may share a store
\* with the command.
SendBlock(signal, word) ==
  /\ Acknowledged /\ ~Finished /\ sent.index = Len(BytesOf(sent.block))
  /\ IF sent.block = 0 THEN signal = Kick /\ ~word
     ELSE signal \notin {0, sent.signal, sent.index % Bytes}
  /\ todo' = Header(AddressOf(sent.block + 1), IF sent.block < Len(Blocks) THEN 1 ELSE 0,
                    signal, word)
  /\ sent' = [sent EXCEPT !.block = @ + 1, !.index = 0, !.signal = signal, !.echoed = FALSE]
  /\ UNCHANGED vars

Next8(word) ==
  /\ todo' = Data(sent.index % Bytes, BytesOf(sent.block)[sent.index + 1], word)
  /\ sent' = [sent EXCEPT !.index = @ + 1, !.signal = sent.index % Bytes, !.echoed = FALSE]
  /\ UNCHANGED vars

SendByte(word) == Acknowledged /\ sent.index < Len(BytesOf(sent.block)) /\ Next8(word)

\* The first byte may follow the kick at once, in one store.
SendAtOnce ==
  /\ Idle /\ todo = <<>> /\ ~sent.echoed
  /\ sent.block = 1 /\ sent.index = 0 /\ BytesOf(1) # <<>>
  /\ Next8(TRUE)

WriteNext(c) ==
  /\ todo # <<>> /\ (Head(todo).joined => c = StoreClocks)
  /\ Begin("write", Head(todo).port, Head(todo).value, c)
  /\ todo' = Tail(todo) /\ UNCHANGED sent

Poll(c) ==
  /\ todo = <<>> /\ ~sent.echoed /\ Begin("read", 0, 0, c)
  /\ UNCHANGED <<todo, sent>>

Polled ==
  /\ ReadPort
  /\ sent' = [sent EXCEPT !.echoed = @ \/ mdr' = sent.signal]
  /\ UNCHANGED todo

Answer == (ApuStep \/ WritePort \/ WriteDeferred \/ CaughtUp) /\ UNCHANGED <<todo, sent>>

LineEnds ==
  /\ ~(todo # <<>> /\ Head(todo).joined)
  /\ EndLine /\ UNCHANGED <<todo, sent>>

\* The uploaded program and the CPU talk, each as it likes.
Talk(c) ==
  /\ Finished /\ sent.free < MaxFree
  /\ \E p \in {0, 1} :
       \/ Begin("read", p, 0, c) \/ DmaRead(p, c)
       \/ \E v \in FreeBytes : Begin("write", p, v, c) \/ DmaWrite(p, v, c)
  /\ sent' = [sent EXCEPT !.free = @ + 1] /\ UNCHANGED todo

UploadInit ==
  /\ Init /\ todo = <<>>
  /\ sent = [block |-> 0, index |-> 0, signal |-> 0, echoed |-> TRUE, free |-> 0]

Upload ==
  \/ \E word \in BOOLEAN : SendByte(word) \/ \E s \in Byte : SendBlock(s, word)
  \/ \E c \in AccessClocks : WriteNext(c) \/ Poll(c)
  \/ Polled \/ Answer

UploadNext == Upload \/ SendAtOnce \/ LineEnds \/ \E c \in AccessClocks : Talk(c)

UploadSpec == UploadInit /\ [][UploadNext]_allVars

\* The CPU goes on executing its program.
FairUpload == UploadSpec /\ WF_allVars(Upload)
-----------------------------------------------------------------------------
(* Properties.                                                             *)

At(b, i) == (Blocks[b].addr + i - 1) % (Bytes * Bytes)

\* The bytes of a block sent by the time byte i of block b is.
SentOf(o, b, i) == 1..(IF o = b THEN i ELSE Len(BytesOf(o)))

\* Memory outside the boot protocol's pointer holds what was sent up to there, each byte
\* at its place, a later one over an earlier one.
Holds(ram, b, i) ==
  \A x \in Addr \ {0, 1} :
    \/ /\ ram[x] = 0
       /\ \A o \in 1..b : \A j \in SentOf(o, b, i) : At(o, j) # x
    \/ \E o \in 1..b : \E j \in SentOf(o, b, i) :
         /\ At(o, j) = x /\ ram[x] = BytesOf(o)[j]
         /\ \A p \in o..b : \A k \in SentOf(p, b, i) : At(p, k) = x => p = o /\ k <= j

\* Whenever an acknowledgement was seen, what was sent is in memory, whether a byte was
\* stored before or after its index and however the APU was caught up in between
\* (step_ipl_hle, write).
RamAsSent == Acknowledged /\ ~Finished => Holds(apu.ram, sent.block, sent.index)

\* An acknowledgement means what the sender takes it for: the APU is at this byte of this
\* block, or has jumped ("preserve that one protocol edge").
InStep ==
  Acknowledged /\ sent.block > 0 =>
    IF sent.block > Len(Blocks) THEN apu.mode = "done"
    ELSE /\ apu.mode = "receive" /\ apu.expected = sent.index % Bytes
         /\ apu.ptr = At(sent.block, sent.index + 1)

\* The upload is faithful: its acknowledgements mean what the sender takes them for, and
\* what was acknowledged is in memory.
UploadFaithful == RamAsSent /\ InStep

\* Every upload ends with the jump, though the kick may be overwritten at once.
UploadCompletes == <>(apu.mode = "done")
=============================================================================

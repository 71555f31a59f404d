----------------------------- MODULE ApuProgram -----------------------------
(***************************************************************************)
(* What a sound program may expect of the audio unit: calls that come      *)
(* back, timers that lose no tick, samples that are played as they were    *)
(* encoded.                                                                *)
(*                                                                         *)
(* calls, time and song record what has happened; no action reads them.    *)
(***************************************************************************)
EXTENDS Spc700

CONSTANTS MaxDepth, \* Bound: how many of the innermost calls are remembered.
          MaxBlocks \* Bound: the blocks of a sample that are followed.

VARIABLES calls, \* The calls that have not returned.
          time,  \* For each timer: cycles since it was enabled, ticks the program has seen.
          song   \* For each voice: the samples it shall play, and how far its pitch has run.

allVars == <<s, io, d, clock, left, calls, time, song>>

(***************************************************************************)
(* Calls.                                                                  *)
(***************************************************************************)
FrameAt(n) == {256 + W8(s.sp - i) : i \in 0..(n - 1)}
Enter(kind, length, n) ==
  LET frame == [kind |-> kind, before |-> s.sp, after |-> s'.sp, psw |-> s.psw,
                pc |-> W16(s.pc + length),
                bytes |-> [a \in FrameAt(n) |-> s'.mem[a]]]
      all == Append(calls, frame)
  IN calls' = IF Len(all) > MaxDepth THEN Tail(all) ELSE all
Leave == calls' = IF calls = <<>> THEN calls ELSE SubSeq(calls, 1, Len(calls) - 1)

(***************************************************************************)
(* Time: what the timers should have counted.                              *)
(***************************************************************************)
Cycles == CYCLES[Opcode + 1]
Target(t) == IF t.target = 0 THEN 256 ELSE t.target
PeriodOf(t, i) == Divider(i) * Target(t)

Idle == [steady |-> FALSE, since |-> 0, seen |-> 0]
SeenNow(i) ==
  CASE s.pc = \HFD + i -> Opcode
    [] s.pc # \HFD + i /\ \HFD + i \in s'.rd -> Peek(Begin.mem, \HFD + i)
    [] OTHER -> 0
Timed(i) ==
  LET t == io.timer[i]
      u == io'.timer[i]
  IN CASE ~u.enabled -> Idle
       [] u.enabled /\ ~t.enabled -> [steady |-> TRUE, since |-> Cycles, seen |-> 0]
       [] u.enabled /\ t.enabled ->
            [steady |-> time[i].steady /\ u.target = t.target,
             since |-> (time[i].since + Cycles) % (16 * PeriodOf(t, i)),
             seen |-> (time[i].seen + SeenNow(i)) % 16]

(***************************************************************************)
(* Songs: a sample decoded from end to end, as it lay in memory when the   *)
(* key was pressed.                                                        *)
(***************************************************************************)
Chain(mem, first, loop) ==
  LET upTo[i \in 1..MaxBlocks] ==
        IF i = 1 THEN <<first>>
        ELSE LET before == upTo[i - 1]
                 last == before[Len(before)]
                 h == Header(mem, last)
             IN IF Len(before) < i - 1 \/ (h.end /\ ~h.loop) THEN before
                ELSE Append(before, IF h.end THEN loop ELSE W16(last + 9))
  IN upTo[MaxBlocks]
Stream(mem, chain) ==
  LET upTo[i \in 0..Len(chain)] ==
        IF i = 0 THEN <<0, 0>>
        ELSE LET before == upTo[i - 1]
                 n == Len(before)
                 block == DecodeBlock(mem, chain[i], before[n], before[n - 1])
             IN before \o [k \in 1..16 |-> block[k - 1]]
  IN SubSeq(upTo[Len(chain)], 3, 16 * Len(chain) + 2)

NoSong == [chain |-> <<>>, stream |-> <<>>, total |-> 0]
Pressed(v) ==
  LET mem == s'.mem
      entry == 256 * Reg(d', \H5D) + 4 * VoiceReg(d', v, 4)
      chain == Chain(mem, Word2(s', entry, entry + 1), Word2(s', entry + 2, entry + 3))
  IN [chain |-> chain, stream |-> Stream(mem, chain), total |-> 0]

Sampled == clock + Cycles >= 32
\* Memory under the sample changed, its pitch is modulated, or the voices were reset.
Spoiled(v) ==
  \/ \E i \in DOMAIN song[v].chain, k \in 0..8 :
       Peek(s'.mem, song[v].chain[i] + k) # Peek(s.mem, song[v].chain[i] + k)
  \/ On(d', \H2D, v) \/ On(d', FLG, 7)
Sung(v) ==
  CASE Sampled /\ d'.voice[v].konDelay = 4 -> Pressed(v)
    [] ~(Sampled /\ d'.voice[v].konDelay = 4) /\ song[v] # NoSong ->
         IF Spoiled(v) THEN NoSong
         ELSE [song[v] EXCEPT !.total = IF Sampled /\ d.voice[v].konDelay = 0
                                        THEN @ + Pitch(d', v) ELSE @]
    [] OTHER -> NoSong

(***************************************************************************)
(* The system with its records.                                            *)
(***************************************************************************)
Kept == UNCHANGED calls
Recorded == /\ time' = [i \in 0..2 |-> Timed(i)]
            /\ song' = [v \in Voices |-> Sung(v)]

PInit == /\ Init
         /\ calls = <<>>
         /\ time = [i \in 0..2 |-> Idle]
         /\ song = [v \in Voices |-> NoSong]

PNext ==
  \/ Does(Compute \cup Change \cup Move \cup Go) /\ Kept /\ Recorded
  \/ Does(CALL) /\ Enter("call", CASE Opcode = \H3F -> 3 [] Opcode = \H4F -> 2 [] OTHER -> 1, 2)
                /\ Recorded
  \/ Does(BRK) /\ Enter("brk", 1, 3) /\ Recorded
  \/ Does(RET \cup RET1) /\ Leave /\ Recorded
  \/ Environment /\ UNCHANGED <<calls, time, song>>

PSpec == PInit /\ [][PNext]_allVars

(***************************************************************************)
(* Properties.                                                             *)
(***************************************************************************)
Executed(instruction) == instruction # {} /\ left'.steps < left.steps
Undisturbed(f, kind) == /\ f.kind = kind /\ f.after = s.sp
                        /\ \A a \in DOMAIN f.bytes : s.mem[a] = f.bytes[a]
Top1 == calls[Len(calls)]
ReturnsTo(f) == s'.pc = f.pc /\ s'.sp = f.before
\* Through a frame the program has left alone, RET goes back to the instruction after the
\* call, whatever kind of call and however deep the nesting, and RET1 goes back to the one
\* after BRK with the flags it had; the stack is as it was (op_tcall, execute).
SpcCallsReturn ==
  [][/\ Executed(RET) /\ calls # <<>> => (Undisturbed(Top1, "call") => ReturnsTo(Top1))
     /\ Executed(RET1) /\ calls # <<>> =>
          (Undisturbed(Top1, "brk") => ReturnsTo(Top1) /\ s'.psw = Top1.psw)]_allVars

\* A timer that has run with one target since it was enabled has counted every period
\* that has passed: what the program has read and what it can still read add up to it,
\* although reading clears the counter, whatever instruction read it, and however often
\* the control register was written meanwhile (Timer::advance, set_enabled, Apu::step).
TimersExact ==
  \A i \in 0..2 :
    LET t == io.timer[i]
    IN t.enabled /\ time[i].steady =>
         (time[i].seen + t.output) % 16 = (time[i].since \div PeriodOf(t, i)) % 16

\* A voice interpolates the four samples that its pitch has reached, in the order in
\* which they were encoded, across blocks, loops and turns of its ring; and it plays until
\* its sample is over, no longer.  (A sample of one block that ends it is never heard.)
Reached(v) == song[v].total \div 4096
Last(v) == Header(s.mem, song[v].chain[Len(song[v].chain)])
HeardAll(v) == /\ Last(v).end /\ ~Last(v).loop
               /\ Reached(v) >= IF Len(song[v].chain) = 1 THEN 0 ELSE Len(song[v].stream)
SamplesInOrder ==
  \A v \in Voices :
    LET w == d.voice[v]
    IN song[v] # NoSong /\ w.konDelay = 0 =>
         /\ Reached(v) < Len(song[v].stream) /\ w.active =>
              \A j \in 0..3 :
                Tap(w, j) = IF Reached(v) < j THEN 0 ELSE song[v].stream[Reached(v) - j + 1]
         /\ Reached(v) < Len(song[v].stream) \/ HeardAll(v) => (w.active <=> ~HeardAll(v))
=============================================================================

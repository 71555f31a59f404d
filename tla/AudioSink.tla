------------------------------ MODULE AudioSink ------------------------------
(***************************************************************************)
(* From the capture ring of the sound generator to the queue of the output *)
(* device: dsp.rs's audio ring, and audio.rs of ramdiff with its resampler,*)
(* rate control and watermarks.  A stereo pair of the generator is its     *)
(* number.  A sample of the queue is where it was interpolated: channel,   *)
(* the two pairs, and the fraction of the way between them, in units of    *)
(* 1 / Unit; f64 rounding is abstracted.                                    *)
(***************************************************************************)
EXTENDS Integers, Sequences, FiniteSets, SequencesExt

CONSTANTS RingCap,      \* dsp.rs AUDIO_RING_CAP, in pairs
          Scratch,      \* pairs that fit audio_scratch
          InRate,       \* AUDIO_SAMPLE_RATE_HZ
          DeviceRate,   \* the device's sample rate
          HighMs, LowMs,\* HIGH_WATERMARK_MS, LOW_WATERMARK_MS
          SlewDen       \* 1 / MAX_RATE_SLEW

ASSUME RatesAssumption ==
  /\ RingCap \in Nat \ {0} /\ Scratch \in Nat \ {0} /\ SlewDen \in Nat \ {0, 1}
  /\ InRate \in Nat \ {0} /\ DeviceRate \in Nat /\ DeviceRate >= 1000
  /\ LowMs \in Nat \ {0} /\ HighMs \in Nat /\ HighMs > LowMs

(***************************************************************************)
(* The ring.                                                               *)
(***************************************************************************)
EmptyRing == [pairs |-> <<>>, dropped |-> 0]

PushAudioPair(ring, pair) ==
  IF Len(ring.pairs) = RingCap
  THEN [pairs |-> Append(Tail(ring.pairs), pair), dropped |-> ring.dropped + 1]
  ELSE [ring EXCEPT !.pairs = Append(@, pair)]

Produced(ring, first, count) ==
  LET after[i \in 0..count] ==
        IF i = 0 THEN ring ELSE PushAudioPair(after[i - 1], first + i - 1)
  IN  after[count]

DrainAudio(ring) == SubSeq(ring.pairs, 1, Min({Scratch, Len(ring.pairs)}))
AfterDrain(ring) == [ring EXCEPT !.pairs = SubSeq(@, Scratch + 1, Len(@))]

(***************************************************************************)
(* Depths, in samples of the queue: two for a stereo pair.                 *)
(***************************************************************************)
MsToSamples(ms) == (DeviceRate * 2 * ms) \div 1000

EvenFloor(n) == n - (n % 2)

HighWatermark == EvenFloor(MsToSamples(HighMs))
LowWatermark == EvenFloor(MsToSamples(LowMs))

(***************************************************************************)
(* The resampler.                                                          *)
(***************************************************************************)
Unit == DeviceRate * LowWatermark * SlewDen
NoRatio == InRate * LowWatermark * SlewDen
Fresh == [prev |-> 0, hasPrev |-> FALSE, phase |-> 0, ratio |-> NoRatio]

(* The ratio for a depth: slewed by at most 1 / SlewDen towards the low    *)
(* watermark.                                                              *)
RateFor(depth) ==
  LET off == LowWatermark - depth
      error == IF off < -LowWatermark THEN -LowWatermark ELSE off
  IN  InRate * (LowWatermark * SlewDen - error)

Silence == <<"silence", 0, 0, 0>>

\* Mutant: every call starts at a pair.
ResampledAfresh(r, chunk) ==
  LET start == IF r.hasPrev THEN 0 ELSE 1
      n == Len(chunk) - start
      count == IF n = 0 THEN 0 ELSE (n * Unit + r.ratio - 1) \div r.ratio
      pair(i) == IF i = 0 THEN IF r.hasPrev THEN r.prev ELSE chunk[1] ELSE chunk[start + i]
      at(p) == <<pair(p \div Unit), pair((p \div Unit) + 1), p % Unit>>
  IN  [out |-> [k \in 1..(2 * count) |->
                  <<IF k % 2 = 1 THEN "L" ELSE "R">> \o at(((k - 1) \div 2) * r.ratio)],
       next |-> [r EXCEPT !.hasPrev = TRUE, !.prev = chunk[Len(chunk)]]]

(* One call of push: the samples it emits, and the state it leaves.        *)
Resampled(r, chunk) ==
  LET start == IF r.hasPrev THEN 0 ELSE 1
      n == Len(chunk) - start
      ahead == n * Unit - r.phase
      count == IF ahead <= 0 THEN 0 ELSE (ahead + r.ratio - 1) \div r.ratio
      pair(i) == IF i = 0 THEN IF r.hasPrev THEN r.prev ELSE chunk[1] ELSE chunk[start + i]
      at(p) == <<pair(p \div Unit), pair((p \div Unit) + 1), p % Unit>>
  IN  [out |-> [k \in 1..(2 * count) |->
                  <<IF k % 2 = 1 THEN "L" ELSE "R">> \o at(r.phase + ((k - 1) \div 2) * r.ratio)],
       next |-> [r EXCEPT !.hasPrev = TRUE, !.prev = chunk[Len(chunk)],
                          !.phase = @ + count * r.ratio - n * Unit]]

(***************************************************************************)
(* The sink.                                                               *)
(***************************************************************************)
Hush(count) == [i \in 1..count |-> Silence]

OpenSink == [queue |-> Hush(LowWatermark), res |-> Fresh, waiting |-> <<>>, drops |-> 0,
             reprimes |-> 0, lastDepth |-> LowWatermark, minDepth |-> LowWatermark]

(* The first half of push: the depth is read and an empty queue primed     *)
(* under the lock; then the chunk is resampled.                            *)
Primed(sink, chunk) ==
  LET raw == Len(sink.queue)
      queue == IF raw = 0 THEN Hush(LowWatermark) ELSE sink.queue
      resampled == Resampled([sink.res EXCEPT !.ratio = RateFor(Len(queue))], chunk)
  IN  [sink EXCEPT !.queue = queue, !.res = resampled.next, !.waiting = resampled.out,
                   !.reprimes = @ + (IF raw = 0 THEN 1 ELSE 0),
                   !.minDepth = IF raw < @ THEN raw ELSE @]

(* The second half: the samples are queued and a queue above the high      *)
(* watermark is cut to the low one, from its old end.                      *)
ApplyWatermark(queue) ==
  IF Len(queue) <= HighWatermark THEN queue
  ELSE SubSeq(queue, Len(queue) - LowWatermark + 1, Len(queue))

Extended(sink) ==
  LET longer == sink.queue \o sink.waiting
      queue == ApplyWatermark(longer)
  IN  IF sink.waiting = <<>> THEN sink
      ELSE [sink EXCEPT !.queue = queue, !.waiting = <<>>, !.lastDepth = Len(queue),
                        !.drops = @ + (IF Len(longer) > HighWatermark THEN 1 ELSE 0)]

(* The device takes frames: two samples each, silence for what is missing. *)
Taken(queue, i) == IF i <= Len(queue) THEN queue[i] ELSE Silence
Played(queue, frames) == [f \in 1..frames |-> <<Taken(queue, 2 * f - 1), Taken(queue, 2 * f)>>]
AfterPlay(queue, frames) == SubSeq(queue, 2 * frames + 1, Len(queue))
=============================================================================

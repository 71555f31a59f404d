--------------------------------- MODULE Dsp ---------------------------------
(***************************************************************************)
(* The sound generator, apu/dsp.rs: voices that play compressed samples,   *)
(* their envelopes, the noise source, the echo and the registers.          *)
(*                                                                         *)
(* Pure operators on a record d: the register file, the voices and what    *)
(* they share.  StepSample(d, mem) is one stereo sample, 32 clocks: it     *)
(* returns the new record and the memory, into which the echo is written.  *)
(* The mix is left out where nothing can observe it: the default build     *)
(* computes it and drops it.                                               *)
(***************************************************************************)
EXTENDS Words, FiniteSets, Sequences

CONSTANTS Voices,   \* The voices that are modelled, from 0 upwards; eight in the code.
          EchoUnit, \* Samples of echo per unit of EDL; 256 in the code.
          Gauss     \* The 512 coefficients of the interpolation.

ASSUME DspAssumption == /\ \E n \in 1..8 : Voices = 0..(n - 1)
                        /\ EchoUnit \in Nat \ {0}
                        /\ Gauss \in [0..511 -> Nat]

\* Arithmetic of the fixed-point code.
Signed16(v) == ((v + 32768) % 65536) - 32768
Clamp(v, low, high) == IF v < low THEN low ELSE IF v > high THEN high ELSE v
Clamp16(v) == Clamp(v, -32768, 32767)
Even(v) == v - (v % 2)

RATE_TABLE ==
  <<0, 2048, 1536, 1280, 1024, 768, 640, 512, 384, 320, 256, 192, 160, 128, 96, 80,
    64, 48, 40, 32, 24, 20, 16, 12, 10, 8, 6, 5, 4, 3, 2, 1>>
Period(rate) == RATE_TABLE[rate + 1]

Silent == [pitch |-> 0, addr |-> 0, offset |-> 0, buf |-> [i \in 0..31 |-> 0], pos |-> 0,
           old1 |-> 0, old2 |-> 0, loopAddr |-> 0, end |-> FALSE, loop |-> FALSE,
           env |-> 0, phase |-> "off", tick |-> 0, konDelay |-> 0, envx |-> 0, outx |-> 0,
           active |-> FALSE]

PowerOn == [regs |-> <<>>, voice |-> [v \in Voices |-> Silent], lfsr |-> 16384,
            noiseTick |-> 0, echoL |-> <<>>, echoR |-> <<>>, echoPos |-> 0,
            histL |-> [i \in 0..7 |-> 0], histR |-> [i \in 0..7 |-> 0], firPos |-> 0,
            endx |-> {}]

(***************************************************************************)
(* Registers.                                                              *)
(***************************************************************************)
KON == \H4C
KOF == \H5C
FLG == \H6C
ENDX == \H7C
EndxByte(set) == LET w(v) == IF v \in set THEN 2^v ELSE 0
                 IN w(0) + w(1) + w(2) + w(3) + w(4) + w(5) + w(6) + w(7)

Reg(d, r) == Peek(d.regs, r)
On(d, r, v) == Bit(Reg(d, r), v)
VoiceReg(d, v, r) == Reg(d, 16 * v + r)
SReg(d, r) == Signed8(Reg(d, r))
Pitch(d, v) == VoiceReg(d, v, 2) + 256 * (VoiceReg(d, v, 3) % 64)

ReadReg(d, addr) ==
  LET r == addr % 128
      v == r \div 16
  IN CASE r % 16 = 8 -> IF v \in Voices THEN d.voice[v].envx ELSE 0
       [] r % 16 = 9 -> IF v \in Voices THEN W8(d.voice[v].outx) ELSE 0
       [] OTHER -> Reg(d, r)

\* Any write clears the end flags, whatever the value.
WriteReg(d, addr, value) ==
  LET r == addr % 128
  IN IF r = ENDX THEN [d EXCEPT !.regs = Poke(@, ENDX, 0), !.endx = {}]
     ELSE [d EXCEPT !.regs = Poke(@, r, value)]

(***************************************************************************)
(* Compressed samples.  A block is a header and 16 nibbles.                *)
(***************************************************************************)
DecodeNybble(nibble, shift, filter, old1, old2) ==
  LET raw == IF nibble >= 8 THEN nibble - 16 ELSE nibble
      s == IF shift <= 12 THEN (raw * 2^shift) \div 2
           ELSE IF raw < 0 THEN -2048 ELSE 0
      p2 == old2 \div 2
      filtered == CASE filter = 0 -> s
                    [] filter = 1 -> s + (old1 \div 2) + ((-old1) \div 32)
                    [] filter = 2 -> s + old1 - p2 + (p2 \div 16) + ((-3 * old1) \div 64)
                    [] filter = 3 -> s + old1 - p2 + ((-13 * old1) \div 128) + ((3 * p2) \div 16)
  IN Signed16(2 * Clamp16(filtered))

Header(mem, addr) ==
  LET h == Peek(mem, addr)
  IN [shift |-> h \div 16, filter |-> (h \div 4) % 4, loop |-> Bit(h, 1), end |-> Bit(h, 0)]
NibbleOf(mem, addr, i) ==
  LET b == Peek(mem, W16(addr + 1 + (i \div 2)))
  IN IF i % 2 = 0 THEN b \div 16 ELSE b % 16

\* The 16 samples of a block, decoded after the samples old1 and old2.
DecodeBlock(mem, addr, old1, old2) ==
  LET h == Header(mem, addr)
      upTo[n \in 0..16] ==
        IF n = 0 THEN <<old2, old1>>
        ELSE LET before == upTo[n - 1]
             IN Append(before, DecodeNybble(NibbleOf(mem, addr, n - 1), h.shift, h.filter,
                                            before[n + 1], before[n]))
      decoded == upTo[16]
  IN [i \in 0..15 |-> decoded[i + 3]]

RestartsRing(w) == 0   \* Mutant: the block is written over the previous one.
RingPos(w) == w.pos

DecodeNext(w, mem) ==
  LET sample == DecodeBlock(mem, w.addr, w.old1, w.old2)
      h == Header(mem, w.addr)
      at(i) == (i - RingPos(w)) % 32   \* The sample that goes to place i of the ring.
  IN [w EXCEPT !.buf = [i \in 0..31 |-> IF at(i) < 16 THEN sample[at(i)] ELSE w.buf[i]],
               !.pos = (RingPos(w) + 16) % 32, !.old1 = sample[15], !.old2 = sample[14],
               !.addr = W16(@ + 9), !.end = h.end, !.loop = h.loop]

\* The j-th newest of the four samples that are interpolated.
Tap(w, j) == w.buf[(w.pos - 16 + w.offset - j) % 32]
Interpolated(w) ==
  LET frac == (w.pitch \div 16) % 256
      part(coefficient, j) == (Gauss[coefficient] * Tap(w, j)) \div 2048
      three == part(255 - frac, 3) + part(511 - frac, 2) + part(256 + frac, 1)
  IN Even(Clamp16(Signed16(three) + part(frac, 0)))

(***************************************************************************)
(* Envelopes.                                                              *)
(***************************************************************************)
Top == \H7FF
Slower(env) == LET lower == env - (env \div 256) - 1 IN IF lower < 0 THEN 0 ELSE lower
Faster(env, step) == IF env + step > Top THEN Top ELSE env + step
Lowered(env, step) == IF env < step THEN 0 ELSE env - step

\* F is applied to the envelope once in a period; 0 is no period.
Every(w, period, F(_)) ==
  IF period = 0 \/ w.tick + 1 >= period THEN [w EXCEPT !.tick = 0, !.env = F(@)]
  ELSE [w EXCEPT !.tick = @ + 1]
OffAtZero(w) == IF w.env = 0 THEN [w EXCEPT !.phase = "off"] ELSE w

Attack(w, adsr1) ==
  LET rate == adsr1 % 16
      By32(env) == Faster(env, 32)
      n == IF rate = 15 THEN [w EXCEPT !.env = Faster(@, 1024)]
           ELSE Every(w, Period(2 * rate + 1), By32)
  IN IF n.env >= Top THEN [n EXCEPT !.phase = "decay", !.tick = 0] ELSE n

SustainLevel(adsr2) == ((adsr2 \div 32) + 1) * 256
Decay(w, adsr1, adsr2) ==
  LET n == Every(w, Period(((adsr1 \div 16) % 8) * 2 + 16), Slower)
  IN IF n.env <= SustainLevel(adsr2)
     THEN [n EXCEPT !.env = SustainLevel(adsr2), !.phase = "sustain", !.tick = 0]
     ELSE n

Sustain(w, adsr2) ==
  IF adsr2 % 32 = 0 THEN w ELSE OffAtZero(Every(w, Period(adsr2 % 32), Slower))

GainMode(env, mode) ==
  CASE mode = 0 -> Lowered(env, 32)
    [] mode = 1 -> Slower(env)
    [] mode = 2 -> Faster(env, 32)
    [] mode = 3 -> Faster(env, IF env < \H600 THEN 32 ELSE 8)
Gain(w, gain) ==
  LET mode == (gain \div 32) % 4
      F(env) == GainMode(env, mode)
      n == Every(w, Period(gain % 32), F)
  IN IF gain < 128 THEN [w EXCEPT !.env = 16 * gain]
     ELSE IF gain % 32 = 0 THEN w
     ELSE IF mode < 2 /\ w.tick + 1 >= Period(gain % 32) THEN OffAtZero(n) ELSE n

Release(w) == IF w.env > 8 THEN [w EXCEPT !.env = @ - 8]
              ELSE [w EXCEPT !.env = 0, !.phase = "off"]

StepEnvelope(d, v, w) ==
  LET adsr1 == VoiceReg(d, v, 5)
      adsr2 == VoiceReg(d, v, 6)
      n == CASE w.phase = "off" -> [w EXCEPT !.env = 0]
             [] w.phase = "release" -> Release(w)
             [] w.phase \notin {"off", "release"} /\ ~Bit(adsr1, 7) -> Gain(w, VoiceReg(d, v, 7))
             [] w.phase = "attack" /\ Bit(adsr1, 7) -> Attack(w, adsr1)
             [] w.phase = "decay" /\ Bit(adsr1, 7) -> Decay(w, adsr1, adsr2)
             [] w.phase = "sustain" /\ Bit(adsr1, 7) -> Sustain(w, adsr2)
  IN [n EXCEPT !.envx = n.env \div 16]

(***************************************************************************)
(* Keys, noise and playback.                                               *)
(***************************************************************************)
StepNoise(lfsr) ==
  (lfsr \div 2) + (IF Bit(lfsr, 0) = Bit(lfsr, 1) THEN 0 ELSE 16384)
Noise(d) ==
  LET rate == Reg(d, FLG) % 32
  IN IF rate = 0 THEN d
     ELSE IF d.noiseTick + 1 < Period(rate) THEN [d EXCEPT !.noiseTick = @ + 1]
     ELSE [d EXCEPT !.noiseTick = 0, !.lfsr = StepNoise(@)]

KeyedOn(d, v, mem) ==
  LET entry == W16(256 * Reg(d, \H5D) + 4 * VoiceReg(d, v, 4))
      address(a) == Word(Peek(mem, a), Peek(mem, a + 1))
  IN [Silent EXCEPT !.addr = address(entry), !.loopAddr = address(entry + 2),
                    !.phase = "attack", !.active = TRUE, !.konDelay = 5,
                    !.envx = d.voice[v].envx, !.outx = d.voice[v].outx]
KeyedOff(w) == IF w.phase = "off" THEN w ELSE [w EXCEPT !.phase = "release"]
ResetVoice(w) == [w EXCEPT !.env = 0, !.phase = "off", !.active = FALSE]

\* The reset bit silences every voice, and the keys pressed meanwhile are lost.
HandleKonKof(d, mem) ==
  LET reset == On(d, FLG, 7)
      keyed == IF reset THEN {} ELSE {v \in Voices : On(d, KON, v)}
      Handled(v) == CASE reset -> ResetVoice(d.voice[v])
                      [] v \in keyed -> KeyedOn(d, v, mem)
                      [] ~reset /\ v \notin keyed /\ On(d, KOF, v) -> KeyedOff(d.voice[v])
                      [] OTHER -> d.voice[v]
  IN [d EXCEPT !.voice = [v \in Voices |-> Handled(v)], !.endx = @ \ keyed,
               !.regs = Poke(Poke(@, KON, 0), ENDX, EndxByte(d.endx \ keyed))]

\* A voice that is silent after this sample: its output is 0 and it modulates nothing.
Quiet(w) == [w EXCEPT !.envx = 0, !.outx = 0]
EndsHere(w) == w.end /\ ~w.loop

\* The five samples after a key-on; the first block is decoded at the last of them.
Delayed(w, mem) ==
  LET n == [w EXCEPT !.konDelay = @ - 1]
      Started(first) ==
        IF EndsHere(first) THEN [first EXCEPT !.active = FALSE, !.phase = "off"] ELSE first
  IN IF w.konDelay > 1 THEN n ELSE Started(DecodeNext(n, mem))

\* One sample further: at the end of a block the next one, the loop, or silence.
NextSample(w, mem) ==
  IF ~w.active THEN w
  ELSE IF w.offset < 15 THEN [w EXCEPT !.offset = @ + 1]
  ELSE IF EndsHere(w)
       THEN [w EXCEPT !.offset = 0, !.active = FALSE, !.phase = "off", !.env = 0]
  ELSE DecodeNext([w EXCEPT !.offset = 0, !.addr = IF w.end THEN w.loopAddr ELSE @], mem)

Modulated(d, v, prev) ==
  LET pitch == Pitch(d, v)
  IN IF v > 0 /\ On(d, \H2D, v)
     THEN Clamp(pitch + ((pitch * (prev \div 16)) \div 2048), 0, 16383)
     ELSE pitch

\* The counter advances by the pitch, and playback by its carries.
Played(w, pitch, mem) ==
  LET total == w.pitch + pitch
      step[i \in 0..4] == IF i = 0 THEN [w EXCEPT !.pitch = total % 4096]
                          ELSE NextSample(step[i - 1], mem)
  IN step[total \div 4096]
PassesEnd(w, pitch) == w.end /\ w.offset + ((w.pitch + pitch) \div 4096) >= 16

\* Voice v for one sample, after the output prev of the voice below: its new state, its
\* output, and whether it ran over the end of its sample.
Silenced(w, ended) == [w |-> Quiet(w), out |-> 0, ended |-> ended]
Heard(d, v, w, ended) ==
  LET raw == IF On(d, \H3D, v) THEN Signed16(2 * d.lfsr) ELSE Interpolated(w)
      out == Even(Clamp16((raw * w.env) \div 2048))
  IN [w |-> [w EXCEPT !.outx = out \div 256], out |-> out, ended |-> ended]
StepVoice(d, v, prev, mem) ==
  LET w == d.voice[v]
      pitch == Modulated(d, v, prev)
      Keyed(n) == Silenced(n, ~n.active)
      Sounding(n) == IF n.active THEN Heard(d, v, StepEnvelope(d, v, n), PassesEnd(w, pitch))
                     ELSE Silenced(n, TRUE)
  IN CASE ~w.active -> Silenced(w, FALSE)
       [] w.active /\ w.konDelay > 0 -> Keyed(Delayed(w, mem))
       [] w.active /\ w.konDelay = 0 -> Sounding(Played(w, pitch, mem))

(***************************************************************************)
(* The echo: a delay line of EDL units behind a filter of eight taps, kept *)
(* in buffers of its own and copied to the memory at ESA.                  *)
(***************************************************************************)
EchoSize(d) == LET edl == Reg(d, \H7D) % 16 IN IF edl = 0 THEN 1 ELSE edl * EchoUnit

Fir(d, hist) ==
  LET sum[i \in 0..8] == IF i = 8 THEN 0
                         ELSE hist[(d.firPos + i) % 8] * SReg(d, 16 * i + 15) + sum[i + 1]
  IN Clamp16(sum[0] \div 128)

EchoBytes(d, l, r) ==
  LET base == 256 * Reg(d, \H6D) + 4 * d.echoPos
      bytes == <<W8(l), W8(l \div 256), W8(r), W8(r \div 256)>>
  IN [a \in {W16(base + i) : i \in 0..3} |-> bytes[((a - base) % 65536) + 1]]

\* What the echo does with the sums of the voices that feed it.
Echo(d, inL, inR, mem) ==
  LET place == d.echoPos % EchoSize(d)
      histL == [d.histL EXCEPT ![d.firPos] = Peek(d.echoL, place)]
      histR == [d.histR EXCEPT ![d.firPos] = Peek(d.echoR, place)]
      fed(in, hist) == Even(Clamp16(in + ((Fir(d, hist) * SReg(d, 13)) \div 128)))
      l == fed(inL, histL)
      r == fed(inR, histR)
      n == [d EXCEPT !.histL = histL, !.histR = histR, !.firPos = (@ + 1) % 8,
                     !.echoPos = (@ + 1) % EchoSize(d)]
  IN IF On(d, FLG, 5) THEN [d |-> n, mem |-> mem]
     ELSE [d |-> [n EXCEPT !.echoL = Poke(@, place, l), !.echoR = Poke(@, place, r)],
           mem |-> EchoBytes(d, l, r) @@ mem]

\* The voices one after the other; each sees the output of the one below.
MixVoices(d, mem) ==
  LET Fed(v, out, sum, volume) ==
        IF On(d, FLG, 6) \/ ~On(d, \H4D, v) THEN sum
        ELSE Clamp16(sum + ((out * SReg(d, 16 * v + volume)) \div 128))
      With(below, v, one) ==
        [d |-> [below.d EXCEPT !.voice[v] = one.w,
                               !.endx = IF one.ended THEN @ \cup {v} ELSE @],
         prev |-> one.out,
         l |-> Fed(v, one.out, below.l, 0), r |-> Fed(v, one.out, below.r, 1)]
      Mixed(below, v) == With(below, v, StepVoice(d, v, below.prev, mem))
      mix[n \in 0..Cardinality(Voices)] ==
        IF n = 0 THEN [d |-> d, prev |-> 0, l |-> 0, r |-> 0] ELSE Mixed(mix[n - 1], n - 1)
  IN mix[Cardinality(Voices)]

StepSample(d, mem) ==
  LET Shown(echoed, endx) ==
        [echoed EXCEPT !.d.regs = Poke(@, ENDX, EndxByte(endx))]
      Echoed(mixed) == Shown(Echo(mixed.d, mixed.l, mixed.r, mem), mixed.d.endx)
  IN Echoed(MixVoices(Noise(HandleKonKof(d, mem)), mem))
=============================================================================

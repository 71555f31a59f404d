------------------------------ MODULE LiveLoop ------------------------------
(***************************************************************************)
(* The live loop of the interactive recorder as its devices see it         *)
(* (record.rs run_interactive): the gamepad whose events arrive at any     *)
(* time, the audio device that takes samples on a thread of its own, the   *)
(* frame pacing, and the notes about drained queues.  What the loop        *)
(* records is module Recorder.                                             *)
(*                                                                         *)
(* A callback that finds the queue locked plays a buffer of silence and    *)
(* takes nothing: a stuttering step of this model.                         *)
(***************************************************************************)
EXTENDS AudioSink, TLC

CONSTANTS Replayed,     \* pairs the replay of a resumed session produced
          FramePairs,   \* how many pairs a frame may produce
          BufferFrames, \* frames of the device's buffer
          PadEvents,    \* the gamepad's events, in their order
          Keys,         \* sets of keys that may be down
          Works,        \* an iteration's work: its ticks, and whether it prompted
          FramePeriod, PaceResync, DiagInterval, SlowFrame,
          MaxFrames     \* bound: frames of a session

ASSUME LoopAssumption ==
  /\ Replayed \in Nat /\ MaxFrames \in Nat
  /\ \A t \in {FramePeriod, PaceResync, DiagInterval, SlowFrame} : t \in Nat \ {0}
  /\ Works \subseteq Nat \X BOOLEAN
  /\ PadEvents \in Seq(Range(PadEvents)) /\ \A e \in Range(PadEvents) : e.value \in Int
  \* A 60th of 32000 pairs a second, and a ring of 4096.
  /\ FramePairs \subseteq 0..RingCap /\ BufferFrames \subseteq Nat

-----------------------------------------------------------------------------
(* The evdev gamepad (gamepad.rs) and the keyboard beside it (record.rs    *)
(* build_pad).  A pad word is the set of its bits.  Events come as bytes;  *)
(* a read may end inside one.  Half an event stands for any part of it.    *)

(* The bit of each key code, both layouts, the lower triggers folded.      *)
ButtonBit ==
  [code \in ((288..297) \cup (304..315)) \ {306, 309} |->
     IF code \in {304, 289} THEN 0 ELSE IF code \in {305, 290} THEN 1
     ELSE IF code \in {307, 288} THEN 2 ELSE IF code \in {308, 291} THEN 3
     ELSE IF code \in {310, 312, 292, 294} THEN 4 ELSE IF code \in {311, 313, 293, 295} THEN 5
     ELSE IF code \in {315, 297} THEN 10 ELSE 11]

Event(type, code, value) == [type |-> type, code |-> code, value |-> value]
Sign(n) == IF n > 0 THEN 1 ELSE IF n < 0 THEN -1 ELSE 0

ABS_HAT0X == 16
ABS_HAT0Y == 17

NoPad == [buttons |-> {}, hatX |-> 0, hatY |-> 0]

Apply(pad, e) ==
  IF e.type = "EV_KEY" /\ e.code \in DOMAIN ButtonBit
  THEN [pad EXCEPT !.buttons = IF e.value = 0 THEN @ \ {ButtonBit[e.code]}
                               ELSE @ \cup {ButtonBit[e.code]}]
  ELSE IF e.type = "EV_ABS" /\ e.code = ABS_HAT0X THEN [pad EXCEPT !.hatX = Sign(e.value)]
  ELSE IF e.type = "EV_ABS" /\ e.code = ABS_HAT0Y THEN [pad EXCEPT !.hatY = Sign(e.value)]
  ELSE pad

\* The events after the first, up to the last, applied in their order.
Applied(pad, events, first, last) ==
  LET after[i \in first..last] ==
        IF i = first THEN pad ELSE Apply(after[i - 1], events[i])
  IN  IF first <= last THEN after[last] ELSE pad

\* Mutant: what is left of a read that ends inside an event is forgotten.
FeedForgets(pad, events, from, to) == Applied(pad, events, (from + 1) \div 2, to \div 2)

(* The halves after from and up to to of the events are fed: the events    *)
(* they complete are applied.  An odd to leaves half an event in partial.  *)
Feed(pad, events, from, to) == Applied(pad, events, from \div 2, to \div 2)

PadBits(pad) ==
  pad.buttons \cup (IF pad.hatY < 0 THEN {6} ELSE IF pad.hatY > 0 THEN {7} ELSE {})
              \cup (IF pad.hatX < 0 THEN {8} ELSE IF pad.hatX > 0 THEN {9} ELSE {})

(* The keyboard's bits.                                                    *)
KeyBit == "X" :> 0 @@ "Z" :> 1 @@ "A" :> 2 @@ "S" :> 3 @@ "Q" :> 4 @@ "W" :> 5 @@ "Up" :> 6
          @@ "Down" :> 7 @@ "Left" :> 8 @@ "Right" :> 9 @@ "Enter" :> 10 @@ "RightShift" :> 11
BuildPad(keys) == {KeyBit[k] : k \in keys}

-----------------------------------------------------------------------------
VARIABLES pc,       \* where the loop is
          frame,    \* frames run
          made,     \* pairs produced so far
          ring,     \* the capture ring
          sink,     \* the audio sink
          device,   \* the buffer the device has just played
          heard,    \* the last sample it played that was not silence
          pad,      \* decoded events; dead: a read has failed
          sent, fed,\* events the kernel has, and half events read
          word,     \* the pad word of this frame
          keys,     \* the keys it was built from
          time,     \* now, the deadline, and what the prompt did to the iteration
          note,     \* the reporter and the statistics window
          told      \* the notes printed: when, and how many drains they stand for

audio == <<made, ring, sink>>
speaker == <<device, heard>>
input == <<pad, sent, fed, word, keys>>
vars == <<pc, frame, audio, speaker, input, time, note, told>>

NoTime == -1
Running == pc \notin {"closed", "faulted"}

Init ==
  /\ pc = "discard" /\ frame = 0
  /\ made = Replayed /\ ring = Produced(EmptyRing, 1, Replayed)
  /\ sink = OpenSink
  /\ device = <<>> /\ heard = Silence
  /\ pad = [state |-> NoPad, dead |-> FALSE] /\ sent = 0 /\ fed = 0
  /\ word = {} /\ keys = {}
  /\ time = [now |-> 0, deadline |-> FramePeriod, start |-> 0, prompt |-> FALSE, prompted |-> FALSE]
  /\ note = [last |-> NoTime, suppressed |-> 0, before |-> 0, afterPrompt |-> 0,
             since |-> 0, frames |-> 0, slow |-> 0, base |-> 0]
  /\ told = <<>>

-----------------------------------------------------------------------------
(* What the replay left in the ring is thrown away, a buffer at a time.    *)
DiscardReplay ==
  /\ pc = "discard"
  /\ pc' = IF ring.pairs = <<>> THEN "input" ELSE pc
  /\ ring' = AfterDrain(ring)
  /\ UNCHANGED <<frame, made, sink, speaker, input, time, note, told>>

(* The loop's head: Esc ends it; otherwise the keyboard is read.           *)
StartFrame ==
  /\ pc = "input" /\ frame < MaxFrames
  /\ keys' \in Keys
  /\ pc' = IF pad.dead THEN "emulate" ELSE "poll"
  /\ word' = BuildPad(keys')
  /\ time' = [time EXCEPT !.start = time.now, !.prompt = FALSE]
  /\ UNCHANGED <<frame, audio, speaker, pad, sent, fed, note, told>>

Escape ==
  /\ pc = "input"
  /\ pc' = "closed"
  /\ UNCHANGED <<frame, audio, speaker, input, time, note, told>>

(* Gamepad::poll reads until nothing is left or a read fails.              *)
ReadEvents(n) ==
  /\ pc = "poll" /\ fed + n <= 2 * sent
  /\ pad' = [pad EXCEPT !.state = Feed(@, PadEvents, fed, fed + n)]
  /\ fed' = fed + n
  /\ UNCHANGED <<pc, frame, audio, speaker, sent, word, keys, time, note, told>>

WouldBlock ==
  /\ pc = "poll" /\ fed = 2 * sent
  /\ word' = word \cup PadBits(pad.state)
  /\ pc' = "emulate"
  /\ UNCHANGED <<frame, audio, speaker, pad, sent, fed, keys, time, note, told>>

ReadFails ==
  /\ pc = "poll"
  /\ pad' = [pad EXCEPT !.dead = TRUE]
  /\ pc' = "emulate"
  /\ UNCHANGED <<frame, audio, speaker, sent, fed, word, keys, time, note, told>>

RunOneFrame(pairs) ==
  /\ pc = "emulate"
  /\ ring' = Produced(ring, made + 1, pairs)
  /\ made' = made + pairs
  /\ pc' = "drain"
  /\ note' = [note EXCEPT !.before = sink.reprimes]
  /\ UNCHANGED <<frame, sink, speaker, input, time, told>>

(* The ring is drained into the sink, a buffer at a time.                  *)
PushPrimes ==
  /\ pc = "drain" /\ ring.pairs # <<>>
  /\ sink' = Primed(sink, DrainAudio(ring))
  /\ ring' = AfterDrain(ring)
  /\ pc' = "extend"
  /\ UNCHANGED <<frame, made, speaker, input, time, note, told>>

PushExtends ==
  /\ pc = "extend"
  /\ sink' = Extended(sink)
  /\ pc' = "drain"
  /\ UNCHANGED <<frame, made, ring, speaker, input, time, note, told>>

Drained ==
  /\ pc = "drain" /\ ring.pairs = <<>>
  /\ pc' = "hotkeys"
  /\ UNCHANGED <<frame, audio, speaker, input, time, note, told>>

(* A fault of this frame ends the loop after its sound was queued.         *)
Fault ==
  /\ pc = "drain" /\ ring.pairs = <<>>
  /\ pc' = "faulted"
  /\ UNCHANGED <<frame, audio, speaker, input, time, note, told>>

(* The rest of the work: the line, the picture, and F5's blocking prompt.  *)
Work(work) ==
  /\ pc = "hotkeys"
  /\ time' = [time EXCEPT !.now = @ + work[1], !.prompt = work[2]]
  /\ frame' = frame + 1
  /\ pc' = "diagnose"
  /\ UNCHANGED <<audio, speaker, input, note, told>>

-----------------------------------------------------------------------------
(* The notes about drained queues, one per interval.                       *)
Allowed == note.last = NoTime \/ time.now - note.last >= DiagInterval

\* Mutant: drains that are not told are forgotten.
SuppressedForgets(count) == IF count > 0 /\ Allowed THEN 0 ELSE note.suppressed

(* The drains held back: a printed note tells of them all.                 *)
Suppressed(count) ==
  IF count > 0 /\ Allowed THEN 0 ELSE note.suppressed + count

(* StatsWindow.record and maybe_line, and the baselines of the window.     *)
Recorded ==
  LET cost == time.now - time.start
      frames == note.frames + 1
      due == time.now - note.since >= DiagInterval
  IN  [slow |-> note.slow + (IF ~time.prompt /\ cost > SlowFrame THEN 1 ELSE 0),
       frames |-> IF due THEN 0 ELSE frames,
       since |-> IF due THEN time.now ELSE note.since,
       base |-> IF due THEN sink.reprimes ELSE note.base,
       due |-> due]

Diagnose ==
  LET count == sink.reprimes - note.before
      now == Recorded
  IN  /\ pc = "diagnose"
      /\ note' = [note EXCEPT
                    !.last = IF count > 0 /\ Allowed THEN time.now ELSE @,
                    !.suppressed = Suppressed(count),
                    !.afterPrompt = @ + (IF time.prompted THEN count ELSE 0),
                    !.slow = now.slow, !.frames = now.frames,
                    !.since = now.since, !.base = now.base]
      /\ told' = IF count > 0 /\ Allowed
                 THEN Append(told, <<time.now, count + note.suppressed>>) ELSE told
      /\ sink' = IF now.due THEN [sink EXCEPT !.minDepth = sink.lastDepth] ELSE sink
      /\ time' = [time EXCEPT !.prompted = time.prompt]
      /\ pc' = "pace"
      /\ UNCHANGED <<frame, made, ring, speaker, input>>

(* The loop waits for the deadline; far behind, it starts the cadence anew.*)
AdvanceDeadline(deadline, now) ==
  IF now - deadline >= PaceResync THEN now + FramePeriod ELSE deadline + FramePeriod

Pace ==
  LET now == IF time.now < time.deadline THEN time.deadline ELSE time.now
  IN  /\ pc = "pace"
      /\ time' = [time EXCEPT !.now = now, !.deadline = AdvanceDeadline(time.deadline, now)]
      /\ pc' = "input"
      /\ UNCHANGED <<frame, audio, speaker, input, note, told>>

-----------------------------------------------------------------------------
(* The other threads.                                                      *)
Callback(frames) ==
  LET out == Played(sink.queue, frames)
      sounds == {f \in 1..frames : out[f][1] # Silence}
  IN  /\ Running /\ sink.queue # <<>>
      /\ device' = out
      /\ heard' = IF sounds = {} THEN heard
                  ELSE out[CHOOSE f \in sounds : \A g \in sounds : g <= f][1]
      /\ sink' = [sink EXCEPT !.queue = AfterPlay(@, frames)]
      /\ UNCHANGED <<pc, frame, made, ring, input, time, note, told>>

KernelSends ==
  /\ Running /\ sent < Len(PadEvents)
  /\ sent' = sent + 1
  /\ UNCHANGED <<pc, frame, audio, speaker, pad, fed, word, keys, time, note, told>>

Next ==
  \/ DiscardReplay \/ StartFrame \/ Escape \/ WouldBlock \/ ReadFails
  \/ \E n \in 1..(2 * Len(PadEvents)) : ReadEvents(n)
  \/ \E pairs \in FramePairs : RunOneFrame(pairs)
  \/ PushPrimes \/ PushExtends \/ Drained \/ Fault
  \/ \E work \in Works : Work(work)
  \/ Diagnose \/ Pace
  \/ \E frames \in BufferFrames : Callback(frames)
  \/ KernelSends

Spec == Init /\ [][Next]_vars

-----------------------------------------------------------------------------
(* One stream, without a seam: between two calls of push, two buffers of   *)
(* the ring or two frames, the next sample is one step of the ratio after  *)
(* the last, between neighbouring pairs of the generator; the device hears *)
(* it in order and misses samples only by a cut at the high watermark; it  *)
(* never hears a pair of the replay; and every frame it plays is silence   *)
(* or the left and right sample of one place, whatever callbacks, primings *)
(* and cuts came before (audio.rs: a trim can never break L/R alignment).  *)
At(sample) == sample[2] * Unit + sample[4]
Sounding(samples) == {i \in DOMAIN samples : samples[i][1] = "L"}
OneStep(d) == d >= InRate * LowWatermark * (SlewDen - 1) /\ d <= InRate * LowWatermark * (SlewDen + 1)
InStep(f) ==
  \/ device[f] = <<Silence, Silence>>
  \/ device[f][1][1] = "L" /\ device[f][2] = <<"R">> \o Tail(device[f][1])
OneStream ==
  LET coming == sink.queue \o sink.waiting
      sounds == Sounding(coming)
      before(i) == {j \in sounds : j < i}
  IN  /\ \A f \in DOMAIN device : InStep(f)
      /\ \A i \in sounds : coming[i][2] > Replayed /\ coming[i][3] = coming[i][2] + 1
      /\ \A i \in sounds : \A j \in before(i) :
           before(i) \subseteq 1..j => OneStep(At(coming[i]) - At(coming[j]))
      /\ \A i \in sounds :
           before(i) = {} /\ heard # Silence =>
             LET d == At(coming[i]) - At(heard)
             IN  IF sink.drops = 0 THEN OneStep(d) ELSE d > 0

(* A frame runs on what is pressed: its word has a bit of the gamepad when *)
(* the last of the bit's events that had arrived by the end of the poll is *)
(* a press, or the hat points there, however the reads cut the bytes; a    *)
(* gamepad that failed holds nothing down (gamepad.rs poll).               *)
LastOf(events) == CHOOSE i \in events : \A j \in events : j <= i
PressedNow(b) ==
  LET events == {i \in 1..sent : /\ PadEvents[i].type = "EV_KEY"
                                 /\ PadEvents[i].code \in DOMAIN ButtonBit
                                 /\ ButtonBit[PadEvents[i].code] = b}
  IN  events # {} /\ PadEvents[LastOf(events)].value # 0
HatNow(code) ==
  LET events == {i \in 1..sent : PadEvents[i].type = "EV_ABS" /\ PadEvents[i].code = code}
  IN  IF events = {} THEN 0 ELSE PadEvents[LastOf(events)].value
HatBits ==
  {b \in 6..9 : \/ b = 6 /\ HatNow(ABS_HAT0Y) < 0
                \/ b = 7 /\ HatNow(ABS_HAT0Y) > 0
                \/ b = 8 /\ HatNow(ABS_HAT0X) < 0
                \/ b = 9 /\ HatNow(ABS_HAT0X) > 0}
WordIsWhatIsPressed ==
  [][(pc = "poll" /\ pc' = "emulate") =>
       word' = BuildPad(keys) \cup
               (IF pad'.dead THEN {} ELSE {b \in 0..11 : PressedNow(b)} \cup HatBits)]_vars

(* Every drain is told, and not too often: the notes printed and those     *)
(* held back are all the primings of the frames before this one, and two   *)
(* notes are an interval apart (record.rs ReprimeReporter).                *)
Untold == IF pc \in {"drain", "extend", "hotkeys", "diagnose", "faulted"}
          THEN sink.reprimes - note.before ELSE 0
DrainsIn(notes) ==
  LET sum[i \in 0..Len(notes)] == IF i = 0 THEN 0 ELSE sum[i - 1] + notes[i][2]
  IN  sum[Len(notes)]
DrainsTold ==
  /\ DrainsIn(told) + note.suppressed + Untold = sink.reprimes
  /\ \A i \in 2..Len(told) : told[i][1] - told[i - 1][1] >= DiagInterval
=============================================================================

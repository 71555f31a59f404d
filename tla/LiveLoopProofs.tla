--------------------------- MODULE LiveLoopProofs ---------------------------
(***************************************************************************)
(* What the live loop keeps for its devices, whatever the speaker, the     *)
(* gamepad and the clock do: one stream of sound, every drain told, and a  *)
(* pad word that is what is pressed.                                       *)
(***************************************************************************)
EXTENDS LiveLoop, NaturalsInduction, WellFoundedInduction, SequenceTheorems, TLAPS

-----------------------------------------------------------------------------
(* Induction in the form the provers can use: on a set of numbers instead  *)
(* of a predicate, from the well-foundedness of <.                         *)

\* A set of naturals that is not empty has a least element.
LEMMA Least ==
  ASSUME NEW T \in SUBSET Nat, T # {}
  PROVE  \E x \in T : \A y \in T : x <= y
<1> DEFINE R == OpToRel(<, Nat)
<1>1. R = {ss \in Nat \X Nat : ss[1] < ss[2]}
  BY Zenon DEF OpToRel
<1>2. IsWellFoundedOn(R, Nat)
  BY NatLessThanWellFounded
<1> HIDE DEF R
<1>3. PICK x \in T : \A y \in T : <<y, x>> \notin R
  BY <1>2, WFMin
<1>4. ASSUME NEW y \in T, y < x PROVE FALSE
  <2>1. <<y, x>> \in Nat \X Nat
    OBVIOUS
  <2>2. QED
    BY <1>1, <1>3, <1>4, <2>1
<1>5. QED
  BY <1>4

\* A bounded set of naturals that is not empty has a greatest element.
LEMMA Greatest ==
  ASSUME NEW n \in Nat, NEW T \in SUBSET (0..n), T # {}
  PROVE  \E x \in T : \A y \in T : y <= x
<1> DEFINE U == {k \in Nat : \A y \in T : y <= k}
<1>1. U \in SUBSET Nat /\ n \in U
  OBVIOUS
<1>2. PICK x \in U : \A y \in U : x <= y
  <2> HIDE DEF U
  <2>1. QED
    BY <1>1, Least
<1>3. x \in T
  <2> SUFFICES ASSUME x \notin T PROVE FALSE
    OBVIOUS
  <2>1. PICK y \in T : TRUE
    OBVIOUS
  <2>2. y <= x /\ y # x /\ y \in Nat
    BY <1>2, <2>1
  <2>3. x - 1 \in U
    BY <1>2, <2>2
  <2>4. QED
    BY <1>2, <2>3
<1>4. QED
  BY <1>2, <1>3

\* A set with 0 in it, and with n + 1 whenever n is, holds every natural number.
LEMMA Up ==
  ASSUME NEW T, 0 \in T, \A n \in Nat : n \in T => n + 1 \in T
  PROVE  \A n \in Nat : n \in T
<1> SUFFICES ASSUME NEW k \in Nat, k \notin T PROVE FALSE
  OBVIOUS
<1> DEFINE U == {n \in Nat : n \notin T}
<1>1. PICK m \in U : \A y \in U : m <= y
  <2>1. U \in SUBSET Nat /\ U # {}
    OBVIOUS
  <2> HIDE DEF U
  <2>2. QED
    BY <2>1, Least
<1>2. m - 1 \in Nat /\ m - 1 \notin U
  BY <1>1
<1>3. QED
  BY <1>1, <1>2

-----------------------------------------------------------------------------
IsSeq(s) == s \in Seq(Range(s))

(* The records of the loop.                                                *)
SinkTyped ==
  /\ sink = [queue |-> sink.queue, res |-> sink.res, waiting |-> sink.waiting,
             drops |-> sink.drops, reprimes |-> sink.reprimes,
             lastDepth |-> sink.lastDepth, minDepth |-> sink.minDepth]
  /\ sink.drops \in Nat /\ sink.reprimes \in Nat
NoteTyped ==
  /\ note = [last |-> note.last, suppressed |-> note.suppressed, before |-> note.before,
             afterPrompt |-> note.afterPrompt, since |-> note.since, frames |-> note.frames,
             slow |-> note.slow, base |-> note.base]
  /\ note.last \in Nat \cup {NoTime} /\ note.suppressed \in Nat /\ note.before \in Nat
TimeTyped ==
  /\ time = [now |-> time.now, deadline |-> time.deadline, start |-> time.start,
             prompt |-> time.prompt, prompted |-> time.prompted]
  /\ time.now \in Nat /\ time.deadline \in Nat
TypeOK ==
  /\ pc \in {"discard", "input", "poll", "emulate", "drain", "extend", "hotkeys",
             "diagnose", "pace", "closed", "faulted"}
  /\ SinkTyped /\ NoteTyped /\ TimeTyped

-----------------------------------------------------------------------------
(* The notes: what they and those held back stand for, and when the last   *)
(* one was printed.                                                        *)
IsNotes(notes) ==
  /\ notes \in Seq(Nat \X Nat)
  /\ \A i \in 2..Len(notes) : notes[i][1] - notes[i - 1][1] >= DiagInterval

NoteInv ==
  /\ IsNotes(told)
  /\ note.last = IF told = <<>> THEN NoTime ELSE told[Len(told)][1]
  /\ note.last <= time.now
  /\ note.before <= sink.reprimes
  /\ DrainsIn(told) \in Nat
  /\ DrainsIn(told) + note.suppressed + Untold = sink.reprimes

IsSum(f, notes, n) == f = [i \in 0..n |-> IF i = 0 THEN 0 ELSE f[i - 1] + notes[i][2]]

LEMMA SumExists ==
  ASSUME NEW notes
  PROVE  \A n \in Nat : \E f : IsSum(f, notes, n)
<1> DEFINE T == {n \in Nat : \E f : IsSum(f, notes, n)}
<1>1. 0 \in T
  <2>1. IsSum([i \in 0..0 |-> 0], notes, 0)
    BY DEF IsSum
  <2>2. QED
    BY <2>1
<1>2. ASSUME NEW n \in Nat, n \in T PROVE n + 1 \in T
  <2>1. PICK f : IsSum(f, notes, n)
    BY <1>2
  <2>2. PICK z : z = f[n] + notes[n + 1][2]
    OBVIOUS
  <2>3. PICK g : g = [i \in 0..(n + 1) |-> IF i = n + 1 THEN z ELSE f[i]]
    OBVIOUS
  <2>4. ASSUME NEW i \in 0..(n + 1)
        PROVE  g[i] = IF i = 0 THEN 0 ELSE g[i - 1] + notes[i][2]
    <3>1. CASE i = n + 1
      <4>1. n \in 0..(n + 1) /\ n # n + 1 /\ i - 1 = n /\ i # 0
        BY <3>1
      <4>2. g[n] = f[n] /\ g[i] = z
        BY <2>3, <3>1, <4>1
      <4>3. QED
        BY <2>2, <3>1, <4>1, <4>2
    <3>2. CASE i # n + 1
      <4>1. i \in 0..n /\ (i # 0 => i - 1 \in 0..(n + 1) /\ i - 1 # n + 1)
        BY <3>2
      <4>2. f[i] = IF i = 0 THEN 0 ELSE f[i - 1] + notes[i][2]
        BY <2>1, <4>1 DEF IsSum
      <4>3. g[i] = f[i] /\ (i # 0 => g[i - 1] = f[i - 1])
        BY <2>3, <3>2, <4>1
      <4>4. QED
        BY <4>2, <4>3
    <3>3. QED
      BY <3>1, <3>2
  <2>5. IsSum(g, notes, n + 1)
    BY <2>3, <2>4 DEF IsSum
  <2>6. QED
    BY <2>5
<1> HIDE DEF T
<1>3. \A n \in Nat : n \in T
  BY <1>1, <1>2, Up
<1>4. QED
  BY <1>3 DEF T

LEMMA DrainsInIs ==
  ASSUME NEW notes, Len(notes) \in Nat
  PROVE  \E f : IsSum(f, notes, Len(notes)) /\ DrainsIn(notes) = f[Len(notes)]
<1>1. PICK n \in Nat : n = Len(notes)
  OBVIOUS
<1>2. \E f : IsSum(f, notes, n)
  BY SumExists
<1>3. DEFINE f == CHOOSE f : f = [i \in 0..n |-> IF i = 0 THEN 0 ELSE f[i - 1] + notes[i][2]]
<1>4. IsSum(f, notes, n)
  BY <1>2 DEF IsSum
<1>5. DrainsIn(notes) = f[n]
  BY <1>1 DEF DrainsIn
<1>6. QED
  BY <1>1, <1>4, <1>5

\* Two such sums agree as far as their notes do.
LEMMA SumsAgree ==
  ASSUME NEW some, NEW more, NEW n \in Nat, NEW m \in Nat, n <= m,
         \A i \in 1..n : some[i] = more[i],
         NEW f, IsSum(f, some, n), NEW g, IsSum(g, more, m)
  PROVE  f[n] = g[n]
<1> DEFINE T == {i \in Nat : i <= n => f[i] = g[i]}
<1>1. 0 \in T
  <2>1. 0 \in 0..n /\ 0 \in 0..m
    OBVIOUS
  <2>2. QED
    BY <2>1 DEF IsSum
<1>2. ASSUME NEW i \in Nat, i \in T PROVE i + 1 \in T
  <2>1. SUFFICES ASSUME i + 1 <= n PROVE f[i + 1] = g[i + 1]
    OBVIOUS
  <2>2. i + 1 \in 0..n /\ i + 1 \in 0..m /\ i + 1 \in 1..n /\ i + 1 # 0 /\ (i + 1) - 1 = i
    BY <2>1
  <2>3. f[i + 1] = f[i] + some[i + 1][2] /\ g[i + 1] = g[i] + more[i + 1][2]
    BY <2>2 DEF IsSum
  <2>4. f[i] = g[i]
    BY <1>2, <2>1
  <2>5. QED
    BY <2>2, <2>3, <2>4
<1> HIDE DEF T
<1>3. n \in T
  BY <1>1, <1>2, Up
<1>4. QED
  BY <1>3 DEF T

LEMMA NoDrains == DrainsIn(<<>>) = 0
<1>1. Len(<<>>) = 0
  OBVIOUS
<1>2. PICK f : IsSum(f, <<>>, 0) /\ DrainsIn(<<>>) = f[0]
  BY <1>1, DrainsInIs
<1>3. QED
  BY <1>2 DEF IsSum

LEMMA OneMoreNote ==
  ASSUME NEW notes \in Seq(Nat \X Nat), NEW last
  PROVE  DrainsIn(Append(notes, last)) = DrainsIn(notes) + last[2]
<1>1. PICK n \in Nat : n = Len(notes)
  OBVIOUS
<1>2. PICK more : more = Append(notes, last)
  OBVIOUS
<1>3. Len(more) = n + 1 /\ more[n + 1] = last /\ \A i \in 1..n : notes[i] = more[i]
  BY <1>1, <1>2
<1>4. PICK f : IsSum(f, notes, n) /\ DrainsIn(notes) = f[n]
  BY <1>1, DrainsInIs
<1>5. PICK g : IsSum(g, more, n + 1) /\ DrainsIn(more) = g[n + 1]
  BY <1>3, DrainsInIs
<1>6. f[n] = g[n]
  BY <1>3, <1>4, <1>5, SumsAgree
<1>7. g[n + 1] = g[n] + more[n + 1][2]
  <2>1. n + 1 \in 0..(n + 1) /\ n + 1 # 0 /\ (n + 1) - 1 = n
    OBVIOUS
  <2>2. QED
    BY <1>5, <2>1 DEF IsSum
<1>8. QED
  BY <1>2, <1>3, <1>4, <1>5, <1>6, <1>7

-----------------------------------------------------------------------------
(* The steps, as the sink and the notes see them.                          *)
PrimedQueue == IF Len(sink.queue) = 0 THEN Hush(LowWatermark) ELSE sink.queue
Ahead(chunk) == Resampled([sink.res EXCEPT !.ratio = RateFor(Len(PrimedQueue))], chunk)

LEMMA PrimedIs ==
  ASSUME SinkTyped, NEW chunk
  PROVE  \E some \in {0, 1} : \E least :
           Primed(sink, chunk) =
             [queue |-> PrimedQueue, res |-> Ahead(chunk).next, waiting |-> Ahead(chunk).out,
              drops |-> sink.drops, reprimes |-> sink.reprimes + some,
              lastDepth |-> sink.lastDepth, minDepth |-> least]
<1>1. PICK raw : raw = Len(sink.queue)
  OBVIOUS
<1>2. PICK q, a : q = PrimedQueue /\ a = Ahead(chunk)
  OBVIOUS
<1>3. PICK some \in {0, 1} : some = IF raw = 0 THEN 1 ELSE 0
  OBVIOUS
<1>4. PICK least : least = IF raw < sink.minDepth THEN raw ELSE sink.minDepth
  OBVIOUS
<1>5. Primed(sink, chunk) =
        [sink EXCEPT !.queue = q, !.res = a.next, !.waiting = a.out,
                     !.reprimes = sink.reprimes + some, !.minDepth = least]
  BY <1>1, <1>2, <1>3, <1>4, Zenon DEF Primed, PrimedQueue, Ahead
<1>6. QED
  BY <1>2, <1>5 DEF SinkTyped

LEMMA ExtendedIs ==
  ASSUME SinkTyped, NEW longer, longer = sink.queue \o sink.waiting
  PROVE  IF sink.waiting = <<>> THEN Extended(sink) = sink
         ELSE \E last : \E cut \in {0, 1} :
                /\ cut = IF Len(longer) > HighWatermark THEN 1 ELSE 0
                /\ Extended(sink) =
                     [queue |-> ApplyWatermark(longer), res |-> sink.res, waiting |-> <<>>,
                      drops |-> sink.drops + cut, reprimes |-> sink.reprimes,
                      lastDepth |-> last, minDepth |-> sink.minDepth]
<1>1. PICK q : q = ApplyWatermark(longer)
  OBVIOUS
<1>2. PICK cut \in {0, 1} : cut = IF Len(longer) > HighWatermark THEN 1 ELSE 0
  OBVIOUS
<1>3. CASE sink.waiting # <<>>
  <2>1. Extended(sink) = [sink EXCEPT !.queue = q, !.waiting = <<>>, !.lastDepth = Len(q),
                                      !.drops = sink.drops + cut]
    BY <1>1, <1>2, <1>3, Zenon DEF Extended
  <2>2. Extended(sink) = [queue |-> q, res |-> sink.res, waiting |-> <<>>,
                          drops |-> sink.drops + cut, reprimes |-> sink.reprimes,
                          lastDepth |-> Len(q), minDepth |-> sink.minDepth]
    BY <2>1 DEF SinkTyped
  <2>3. QED
    BY <1>1, <1>2, <1>3, <2>2
<1>4. CASE sink.waiting = <<>>
  BY <1>4 DEF Extended
<1>5. QED
  BY <1>3, <1>4

LEMMA CallbackDoes ==
  ASSUME SinkTyped, NEW frames, Callback(frames)
  PROVE  sink' = [queue |-> AfterPlay(sink.queue, frames), res |-> sink.res,
                  waiting |-> sink.waiting, drops |-> sink.drops, reprimes |-> sink.reprimes,
                  lastDepth |-> sink.lastDepth, minDepth |-> sink.minDepth]
<1>1. sink' = [sink EXCEPT !.queue = AfterPlay(sink.queue, frames)]
  BY DEF Callback
<1>2. QED
  BY <1>1 DEF SinkTyped

LEMMA DiagnoseDoes ==
  ASSUME TypeOK, Diagnose
  PROVE  LET count == sink.reprimes - note.before
         IN  /\ pc = "diagnose" /\ pc' = "pace"
             /\ UNCHANGED <<frame, made, ring, speaker, input>>
             /\ count \in Nat => NoteTyped'
             /\ note'.last = IF count > 0 /\ Allowed THEN time.now ELSE note.last
             /\ note'.suppressed = Suppressed(count) /\ note'.before = note.before
             /\ told' = IF count > 0 /\ Allowed
                        THEN Append(told, <<time.now, count + note.suppressed>>) ELSE told
             /\ time' = [time EXCEPT !.prompted = time.prompt]
             /\ \E least : sink' = [sink EXCEPT !.minDepth = least]
<1>1. PICK count : count = sink.reprimes - note.before
  OBVIOUS
<1>2. count \in Int
  BY <1>1 DEF TypeOK, SinkTyped, NoteTyped
<1>3. PICK last : last = IF count > 0 /\ Allowed THEN time.now ELSE note.last
  OBVIOUS
<1>4. PICK now : now = Recorded
  OBVIOUS
<1>5. PICK after : after = note.afterPrompt + (IF time.prompted THEN count ELSE 0)
  OBVIOUS
<1>6. note' = [note EXCEPT !.last = last, !.suppressed = Suppressed(count), !.afterPrompt = after,
                           !.slow = now.slow, !.frames = now.frames, !.since = now.since,
                           !.base = now.base]
  BY <1>1, <1>3, <1>4, <1>5, Zenon DEF Diagnose
<1>7. note' = [last |-> last, suppressed |-> Suppressed(count), before |-> note.before,
               afterPrompt |-> after, since |-> now.since, frames |-> now.frames,
               slow |-> now.slow, base |-> now.base]
  BY <1>6 DEF TypeOK, NoteTyped
<1>8. last \in Nat \cup {NoTime}
  BY <1>3 DEF TypeOK, TimeTyped, NoteTyped
<1>9. count \in Nat => Suppressed(count) \in Nat
  BY DEF Suppressed, TypeOK, NoteTyped
<1>10. sink' = IF now.due THEN [sink EXCEPT !.minDepth = sink.lastDepth] ELSE sink
  BY <1>4, Zenon DEF Diagnose
<1>11. \E least : sink' = [sink EXCEPT !.minDepth = least]
  <2>1. sink = [sink EXCEPT !.minDepth = sink.minDepth]
    BY DEF TypeOK, SinkTyped
  <2>2. QED
    BY <1>10, <2>1
<1>12. count \in Nat => NoteTyped'
  BY <1>7, <1>8, <1>9 DEF TypeOK, NoteTyped
<1>13. QED
  BY <1>1, <1>3, <1>7, <1>11, <1>12 DEF Diagnose

LEMMA InitTyped == Init => TypeOK
<1>1. Init => SinkTyped
  BY DEF Init, SinkTyped, OpenSink
<1>2. Init => NoteTyped
  BY DEF Init, NoteTyped, NoTime
<1>3. Init => TimeTyped
  BY LoopAssumption DEF Init, TimeTyped
<1>4. QED
  BY <1>1, <1>2, <1>3 DEF Init, TypeOK

LEMMA TypeKept == TypeOK /\ NoteInv /\ [Next]_vars => TypeOK'
<1> SUFFICES ASSUME TypeOK, NoteInv, [Next]_vars PROVE TypeOK'
  OBVIOUS
<1> USE DEF TypeOK
<1>1. CASE \/ DiscardReplay \/ Escape \/ WouldBlock \/ ReadFails \/ Drained \/ Fault \/ KernelSends
           \/ \E n \in 1..(2 * Len(PadEvents)) : ReadEvents(n)
  <2>1. pc' \in {"discard", "input", "poll", "emulate", "hotkeys", "closed", "faulted", pc}
    BY <1>1 DEF DiscardReplay, Escape, WouldBlock, ReadFails, Drained, Fault, KernelSends, ReadEvents
  <2>2. UNCHANGED <<sink, note, time>>
    BY <1>1 DEF DiscardReplay, Escape, WouldBlock, ReadFails, Drained, Fault, KernelSends,
                ReadEvents, audio
  <2>3. QED
    BY <2>1, <2>2 DEF SinkTyped, NoteTyped, TimeTyped
<1>2. CASE StartFrame
  <2>1. pc' \in {"poll", "emulate"} /\ UNCHANGED <<sink, note>>
        /\ time' = [time EXCEPT !.start = time.now, !.prompt = FALSE]
    BY <1>2 DEF StartFrame, audio
  <2>2. TimeTyped'
    BY <2>1 DEF TimeTyped
  <2>3. QED
    BY <2>1, <2>2 DEF SinkTyped, NoteTyped
<1>3. CASE \E pairs \in FramePairs : RunOneFrame(pairs)
  <2>1. pc' = "drain" /\ UNCHANGED <<sink, time>> /\ note' = [note EXCEPT !.before = sink.reprimes]
    BY <1>3 DEF RunOneFrame
  <2>2. NoteTyped'
    BY <2>1 DEF NoteTyped, SinkTyped
  <2>3. QED
    BY <2>1, <2>2 DEF SinkTyped, TimeTyped
<1>4. CASE PushPrimes
  <2>1. pc' = "extend" /\ UNCHANGED <<note, time>> /\ sink' = Primed(sink, DrainAudio(ring))
    BY <1>4 DEF PushPrimes
  <2>2. SinkTyped'
    BY <2>1, PrimedIs DEF SinkTyped
  <2>3. QED
    BY <2>1, <2>2 DEF NoteTyped, TimeTyped
<1>5. CASE PushExtends
  <2>1. pc' = "drain" /\ UNCHANGED <<note, time>> /\ sink' = Extended(sink)
    BY <1>5 DEF PushExtends
  <2>2. SinkTyped'
    <3>1. CASE sink.waiting = <<>>
      BY <2>1, <3>1, ExtendedIs DEF SinkTyped
    <3>2. CASE sink.waiting # <<>>
      <4>1. PICK longer : longer = sink.queue \o sink.waiting
        OBVIOUS
      <4>2. PICK last : \E cut \in {0, 1} :
              sink' = [queue |-> ApplyWatermark(longer), res |-> sink.res, waiting |-> <<>>,
                       drops |-> sink.drops + cut, reprimes |-> sink.reprimes,
                       lastDepth |-> last, minDepth |-> sink.minDepth]
        BY <2>1, <3>2, <4>1, ExtendedIs
      <4>3. QED
        BY <4>2 DEF SinkTyped
    <3>3. QED
      BY <3>1, <3>2
  <2>3. QED
    BY <2>1, <2>2 DEF NoteTyped, TimeTyped
<1>6. CASE \E work \in Works : Work(work)
  <2>1. PICK work \in Works : Work(work)
    BY <1>6
  <2>2. PICK n, asked : n = work[1] /\ asked = work[2]
    OBVIOUS
  <2>3. n \in Nat
    BY <2>2, LoopAssumption
  <2>4. pc' = "diagnose" /\ UNCHANGED <<sink, note>>
        /\ time' = [time EXCEPT !.now = time.now + n, !.prompt = asked]
    BY <2>1, <2>2 DEF Work, audio
  <2>5. PICK later \in Nat : later = time.now + n
    BY <2>3 DEF TimeTyped
  <2>6. TimeTyped'
    BY <2>4, <2>5 DEF TimeTyped
  <2>7. QED
    BY <2>4, <2>6 DEF SinkTyped, NoteTyped
<1>7. CASE Diagnose
  <2>1. sink.reprimes - note.before \in Nat
    BY DEF NoteInv, SinkTyped, NoteTyped
  <2>2. NoteTyped' /\ pc' = "pace" /\ time' = [time EXCEPT !.prompted = time.prompt]
    BY <1>7, <2>1, DiagnoseDoes
  <2>3. PICK least : sink' = [sink EXCEPT !.minDepth = least]
    BY <1>7, DiagnoseDoes
  <2>4. SinkTyped'
    BY <2>3 DEF SinkTyped
  <2>5. TimeTyped'
    BY <2>2 DEF TimeTyped
  <2>6. QED
    BY <2>2, <2>4, <2>5
<1>8. CASE Pace
  <2>1. PICK now : now = IF time.now < time.deadline THEN time.deadline ELSE time.now
    OBVIOUS
  <2>2. now \in Nat
    BY <2>1 DEF TimeTyped
  <2>3. AdvanceDeadline(time.deadline, now) \in Nat
    BY <2>2, LoopAssumption DEF AdvanceDeadline, TimeTyped
  <2>4. pc' = "input" /\ UNCHANGED <<sink, note>>
        /\ time' = [time EXCEPT !.now = now, !.deadline = AdvanceDeadline(time.deadline, now)]
    BY <1>8, <2>1 DEF Pace, audio
  <2>5. TimeTyped'
    BY <2>2, <2>3, <2>4 DEF TimeTyped
  <2>6. QED
    BY <2>4, <2>5 DEF SinkTyped, NoteTyped
<1>9. CASE \E frames \in BufferFrames : Callback(frames)
  <2>1. PICK frames \in BufferFrames : Callback(frames)
    BY <1>9
  <2>2. SinkTyped'
    BY <2>1, CallbackDoes DEF SinkTyped
  <2>3. QED
    BY <2>1, <2>2 DEF Callback, NoteTyped, TimeTyped
<1>10. CASE UNCHANGED vars
  BY <1>10 DEF vars, audio, SinkTyped, NoteTyped, TimeTyped
<1>11. QED
  BY <1>1, <1>2, <1>3, <1>4, <1>5, <1>6, <1>7, <1>8, <1>9, <1>10 DEF Next

\* A step that prints nothing: the notes go on standing for every drain.
LEMMA NotesStay ==
  ASSUME TypeOK, NoteInv, TypeOK', time.now <= time'.now, UNCHANGED told,
         note'.last = note.last, note'.suppressed = note.suppressed,
         note'.before <= sink'.reprimes,
         Untold' - Untold = sink'.reprimes - sink.reprimes
  PROVE  NoteInv'
<1>1. note'.last <= time'.now
  BY DEF TypeOK, NoteTyped, TimeTyped, NoteInv, NoTime
<1>2. Untold \in Int /\ Untold' \in Int
  BY DEF Untold, TypeOK, SinkTyped, NoteTyped
<1>3. DrainsIn(told') = DrainsIn(told)
  OBVIOUS
<1>4. DrainsIn(told') + note'.suppressed + Untold' = sink'.reprimes
  <2>1. PICK d, u, v : d = DrainsIn(told) /\ u = Untold /\ v = Untold'
    OBVIOUS
  <2>2. d \in Int /\ u \in Int /\ v \in Int
    BY <1>2, <2>1 DEF NoteInv
  <2>3. d + note.suppressed + u = sink.reprimes
    BY <2>1 DEF NoteInv
  <2>4. d + note'.suppressed + v = sink'.reprimes
    BY <2>1, <2>2, <2>3 DEF TypeOK, SinkTyped, NoteTyped
  <2>5. QED
    BY <1>3, <2>1, <2>4
<1>5. QED
  BY <1>1, <1>3, <1>4 DEF NoteInv, IsNotes

LEMMA NotesStart == Init => NoteInv
<1> SUFFICES ASSUME Init PROVE NoteInv
  OBVIOUS
<1>1. told = <<>> /\ note.last = NoTime /\ note.suppressed = 0 /\ note.before = 0
      /\ sink.reprimes = 0 /\ pc = "discard" /\ time.now = 0
  BY DEF Init, OpenSink
<1>2. IsNotes(<<>>)
  BY DEF IsNotes
<1>3. QED
  BY <1>1, <1>2, NoDrains DEF NoteInv, Untold, NoTime

LEMMA NotesKept == TypeOK /\ NoteInv /\ [Next]_vars => NoteInv'
<1> SUFFICES ASSUME TypeOK, NoteInv, [Next]_vars PROVE NoteInv'
  OBVIOUS
<1>0. TypeOK'
  BY TypeKept
<1>1. CASE \/ DiscardReplay \/ StartFrame \/ Escape \/ WouldBlock \/ ReadFails \/ KernelSends
           \/ \E n \in 1..(2 * Len(PadEvents)) : ReadEvents(n)
  <2>1. UNCHANGED <<sink, note, told>> /\ time'.now = time.now
    BY <1>1 DEF DiscardReplay, StartFrame, Escape, WouldBlock, ReadFails, KernelSends, ReadEvents,
                audio, TypeOK, TimeTyped
  <2>2. Untold' = Untold
    BY <1>1, <2>1 DEF Untold, DiscardReplay, StartFrame, Escape, WouldBlock, ReadFails,
                      KernelSends, ReadEvents
  <2>3. QED
    BY <1>0, <2>1, <2>2, NotesStay DEF TypeOK, TimeTyped, SinkTyped, NoteTyped, NoteInv, Untold
<1>2. CASE \E pairs \in FramePairs : RunOneFrame(pairs)
  <2>1. UNCHANGED <<sink, time, told>> /\ note' = [note EXCEPT !.before = sink.reprimes]
        /\ pc = "emulate" /\ pc' = "drain"
    BY <1>2 DEF RunOneFrame
  <2>2. note'.before = sink.reprimes /\ note'.last = note.last /\ note'.suppressed = note.suppressed
    BY <2>1 DEF TypeOK, NoteTyped
  <2>3. Untold = 0 /\ Untold' = 0
    BY <2>1, <2>2 DEF Untold, TypeOK, SinkTyped
  <2>4. QED
    BY <1>0, <2>1, <2>2, <2>3, NotesStay DEF TypeOK, TimeTyped, SinkTyped
<1>3. CASE PushPrimes
  <2>1. UNCHANGED <<note, time, told>> /\ sink' = Primed(sink, DrainAudio(ring))
        /\ pc = "drain" /\ pc' = "extend"
    BY <1>3 DEF PushPrimes
  <2>2. PICK some \in {0, 1} : sink'.reprimes = sink.reprimes + some
    BY <2>1, PrimedIs DEF TypeOK
  <2>3. Untold' - Untold = some
    BY <2>1, <2>2 DEF Untold, TypeOK, SinkTyped, NoteTyped
  <2>4. QED
    BY <1>0, <2>1, <2>2, <2>3, NotesStay DEF TypeOK, TimeTyped, SinkTyped, NoteTyped, NoteInv
<1>4. CASE \/ PushExtends \/ Drained \/ Fault \/ \E work \in Works : Work(work)
           \/ \E frames \in BufferFrames : Callback(frames)
  <2>1. sink'.reprimes = sink.reprimes
    <3>1. CASE PushExtends
      <4>1. sink' = Extended(sink)
        BY <3>1 DEF PushExtends
      <4>2. PICK longer : longer = sink.queue \o sink.waiting
        OBVIOUS
      <4>3. CASE sink.waiting # <<>>
        <5>1. PICK last : \E cut \in {0, 1} :
                sink' = [queue |-> ApplyWatermark(longer), res |-> sink.res, waiting |-> <<>>,
                         drops |-> sink.drops + cut, reprimes |-> sink.reprimes,
                         lastDepth |-> last, minDepth |-> sink.minDepth]
          BY <4>1, <4>2, <4>3, ExtendedIs DEF TypeOK
        <5>2. QED
          BY <5>1
      <4>4. CASE sink.waiting = <<>>
        BY <4>1, <4>2, <4>4, ExtendedIs DEF TypeOK
      <4>5. QED
        BY <4>3, <4>4
    <3>2. CASE \E frames \in BufferFrames : Callback(frames)
      BY <3>2, CallbackDoes DEF TypeOK
    <3>3. CASE \/ Drained \/ Fault \/ \E work \in Works : Work(work)
      BY <3>3 DEF Drained, Fault, Work, audio
    <3>4. QED
      BY <1>4, <3>1, <3>2, <3>3
  <2>2. time.now <= time'.now
    <3>1. CASE \E work \in Works : Work(work)
      <4>1. PICK work \in Works : Work(work)
        BY <3>1
      <4>2. PICK n, asked : n = work[1] /\ asked = work[2]
        OBVIOUS
      <4>3. n \in Nat
        BY <4>2, LoopAssumption
      <4>4. time' = [time EXCEPT !.now = time.now + n, !.prompt = asked]
        BY <4>1, <4>2 DEF Work
      <4>5. QED
        BY <4>3, <4>4 DEF TypeOK, TimeTyped
    <3>2. CASE \/ PushExtends \/ Drained \/ Fault \/ \E frames \in BufferFrames : Callback(frames)
      <4>1. UNCHANGED time
        BY <3>2 DEF PushExtends, Drained, Fault, Callback
      <4>2. QED
        BY <4>1 DEF TypeOK, TimeTyped
    <3>3. QED
      BY <1>4, <3>1, <3>2
  <2>3. UNCHANGED <<note, told>>
    BY <1>4 DEF PushExtends, Drained, Fault, Work, Callback
  <2>4. Untold' = Untold
    <3>1. pc' = pc \/ {pc, pc'} \subseteq {"drain", "extend", "hotkeys", "diagnose", "faulted"}
      BY <1>4 DEF PushExtends, Drained, Fault, Work, Callback
    <3>2. QED
      BY <2>1, <2>3, <3>1 DEF Untold
  <2>5. QED
    BY <1>0, <2>1, <2>2, <2>3, <2>4, NotesStay DEF TypeOK, TimeTyped, SinkTyped, NoteTyped, NoteInv, Untold
<1>5. CASE Pace
  <2>1. PICK now : now = IF time.now < time.deadline THEN time.deadline ELSE time.now
    OBVIOUS
  <2>2. now \in Nat /\ time.now <= now
    BY <2>1 DEF TypeOK, TimeTyped
  <2>3. UNCHANGED <<sink, note, told>> /\ pc = "pace" /\ pc' = "input"
        /\ time' = [time EXCEPT !.now = now, !.deadline = AdvanceDeadline(time.deadline, now)]
    BY <1>5, <2>1 DEF Pace, audio
  <2>4. time'.now = now
    BY <2>3 DEF TypeOK, TimeTyped
  <2>5. Untold = 0 /\ Untold' = 0
    BY <2>3 DEF Untold
  <2>6. QED
    BY <1>0, <2>2, <2>3, <2>4, <2>5, NotesStay DEF TypeOK, TimeTyped, SinkTyped, NoteTyped, NoteInv
<1>6. CASE Diagnose
  <2>1. PICK count : count = sink.reprimes - note.before
    OBVIOUS
  <2>2. count \in Nat
    BY <2>1 DEF TypeOK, SinkTyped, NoteTyped, NoteInv
  <2>3. /\ pc = "diagnose" /\ pc' = "pace" /\ sink'.reprimes = sink.reprimes
        /\ time'.now = time.now /\ note'.before = note.before
        /\ note'.last = IF count > 0 /\ Allowed THEN time.now ELSE note.last
        /\ note'.suppressed = Suppressed(count)
        /\ told' = IF count > 0 /\ Allowed
                   THEN Append(told, <<time.now, count + note.suppressed>>) ELSE told
    <3>1. PICK least : sink' = [sink EXCEPT !.minDepth = least]
      BY <1>6, DiagnoseDoes
    <3>2. sink'.reprimes = sink.reprimes
      BY <3>1 DEF TypeOK, SinkTyped
    <3>3. time' = [time EXCEPT !.prompted = time.prompt]
      BY <1>6, DiagnoseDoes
    <3>4. time'.now = time.now
      BY <3>3 DEF TypeOK, TimeTyped
    <3>5. QED
      BY <1>6, <2>1, <3>2, <3>4, DiagnoseDoes
  <2>4. Untold = count /\ Untold' = 0
    BY <2>1, <2>3 DEF Untold
  <2>5. CASE ~(count > 0 /\ Allowed)
    <3>1. note'.suppressed = note.suppressed + count
      BY <2>3, <2>5 DEF Suppressed
    <3>2. DrainsIn(told') = DrainsIn(told) /\ told' = told
      BY <2>3, <2>5
    <3>3. DrainsIn(told') + note'.suppressed + Untold' = sink'.reprimes
      BY <2>2, <2>3, <2>4, <3>1, <3>2 DEF NoteInv, TypeOK, SinkTyped, NoteTyped
    <3>4. QED
      BY <2>3, <2>5, <3>2, <3>3 DEF NoteInv
  <2>6. CASE count > 0 /\ Allowed
    <3>1. PICK last : last = <<time.now, count + note.suppressed>>
      OBVIOUS
    <3>2. last \in Nat \X Nat /\ last[1] = time.now /\ last[2] = count + note.suppressed
      BY <2>2, <3>1 DEF TypeOK, NoteTyped, TimeTyped
    <3>3. told' = Append(told, last) /\ note'.suppressed = 0 /\ note'.last = time.now
      BY <2>3, <2>6, <3>1 DEF Suppressed
    <3>4. told \in Seq(Nat \X Nat)
      BY DEF NoteInv, IsNotes
    <3>5. DrainsIn(told') = DrainsIn(told) + last[2]
      BY <3>3, <3>4, OneMoreNote
    <3>6. DrainsIn(told') \in Nat /\ DrainsIn(told') + note'.suppressed + Untold' = sink'.reprimes
      BY <2>2, <2>3, <2>4, <3>2, <3>3, <3>5 DEF NoteInv, TypeOK, SinkTyped, NoteTyped
    <3>7. PICK n \in Nat : n = Len(told)
      BY <3>4
    <3>8. PICK more : more = Append(told, last)
      OBVIOUS
    <3>9. more \in Seq(Nat \X Nat) /\ Len(more) = n + 1 /\ more[n + 1] = last
          /\ \A i \in 1..n : more[i] = told[i]
      BY <3>2, <3>4, <3>7, <3>8
    <3>10. n # 0 => time.now - told[n][1] >= DiagInterval
      <4>1. n # 0 => note.last = told[n][1] /\ told[n] \in Nat \X Nat
        BY <3>4, <3>7 DEF NoteInv
      <4>2. n # 0 => note.last # NoTime
        BY <4>1 DEF NoTime
      <4>3. QED
        BY <2>6, <4>1, <4>2 DEF Allowed
    <3>11. ASSUME NEW i \in 2..Len(more) PROVE more[i][1] - more[i - 1][1] >= DiagInterval
      <4>1. CASE i = n + 1
        BY <3>2, <3>9, <3>10, <4>1
      <4>2. CASE i # n + 1
        <5>1. i \in 2..n /\ i \in 1..n /\ i - 1 \in 1..n
          BY <3>9, <4>2
        <5>2. told[i][1] - told[i - 1][1] >= DiagInterval
          BY <3>7, <5>1 DEF NoteInv, IsNotes
        <5>3. QED
          BY <3>9, <5>1, <5>2
      <4>3. QED
        BY <4>1, <4>2
    <3>12. IsNotes(more) /\ more # <<>>
      BY <3>9, <3>11 DEF IsNotes
    <3>13. note'.last = more[Len(more)][1]
      BY <3>2, <3>3, <3>9
    <3>14. QED
      <4>1. told' = more
        BY <3>3, <3>8
      <4>2. IsNotes(told') /\ note'.last = IF told' = <<>> THEN NoTime ELSE told'[Len(told')][1]
        BY <3>12, <3>13, <4>1
      <4>3. note'.last <= time'.now /\ note'.before <= sink'.reprimes
        BY <2>3, <3>3 DEF NoteInv, TypeOK, TimeTyped
      <4>4. QED
        BY <3>6, <4>2, <4>3 DEF NoteInv
  <2>7. QED
    BY <2>5, <2>6
<1>7. CASE UNCHANGED vars
  <2>1. UNCHANGED <<pc, sink, note, time, told>>
    BY <1>7 DEF vars, audio
  <2>2. QED
    BY <2>1 DEF NoteInv, IsNotes, Untold
<1>8. QED
  BY <1>1, <1>2, <1>3, <1>4, <1>5, <1>6, <1>7 DEF Next

-----------------------------------------------------------------------------
(* The gamepad.  What is pressed after the first k events.                 *)
Presses(k, b) == {i \in 1..k : /\ PadEvents[i].type = "EV_KEY"
                               /\ PadEvents[i].code \in DOMAIN ButtonBit
                               /\ ButtonBit[PadEvents[i].code] = b}
Pressed(k, b) == Presses(k, b) # {} /\ PadEvents[LastOf(Presses(k, b))].value # 0
Hats(k, code) == {i \in 1..k : PadEvents[i].type = "EV_ABS" /\ PadEvents[i].code = code}
Hat(k, code) == IF Hats(k, code) = {} THEN 0 ELSE PadEvents[LastOf(Hats(k, code))].value

\* The state of a pad that has decoded k events.
Reads(state, k) ==
  state = [buttons |-> {b \in 0..11 : Pressed(k, b)},
           hatX |-> Sign(Hat(k, ABS_HAT0X)), hatY |-> Sign(Hat(k, ABS_HAT0Y))]

PadInv ==
  /\ sent \in Nat /\ sent <= Len(PadEvents)
  /\ fed \in Nat /\ fed <= 2 * sent
  /\ pad = [state |-> pad.state, dead |-> pad.dead]
  /\ Reads(pad.state, fed \div 2)
  /\ pc = "poll" => ~pad.dead /\ word = BuildPad(keys)

LEMMA LastIs ==
  ASSUME NEW S \in SUBSET Nat, NEW i \in S, \A j \in S : j <= i
  PROVE  LastOf(S) = i
<1>1. \A j \in S : (\A k \in S : k <= j) => j = i
  OBVIOUS
<1>2. QED
  BY <1>1 DEF LastOf

LEMMA ButtonBits == \A code \in DOMAIN ButtonBit : ButtonBit[code] \in 0..11
  BY DEF ButtonBit

\* The next event is the last of its own kind and changes nothing of the others.
LEMMA NextPress ==
  ASSUME NEW k \in Nat, NEW b
  PROVE  LET e == PadEvents[k + 1]
         IN  Pressed(k + 1, b) <=>
               IF e.type = "EV_KEY" /\ e.code \in DOMAIN ButtonBit /\ ButtonBit[e.code] = b
               THEN e.value # 0 ELSE Pressed(k, b)
<1>1. PICK S, T : S = Presses(k, b) /\ T = Presses(k + 1, b)
  OBVIOUS
<1>2. PICK e : e = PadEvents[k + 1]
  OBVIOUS
<1>3. S \subseteq 1..k /\ T \subseteq 1..(k + 1) /\ S = T \ {k + 1}
  BY <1>1 DEF Presses
<1>4. CASE e.type = "EV_KEY" /\ e.code \in DOMAIN ButtonBit /\ ButtonBit[e.code] = b
  <2>1. k + 1 \in T
    BY <1>1, <1>2, <1>4 DEF Presses
  <2>2. LastOf(T) = k + 1
    <3>1. T \in SUBSET Nat /\ \A j \in T : j <= k + 1
      BY <1>3
    <3>2. QED
      BY <2>1, <3>1, LastIs
  <2>3. QED
    BY <1>1, <1>2, <1>4, <2>1, <2>2 DEF Pressed
<1>5. CASE ~(e.type = "EV_KEY" /\ e.code \in DOMAIN ButtonBit /\ ButtonBit[e.code] = b)
  <2>1. k + 1 \notin T
    BY <1>1, <1>2, <1>5 DEF Presses
  <2>2. S = T
    BY <1>3, <2>1
  <2>3. QED
    BY <1>1, <1>2, <1>5, <2>2 DEF Pressed
<1>6. QED
  BY <1>4, <1>5

LEMMA NextHat ==
  ASSUME NEW k \in Nat, NEW code
  PROVE  LET e == PadEvents[k + 1]
         IN  Hat(k + 1, code) =
               IF e.type = "EV_ABS" /\ e.code = code THEN e.value ELSE Hat(k, code)
<1>1. PICK S, T : S = Hats(k, code) /\ T = Hats(k + 1, code)
  OBVIOUS
<1>2. PICK e : e = PadEvents[k + 1]
  OBVIOUS
<1>3. S \subseteq 1..k /\ T \subseteq 1..(k + 1) /\ S = T \ {k + 1}
  BY <1>1 DEF Hats
<1>4. CASE e.type = "EV_ABS" /\ e.code = code
  <2>1. k + 1 \in T
    BY <1>1, <1>2, <1>4 DEF Hats
  <2>2. LastOf(T) = k + 1
    <3>1. T \in SUBSET Nat /\ \A j \in T : j <= k + 1
      BY <1>3
    <3>2. QED
      BY <2>1, <3>1, LastIs
  <2>3. QED
    BY <1>1, <1>2, <1>4, <2>1, <2>2 DEF Hat
<1>5. CASE ~(e.type = "EV_ABS" /\ e.code = code)
  <2>1. k + 1 \notin T
    BY <1>1, <1>2, <1>5 DEF Hats
  <2>2. S = T
    BY <1>3, <2>1
  <2>3. QED
    BY <1>1, <1>2, <1>5, <2>2 DEF Hat
<1>6. QED
  BY <1>4, <1>5

LEMMA ReadsOn ==
  ASSUME NEW k \in Nat, NEW p, Reads(p, k)
  PROVE  Reads(Apply(p, PadEvents[k + 1]), k + 1)
<1>1. PICK e : e = PadEvents[k + 1]
  OBVIOUS
<1>2. PICK B, x, y : B = {b \in 0..11 : Pressed(k, b)} /\ x = Hat(k, ABS_HAT0X) /\ y = Hat(k, ABS_HAT0Y)
  OBVIOUS
<1>3. PICK C, u, v : C = {b \in 0..11 : Pressed(k + 1, b)} /\ u = Hat(k + 1, ABS_HAT0X)
                     /\ v = Hat(k + 1, ABS_HAT0Y)
  OBVIOUS
<1>4. p = [buttons |-> B, hatX |-> Sign(x), hatY |-> Sign(y)]
  BY <1>2 DEF Reads
<1>5. u = (IF e.type = "EV_ABS" /\ e.code = ABS_HAT0X THEN e.value ELSE x)
      /\ v = (IF e.type = "EV_ABS" /\ e.code = ABS_HAT0Y THEN e.value ELSE y)
  BY <1>1, <1>2, <1>3, NextHat
<1>6. ABS_HAT0X # ABS_HAT0Y
  BY DEF ABS_HAT0X, ABS_HAT0Y
<1>7. C = IF e.type = "EV_KEY" /\ e.code \in DOMAIN ButtonBit
          THEN IF e.value = 0 THEN B \ {ButtonBit[e.code]} ELSE B \cup {ButtonBit[e.code]}
          ELSE B
  <2>1. ASSUME NEW b \in 0..11
        PROVE  b \in C <=> IF e.type = "EV_KEY" /\ e.code \in DOMAIN ButtonBit /\ ButtonBit[e.code] = b
                           THEN e.value # 0 ELSE b \in B
    BY <1>1, <1>2, <1>3, NextPress
  <2>2. B \subseteq 0..11 /\ C \subseteq 0..11
    BY <1>2, <1>3
  <2>3. e.code \in DOMAIN ButtonBit => ButtonBit[e.code] \in 0..11
    BY ButtonBits
  <2>4. QED
    BY <2>1, <2>2, <2>3
<1>8. Apply(p, e) = [buttons |-> C, hatX |-> Sign(u), hatY |-> Sign(v)]
  <2>1. CASE e.type = "EV_KEY" /\ e.code \in DOMAIN ButtonBit
    BY <1>4, <1>5, <1>7, <2>1 DEF Apply
  <2>2. CASE e.type = "EV_ABS" /\ e.code = ABS_HAT0X
    BY <1>4, <1>5, <1>6, <1>7, <2>2 DEF Apply
  <2>3. CASE e.type = "EV_ABS" /\ e.code = ABS_HAT0Y
    BY <1>4, <1>5, <1>6, <1>7, <2>3 DEF Apply
  <2>4. CASE ~(e.type = "EV_KEY" /\ e.code \in DOMAIN ButtonBit)
             /\ ~(e.type = "EV_ABS" /\ e.code \in {ABS_HAT0X, ABS_HAT0Y})
    BY <1>4, <1>5, <1>7, <2>4 DEF Apply
  <2>5. QED
    BY <2>1, <2>2, <2>3, <2>4
<1>9. QED
  BY <1>1, <1>3, <1>8 DEF Reads

IsDecoding(f, p, events, first, last) ==
  f = [i \in first..last |-> IF i = first THEN p ELSE Apply(f[i - 1], events[i])]

LEMMA DecodingExists ==
  ASSUME NEW p, NEW events, NEW first \in Nat
  PROVE  \A n \in Nat : \E f : IsDecoding(f, p, events, first, first + n)
<1> DEFINE T == {n \in Nat : \E f : IsDecoding(f, p, events, first, first + n)}
<1>1. 0 \in T
  <2>1. IsDecoding([i \in first..first |-> p], p, events, first, first)
    BY DEF IsDecoding
  <2>2. QED
    BY <2>1
<1>2. ASSUME NEW n \in Nat, n \in T PROVE n + 1 \in T
  <2>1. PICK m \in Nat : m = first + n
    OBVIOUS
  <2>2. m >= first /\ first + (n + 1) = m + 1
    BY <2>1
  <2>3. PICK f : IsDecoding(f, p, events, first, m)
    BY <1>2, <2>1
  <2>4. PICK z : z = Apply(f[m], events[m + 1])
    OBVIOUS
  <2>5. PICK g : g = [i \in first..(m + 1) |-> IF i = m + 1 THEN z ELSE f[i]]
    OBVIOUS
  <2>6. ASSUME NEW i \in first..(m + 1)
        PROVE  g[i] = IF i = first THEN p ELSE Apply(g[i - 1], events[i])
    <3>1. CASE i = m + 1
      <4>1. m \in first..(m + 1) /\ m # m + 1 /\ i - 1 = m /\ i # first
        BY <2>2, <3>1
      <4>2. g[m] = f[m] /\ g[i] = z
        BY <2>5, <3>1, <4>1
      <4>3. QED
        BY <2>4, <3>1, <4>1, <4>2
    <3>2. CASE i # m + 1
      <4>1. i \in first..m /\ (i # first => i - 1 \in first..(m + 1) /\ i - 1 # m + 1)
        BY <2>2, <3>2
      <4>2. f[i] = IF i = first THEN p ELSE Apply(f[i - 1], events[i])
        BY <2>3, <4>1 DEF IsDecoding
      <4>3. g[i] = f[i] /\ (i # first => g[i - 1] = f[i - 1])
        BY <2>5, <3>2, <4>1
      <4>4. QED
        BY <4>2, <4>3
    <3>3. QED
      BY <3>1, <3>2
  <2>7. IsDecoding(g, p, events, first, m + 1)
    BY <2>5, <2>6 DEF IsDecoding
  <2>8. QED
    BY <2>2, <2>7
<1> HIDE DEF T
<1>3. \A n \in Nat : n \in T
  BY <1>1, <1>2, Up
<1>4. QED
  BY <1>3 DEF T

\* Feeding decodes the events that become complete.
LEMMA FeedReads ==
  ASSUME NEW from \in Nat, NEW to \in Nat, from <= to, NEW p, Reads(p, from \div 2)
  PROVE  Reads(Feed(p, PadEvents, from, to), to \div 2)
<1>1. PICK a \in Nat, n \in Nat : a = from \div 2 /\ a + n = to \div 2
  <2>1. from \div 2 \in Nat /\ to \div 2 \in Nat /\ (to \div 2) - (from \div 2) \in Nat
    OBVIOUS
  <2>2. QED
    BY <2>1
<1>2. PICK b \in Nat : b = a + n
  OBVIOUS
<1>3. \E f : IsDecoding(f, p, PadEvents, a, b)
  BY <1>2, DecodingExists
<1> DEFINE f == CHOOSE f : f = [i \in a..b |-> IF i = a THEN p ELSE Apply(f[i - 1], PadEvents[i])]
<1>4. IsDecoding(f, p, PadEvents, a, b)
  BY <1>3 DEF IsDecoding
<1>5. Feed(p, PadEvents, from, to) = f[b]
  <2>1. Feed(p, PadEvents, from, to) = Applied(p, PadEvents, a, b)
    BY <1>1, <1>2 DEF Feed
  <2>2. a <= b
    BY <1>2
  <2>3. QED
    BY <2>1, <2>2 DEF Applied
<1> HIDE DEF f
<1> DEFINE T == {i \in Nat : i <= n => Reads(f[a + i], a + i)}
<1>6. 0 \in T
  <2>1. a \in a..b /\ a + 0 = a
    BY <1>2
  <2>2. f[a] = p
    BY <1>4, <2>1 DEF IsDecoding
  <2>3. QED
    BY <1>1, <2>1, <2>2
<1>7. ASSUME NEW i \in Nat, i \in T PROVE i + 1 \in T
  <2>1. SUFFICES ASSUME i + 1 <= n PROVE Reads(f[a + (i + 1)], a + (i + 1))
    OBVIOUS
  <2>2. PICK k \in Nat : k = a + i
    OBVIOUS
  <2>3. k + 1 \in a..b /\ k + 1 # a /\ (k + 1) - 1 = k /\ a + (i + 1) = k + 1
    BY <1>2, <2>1, <2>2
  <2>4. f[k + 1] = Apply(f[k], PadEvents[k + 1])
    BY <1>4, <2>3 DEF IsDecoding
  <2>5. Reads(f[k], k)
    BY <1>7, <2>1, <2>2
  <2>6. QED
    BY <2>3, <2>4, <2>5, ReadsOn
<1> HIDE DEF T
<1>8. n \in T
  BY <1>6, <1>7, Up
<1>9. QED
  BY <1>1, <1>2, <1>5, <1>8 DEF T

LEMMA PadStarts == Init => PadInv
<1> SUFFICES ASSUME Init PROVE PadInv
  OBVIOUS
<1>1. sent = 0 /\ fed = 0 /\ pc = "discard" /\ pad = [state |-> NoPad, dead |-> FALSE]
  BY DEF Init
<1>2. \A b : ~Pressed(0, b)
  BY DEF Pressed, Presses
<1>3. \A code : Hat(0, code) = 0
  BY DEF Hat, Hats
<1>4. Reads(NoPad, 0)
  BY <1>2, <1>3 DEF Reads, NoPad, Sign
<1>5. Len(PadEvents) \in Nat
  BY LoopAssumption
<1>6. 0 \div 2 = 0
  OBVIOUS
<1>7. QED
  BY <1>1, <1>4, <1>5, <1>6 DEF PadInv

LEMMA PadKept == PadInv /\ [Next]_vars => PadInv'
<1> SUFFICES ASSUME PadInv, [Next]_vars PROVE PadInv'
  OBVIOUS
<1>1. CASE UNCHANGED input /\ (pc' = "poll" => pc = "poll")
  BY <1>1 DEF PadInv, input
<1>2. CASE StartFrame
  <2>1. UNCHANGED <<pad, sent, fed>> /\ pc' = (IF pad.dead THEN "emulate" ELSE "poll")
        /\ word' = BuildPad(keys')
    BY <1>2 DEF StartFrame
  <2>2. QED
    BY <2>1 DEF PadInv
<1>3. CASE \E n \in 1..(2 * Len(PadEvents)) : ReadEvents(n)
  <2>1. PICK n \in 1..(2 * Len(PadEvents)) : ReadEvents(n)
    BY <1>3
  <2>2. n \in Nat /\ Len(PadEvents) \in Nat
    BY <2>1, LoopAssumption
  <2>3. PICK to : to = fed + n
    OBVIOUS
  <2>4. to \in Nat /\ fed <= to
    BY <2>2, <2>3 DEF PadInv
  <2>5. Reads(Feed(pad.state, PadEvents, fed, to), to \div 2)
    BY <2>4, FeedReads DEF PadInv
  <2>6. pc' = pc /\ to <= 2 * sent /\ fed' = to /\ UNCHANGED <<sent, word, keys>>
        /\ pad' = [pad EXCEPT !.state = Feed(pad.state, PadEvents, fed, to)]
    BY <2>1, <2>3 DEF ReadEvents
  <2>7. QED
    BY <2>4, <2>5, <2>6 DEF PadInv
<1>4. CASE WouldBlock
  <2>1. UNCHANGED <<pad, sent, fed>> /\ pc' = "emulate"
    BY <1>4 DEF WouldBlock
  <2>2. QED
    BY <2>1 DEF PadInv
<1>5. CASE ReadFails
  <2>1. UNCHANGED <<sent, fed>> /\ pc' = "emulate" /\ pad' = [pad EXCEPT !.dead = TRUE]
    BY <1>5 DEF ReadFails
  <2>2. QED
    BY <2>1 DEF PadInv
<1>6. CASE KernelSends
  <2>1. UNCHANGED <<pc, pad, fed, word, keys>> /\ sent' = sent + 1 /\ sent < Len(PadEvents)
    BY <1>6 DEF KernelSends
  <2>2. Len(PadEvents) \in Nat
    BY LoopAssumption
  <2>3. QED
    BY <2>1, <2>2 DEF PadInv
<1>7. CASE \/ DiscardReplay \/ Escape \/ PushPrimes \/ PushExtends \/ Drained \/ Fault \/ Diagnose
           \/ Pace \/ (\E pairs \in FramePairs : RunOneFrame(pairs))
           \/ (\E work \in Works : Work(work)) \/ (\E frames \in BufferFrames : Callback(frames))
           \/ UNCHANGED vars
  <2>1. UNCHANGED input /\ (pc' = "poll" => pc = "poll")
    BY <1>7 DEF DiscardReplay, Escape, PushPrimes, PushExtends, Drained, Fault, Diagnose, Pace,
                RunOneFrame, Work, Callback, vars, input
  <2>2. QED
    BY <1>1, <2>1
<1>8. QED
  BY <1>2, <1>3, <1>4, <1>5, <1>6, <1>7 DEF Next

LEMMA WordIs ==
  PadInv /\ [Next]_vars /\ pc = "poll" /\ pc' = "emulate" =>
    word' = BuildPad(keys) \cup
              (IF pad'.dead THEN {} ELSE {b \in 0..11 : PressedNow(b)} \cup HatBits)
<1> SUFFICES ASSUME PadInv, [Next]_vars, pc = "poll", pc' = "emulate"
             PROVE  word' = BuildPad(keys) \cup
                      (IF pad'.dead THEN {} ELSE {b \in 0..11 : PressedNow(b)} \cup HatBits)
  OBVIOUS
<1>1. WouldBlock \/ ReadFails
  BY DEF Next, vars, DiscardReplay, StartFrame, Escape, ReadEvents, RunOneFrame, PushPrimes,
         PushExtends, Drained, Fault, Work, Diagnose, Pace, Callback, KernelSends
<1>2. CASE ReadFails
  <2>1. pad' = [pad EXCEPT !.dead = TRUE] /\ word' = word
    BY <1>2 DEF ReadFails
  <2>2. pad'.dead
    BY <2>1 DEF PadInv
  <2>3. QED
    BY <2>1, <2>2 DEF PadInv
<1>3. CASE WouldBlock
  <2>1. fed = 2 * sent /\ word' = word \cup PadBits(pad.state) /\ pad' = pad
    BY <1>3 DEF WouldBlock
  <2>2. fed \div 2 = sent
    BY <2>1 DEF PadInv
  <2>3. PICK x, y : x = HatNow(ABS_HAT0X) /\ y = HatNow(ABS_HAT0Y)
    OBVIOUS
  <2>4. pad.state = [buttons |-> {b \in 0..11 : PressedNow(b)}, hatX |-> Sign(x), hatY |-> Sign(y)]
    <3>1. \A b : Pressed(sent, b) <=> PressedNow(b)
      BY DEF Pressed, Presses, PressedNow
    <3>2. \A code : Hat(sent, code) = HatNow(code)
      BY DEF Hat, Hats, HatNow
    <3>3. QED
      BY <2>2, <2>3, <3>1, <3>2 DEF PadInv, Reads
  <2>5. x \in Int /\ y \in Int
    <3>1. ASSUME NEW code PROVE HatNow(code) \in Int
      <4>1. CASE Hats(sent, code) = {}
        BY <4>1 DEF HatNow, Hats
      <4>2. CASE Hats(sent, code) # {}
        <5>1. sent \in Nat /\ Hats(sent, code) \in SUBSET (0..sent)
          BY DEF PadInv, Hats
        <5>2. PICK i \in Hats(sent, code) : \A j \in Hats(sent, code) : j <= i
          BY <4>2, <5>1, Greatest
        <5>3. LastOf(Hats(sent, code)) = i
          BY <5>1, <5>2, LastIs
        <5>4. i \in 1..Len(PadEvents)
          BY <5>2 DEF Hats, PadInv
        <5>5. PadEvents[i].value \in Int
          BY <5>4, LoopAssumption DEF Range
        <5>6. QED
          BY <4>2, <5>3, <5>5 DEF HatNow, Hats
      <4>3. QED
        BY <4>1, <4>2
    <3>2. QED
      BY <2>3, <3>1
  <2>6. PadBits(pad.state) = {b \in 0..11 : PressedNow(b)} \cup HatBits
    <3>1. (Sign(x) < 0 <=> x < 0) /\ (Sign(x) > 0 <=> x > 0)
          /\ (Sign(y) < 0 <=> y < 0) /\ (Sign(y) > 0 <=> y > 0)
      BY <2>5 DEF Sign
    <3>2. HatBits = (IF y < 0 THEN {6} ELSE IF y > 0 THEN {7} ELSE {})
                      \cup (IF x < 0 THEN {8} ELSE IF x > 0 THEN {9} ELSE {})
      BY <2>3, <2>5 DEF HatBits
    <3>3. QED
      BY <2>4, <3>1, <3>2 DEF PadBits
  <2>7. ~pad'.dead
    BY <2>1 DEF PadInv
  <2>8. QED
    BY <2>1, <2>6, <2>7 DEF PadInv
<1>4. QED
  BY <1>1, <1>2, <1>3

-----------------------------------------------------------------------------
(* The stream.  Rates and watermarks first.                                *)
LEMMA Grows ==
  ASSUME NEW a \in Nat, NEW b \in Int, NEW c \in Int, b <= c
  PROVE  a * b \in Int /\ a * c \in Int /\ a * b <= a * c
<1>1. PICK d \in Nat : c = b + d
  <2>1. c - b \in Nat /\ c = b + (c - b)
    OBVIOUS
  <2>2. QED
    BY <2>1
<1>2. a * c = a * b + a * d /\ a * d >= 0
  BY <1>1
<1>3. a * b \in Int /\ a * d \in Int
  BY <1>1
<1>4. QED
  BY <1>2, <1>3

LEMMA Product ==
  ASSUME NEW a \in Nat, NEW b \in Nat, a > 0, b > 0
  PROVE  a * b \in Nat /\ a * b > 0
<1>1. a * 1 <= a * b
  BY Grows
<1>2. QED
  BY <1>1

LEMMA Watermarks ==
  /\ \E l \in Nat : l > 0 /\ LowWatermark = 2 * l
  /\ LowWatermark \in Nat /\ HighWatermark \in Nat /\ LowWatermark <= HighWatermark
<1>1. PICK d \in Nat : d = DeviceRate * 2 /\ d >= 2000
  <2>1. DeviceRate * 2 \in Nat /\ DeviceRate * 2 >= 2000
    BY RatesAssumption
  <2>2. QED
    BY <2>1
<1>2. d * 1 <= d * LowMs /\ d * LowMs <= d * HighMs /\ d * LowMs \in Int /\ d * HighMs \in Int
  <2>1. d * 1 <= d * LowMs
    BY RatesAssumption, Grows
  <2>2. QED
    BY <2>1, RatesAssumption, Grows
<1>3. PICK low, high \in Int : low = d * LowMs /\ high = d * HighMs
  BY <1>2
<1>4. 2000 <= low /\ low <= high
  BY <1>1, <1>2, <1>3
<1>5. LowWatermark = EvenFloor(low \div 1000) /\ HighWatermark = EvenFloor(high \div 1000)
  BY <1>1, <1>3 DEF LowWatermark, HighWatermark, MsToSamples
<1>6. PICK m, n \in Int : m = low \div 1000 /\ n = high \div 1000
  BY <1>4
<1>7. 2 <= m /\ m <= n
  BY <1>4, <1>6
<1>8. LowWatermark = m - (m % 2) /\ HighWatermark = n - (n % 2)
  BY <1>5, <1>6 DEF EvenFloor
<1>9. m - (m % 2) = 2 * (m \div 2) /\ n - (n % 2) = 2 * (n \div 2)
  BY <1>7
<1>10. m \div 2 \in Nat /\ n \div 2 \in Nat /\ m \div 2 > 0 /\ m \div 2 <= n \div 2
  BY <1>7
<1>11. QED
  BY <1>8, <1>9, <1>10

LEMMA Units == Unit \in Nat /\ Unit > 0
<1>1. LowWatermark \in Nat /\ LowWatermark > 0 /\ DeviceRate \in Nat /\ DeviceRate > 0
      /\ SlewDen \in Nat /\ SlewDen > 0
  BY Watermarks, RatesAssumption
<1>2. DeviceRate * LowWatermark \in Nat /\ DeviceRate * LowWatermark > 0
  BY <1>1, Product
<1>3. QED
  BY <1>1, <1>2, Product DEF Unit

LEMMA StepsForward == \A d \in Int : OneStep(d) => d > 0
<1>1. LowWatermark \in Nat /\ LowWatermark > 0 /\ InRate \in Nat /\ InRate > 0
      /\ SlewDen - 1 \in Nat /\ SlewDen - 1 > 0
  BY Watermarks, RatesAssumption
<1>2. InRate * LowWatermark \in Nat /\ InRate * LowWatermark > 0
  BY <1>1, Product
<1>3. InRate * LowWatermark * (SlewDen - 1) \in Nat /\ InRate * LowWatermark * (SlewDen - 1) > 0
  BY <1>1, <1>2, Product
<1>4. QED
  BY <1>3 DEF OneStep

LEMMA RatesInStep ==
  ASSUME NEW depth \in Nat
  PROVE  RateFor(depth) \in Nat /\ RateFor(depth) > 0 /\ OneStep(RateFor(depth))
<1>1. PICK e \in Int : /\ RateFor(depth) = InRate * (LowWatermark * SlewDen - e)
                       /\ -LowWatermark <= e /\ e <= LowWatermark
  <2>1. PICK e : e = IF LowWatermark - depth < -LowWatermark THEN -LowWatermark
                     ELSE LowWatermark - depth
    OBVIOUS
  <2>2. e \in Int /\ -LowWatermark <= e /\ e <= LowWatermark
    BY <2>1, Watermarks
  <2>3. RateFor(depth) = InRate * (LowWatermark * SlewDen - e)
    BY <2>1 DEF RateFor
  <2>4. QED
    BY <2>2, <2>3
<1>2. InRate \in Nat /\ LowWatermark \in Nat /\ SlewDen \in Nat
  BY Watermarks, RatesAssumption
<1>3. PICK p \in Nat : p = LowWatermark * SlewDen
  BY <1>2
<1>4. LowWatermark * (SlewDen - 1) = p - LowWatermark /\ LowWatermark * (SlewDen + 1) = p + LowWatermark
  BY <1>2, <1>3
<1>5. InRate * (p - LowWatermark) <= InRate * (p - e) /\ InRate * (p - e) <= InRate * (p + LowWatermark)
  <2>1. p - LowWatermark \in Int /\ p - e \in Int /\ p + LowWatermark \in Int
        /\ p - LowWatermark <= p - e /\ p - e <= p + LowWatermark
    BY <1>1, <1>2, <1>3
  <2>2. QED
    BY <1>2, <2>1, Grows
<1>6. InRate * LowWatermark * (SlewDen - 1) = InRate * (LowWatermark * (SlewDen - 1))
      /\ InRate * LowWatermark * (SlewDen + 1) = InRate * (LowWatermark * (SlewDen + 1))
  BY <1>2, RatesAssumption
<1>7. RateFor(depth) \in Int /\ OneStep(RateFor(depth))
  BY <1>1, <1>2, <1>3, <1>4, <1>5, <1>6 DEF OneStep
<1>8. QED
  BY <1>7, StepsForward

-----------------------------------------------------------------------------
(* Samples, and the frames they pair up in.                                *)
Samples == {"silence", "L", "R"} \X Nat \X Nat \X Nat

LEMMA JoinsFour ==
  ASSUME NEW t, NEW x, NEW y, NEW z
  PROVE  <<t>> \o <<x, y, z>> = <<t, x, y, z>> /\ Tail(<<t, x, y, z>>) = <<x, y, z>>
<1>1. PICK S : S = {t, x, y, z}
  OBVIOUS
<1>2. <<t>> \in Seq(S) /\ <<x, y, z>> \in Seq(S) /\ <<t, x, y, z>> \in Seq(S)
  BY <1>1
<1>3. <<t>> \o <<x, y, z>> = <<t, x, y, z>>
  <2>1. PICK c : c = <<t>> \o <<x, y, z>>
    OBVIOUS
  <2>2. c \in Seq(S) /\ Len(c) = 4
    BY <1>2, <2>1
  <2>3. c[1] = t /\ c[2] = x /\ c[3] = y /\ c[4] = z
    BY <1>2, <2>1
  <2>4. PICK d : d = <<t, x, y, z>>
    OBVIOUS
  <2>5. d \in Seq(S) /\ Len(d) = 4 /\ d[1] = t /\ d[2] = x /\ d[3] = y /\ d[4] = z
    BY <1>2, <2>4
  <2>6. \A i \in 1..Len(c) : c[i] = d[i]
    BY <2>2, <2>3, <2>5
  <2>7. c = d
    BY <2>2, <2>5, <2>6, SeqEqual
  <2>8. QED
    BY <2>1, <2>4, <2>7
<1>4. Tail(<<t, x, y, z>>) = <<x, y, z>>
  <2>1. PICK c : c = Tail(<<t, x, y, z>>)
    OBVIOUS
  <2>2. c \in Seq(S) /\ Len(c) = 3
    BY <1>2, <2>1
  <2>3. c[1] = x /\ c[2] = y /\ c[3] = z
    BY <1>2, <2>1
  <2>4. QED
    BY <2>1, <2>2, <2>3
<1>5. QED
  BY <1>3, <1>4

LEMMA SilenceIs == Silence \in Samples /\ Silence[1] = "silence"
  BY DEF Silence, Samples

\* The left and the right sample of one place between two pairs of this session.
Voiced(left, right) ==
  /\ left \in Samples /\ left[1] = "L" /\ left[2] > Replayed /\ left[3] = left[2] + 1
  /\ right = <<"R", left[2], left[3], left[4]>>

LEMMA RoundsUp ==
  ASSUME NEW ahead \in Nat, ahead > 0, NEW ratio \in Nat, ratio > 0,
         NEW count, count = (ahead + ratio - 1) \div ratio
  PROVE  /\ count \in Nat /\ count * ratio >= ahead /\ count * ratio \in Nat
         /\ \A k \in 1..count : (k - 1) * ratio \in Nat /\ (k - 1) * ratio < ahead
<1>1. PICK x \in Nat : x = ahead + ratio - 1
  OBVIOUS
<1>2. PICK m \in 0..(ratio - 1) : x = ratio * count + m /\ count \in Int
  <2>1. x = ratio * (x \div ratio) + (x % ratio) /\ x \div ratio \in Int /\ x % ratio \in 0..(ratio - 1)
    OBVIOUS
  <2>2. QED
    BY <1>1, <2>1
<1>3. PICK p \in Int : p = ratio * count
  BY <1>2
<1>4. p >= ahead /\ p <= ahead + ratio - 1
  BY <1>1, <1>2, <1>3
<1>5. count \in Nat
  <2>1. SUFFICES ASSUME count < 0 PROVE FALSE
    BY <1>2
  <2>2. count <= 0 - 1
    BY <1>2, <2>1
  <2>3. ratio * count <= ratio * (0 - 1)
    BY <1>2, <2>2, Grows
  <2>4. QED
    BY <1>3, <1>4, <2>3
<1>6. ASSUME NEW k \in 1..count PROVE (k - 1) * ratio \in Nat /\ (k - 1) * ratio < ahead
  <2>1. ratio * (k - 1) <= ratio * (count - 1) /\ ratio * 0 <= ratio * (k - 1)
    BY <1>5, Grows
  <2>2. ratio * (count - 1) = p - ratio
    BY <1>3, <1>5
  <2>3. PICK z \in Int : z = ratio * (k - 1)
    BY <1>5
  <2>4. z = (k - 1) * ratio
    BY <1>5, <2>3
  <2>5. QED
    BY <1>4, <2>1, <2>2, <2>3, <2>4
<1>7. count * ratio = p
  BY <1>3, <1>5
<1>8. QED
  BY <1>4, <1>5, <1>6, <1>7

\* Where a position falls between two of n + 1 pairs.
LEMMA Falls ==
  ASSUME NEW n \in Nat, NEW p \in Nat, p < n * Unit
  PROVE  \E q \in Nat, m \in Nat : p \div Unit = q /\ p % Unit = m /\ q < n /\ p = q * Unit + m
<1>1. Unit \in Nat /\ Unit > 0
  BY Units
<1>2. PICK u \in Nat : u = Unit
  BY <1>1
<1>3. PICK q, m : q = p \div u /\ m = p % u
  OBVIOUS
<1>4. p = u * q + m /\ q \in Int /\ m \in 0..(u - 1)
  BY <1>1, <1>2, <1>3
<1>5. q \in Nat
  <2>1. SUFFICES ASSUME q < 0 PROVE FALSE
    BY <1>4
  <2>2. u * q <= u * (0 - 1)
    BY <1>4, <2>1, Grows
  <2>3. QED
    BY <1>2, <1>4, <2>2
<1>6. q < n
  <2>1. SUFFICES ASSUME n <= q PROVE FALSE
    BY <1>5
  <2>2. u * n <= u * q
    BY <1>5, <2>1, Grows
  <2>3. u * n = n * u
    OBVIOUS
  <2>4. QED
    BY <1>2, <1>4, <2>2, <2>3
<1>7. p = q * u + m
  BY <1>4, <1>5
<1>8. p \div Unit = q /\ p % Unit = m /\ p = q * Unit + m
  BY <1>2, <1>3, <1>7, Zenon
<1>9. m \in Nat
  BY <1>2, <1>4
<1>10. QED
  BY <1>5, <1>6, <1>8, <1>9, Zenon

LEMMA Distributes ==
  ASSUME NEW a \in Nat, NEW b \in Nat, NEW c \in Nat
  PROVE  (a + b) * c = a * c + b * c /\ (a + b) * c \in Nat /\ a * c \in Nat /\ b * c \in Nat
  OBVIOUS

LEMMA Halves ==
  ASSUME NEW j \in Nat, j > 0
  PROVE  \E k \in Nat : k > 0 /\ (j = 2 * k - 1 \/ j = 2 * k)
<1>1. PICK k \in Nat : k = (j + 1) \div 2
  OBVIOUS
<1>2. QED
  BY <1>1

LEMMA FrameOf ==
  ASSUME NEW k \in Nat, k > 0
  PROVE  /\ ((2 * k - 1) - 1) \div 2 = k - 1 /\ (2 * k - 1) % 2 = 1
         /\ ((2 * k) - 1) \div 2 = k - 1 /\ (2 * k) % 2 = 0
<1>1. PICK i \in Nat : i = 2 * k - 1
  OBVIOUS
<1>2. (i - 1) \div 2 = k - 1 /\ i % 2 = 1
  BY <1>1
<1>3. PICK j \in Nat : j = 2 * k
  OBVIOUS
<1>4. (j - 1) \div 2 = k - 1 /\ j % 2 = 0
  BY <1>3
<1>5. QED
  BY <1>1, <1>2, <1>3, <1>4

LEMMA ListIs ==
  ASSUME NEW S, NEW n \in Nat, NEW o \in [1..n -> S]
  PROVE  o \in Seq(S) /\ Len(o) = n
  OBVIOUS

LEMMA VoicedIs ==
  ASSUME NEW x \in Nat, x > Replayed, NEW m \in Nat,
         NEW left, left = <<"L", x, x + 1, m>>, NEW right, right = <<"R", x, x + 1, m>>
  PROVE  Voiced(left, right) /\ left \in Samples /\ right \in Samples /\ At(left) = x * Unit + m
<1>1. left \in Samples /\ right \in Samples
  BY DEF Samples
<1>2. left[1] = "L" /\ left[2] = x /\ left[3] = x + 1 /\ left[4] = m
  OBVIOUS
<1>3. QED
  BY <1>1, <1>2 DEF Voiced, At

\* A chunk that goes on after the resampler's last pair, b, up to pair b + n.
GoesOn(r, chunk, b, n, phase, ratio) ==
  /\ r = [prev |-> r.prev, hasPrev |-> r.hasPrev, phase |-> phase, ratio |-> ratio]
  /\ r.hasPrev \in BOOLEAN /\ (~r.hasPrev => phase = 0)
  /\ chunk \in Seq(Nat) /\ Len(chunk) > 0
  /\ b = (IF r.hasPrev THEN r.prev ELSE chunk[1])
  /\ n = Len(chunk) - (IF r.hasPrev THEN 0 ELSE 1)
  /\ \A i \in 1..Len(chunk) : chunk[i] = b + i - (IF r.hasPrev THEN 0 ELSE 1)

LEMMA NextIs ==
  ASSUME NEW r, NEW yes, NEW last, NEW left, NEW next,
         next = [r EXCEPT !.hasPrev = yes, !.prev = last, !.phase = left],
         r = [prev |-> r.prev, hasPrev |-> r.hasPrev, phase |-> r.phase, ratio |-> r.ratio]
  PROVE  next = [prev |-> last, hasPrev |-> yes, phase |-> left, ratio |-> r.ratio]
  OBVIOUS

\* Frames of sound, a step of the ratio apart, the first at a place.
Emitted(out, count, first, ratio) ==
  /\ out \in Seq(Samples) /\ Len(out) = 2 * count
  /\ \A k \in 1..count : /\ Voiced(out[2 * k - 1], out[2 * k])
                          /\ At(out[2 * k - 1]) = first + (k - 1) * ratio

\* One call of the resampler: what it emits, and where the next goes on.
Emits(r, chunk, b, n, phase, ratio) ==
  \E count, left \in Nat : \E out :
    /\ Resampled(r, chunk) =
         [out |-> out, next |-> [prev |-> b + n, hasPrev |-> TRUE,
                                 phase |-> left, ratio |-> ratio]]
    /\ Emitted(out, count, b * Unit + phase, ratio)
    /\ (b + n) * Unit + left = b * Unit + phase + count * ratio

LEMMA ResampledIs ==
  ASSUME NEW b \in Nat, b > Replayed, NEW n \in Nat, NEW phase \in Nat,
         NEW ratio \in Nat, ratio > 0, NEW r, NEW chunk, GoesOn(r, chunk, b, n, phase, ratio)
  PROVE  Emits(r, chunk, b, n, phase, ratio)
<1>0. r.phase = phase /\ r.ratio = ratio
  BY DEF GoesOn
<1> DEFINE start == IF r.hasPrev THEN 0 ELSE 1
           num == Len(chunk) - start
           ahead == num * Unit - r.phase
           count == IF ahead <= 0 THEN 0 ELSE (ahead + r.ratio - 1) \div r.ratio
           pair(i) == IF i = 0 THEN IF r.hasPrev THEN r.prev ELSE chunk[1] ELSE chunk[start + i]
           at(p) == <<pair(p \div Unit), pair((p \div Unit) + 1), p % Unit>>
           out == [k \in 1..(2 * count) |->
                     <<IF k % 2 = 1 THEN "L" ELSE "R">> \o at(r.phase + ((k - 1) \div 2) * r.ratio)]
           next == [r EXCEPT !.hasPrev = TRUE, !.prev = chunk[Len(chunk)],
                             !.phase = @ + count * r.ratio - num * Unit]
<1>1. Resampled(r, chunk) = [out |-> out, next |-> next]
  BY DEF Resampled
<1>2. start \in {0, 1} /\ num = n
  BY DEF GoesOn
<1>3. ASSUME NEW i \in 0..n PROVE pair(i) = b + i
  <2>1. CASE i = 0
    BY <2>1 DEF GoesOn
  <2>2. CASE i # 0
    <3>1. start + i \in 1..Len(chunk) /\ pair(i) = chunk[start + i]
      BY <1>2, <2>2 DEF GoesOn
    <3>2. chunk[start + i] = b + (start + i) - start
      BY <3>1 DEF GoesOn
    <3>3. QED
      BY <1>2, <3>1, <3>2
  <2>3. QED
    BY <2>1, <2>2
<1>4. Unit \in Nat /\ Unit > 0 /\ n * Unit \in Nat
  <2>1. Unit \in Nat /\ Unit > 0
    BY Units
  <2>2. QED
    BY <2>1
<1>5. ahead = n * Unit - phase
  BY <1>0, <1>2
<1>6. PICK a \in Int : a = ahead
  BY <1>4, <1>5
<1>7. PICK c : c = count
  OBVIOUS
<1>8. /\ c \in Nat /\ c * ratio \in Nat /\ c * ratio >= a
      /\ \A k \in 1..c : (k - 1) * ratio \in Nat /\ (k - 1) * ratio < a
  <2>1. CASE a <= 0
    <3>1. c = 0
      BY <1>6, <1>7, <2>1
    <3>2. QED
      BY <2>1, <3>1
  <2>2. CASE a > 0
    <3>1. c = (a + ratio - 1) \div ratio
      BY <1>0, <1>6, <1>7, <2>2
    <3>2. a \in Nat
      BY <2>2
    <3>3. QED
      BY <2>2, <3>1, <3>2, RoundsUp
  <2>3. QED
    BY <1>6, <2>1, <2>2
<1>9. PICK o : o = out
  OBVIOUS
<1>10. o = [j \in 1..(2 * c) |->
            <<IF j % 2 = 1 THEN "L" ELSE "R">> \o at(phase + ((j - 1) \div 2) * ratio)]
  BY <1>0, <1>7, <1>9
<1> HIDE DEF out, next, count
<1>11. ASSUME NEW k \in 1..c
       PROVE  \E q, m \in Nat :
                /\ o[2 * k - 1] = <<"L", b + q, b + q + 1, m>>
                /\ o[2 * k] = <<"R", b + q, b + q + 1, m>>
                /\ phase + (k - 1) * ratio = q * Unit + m
  <2>1. PICK p \in Nat : p = phase + (k - 1) * ratio
    BY <1>8
  <2>2. p < n * Unit
    BY <1>4, <1>5, <1>6, <1>8, <2>1
  <2>3. PICK q, m \in Nat : p \div Unit = q /\ p % Unit = m /\ q < n /\ p = q * Unit + m
    BY <2>2, Falls
  <2>4. at(p) = <<b + q, b + q + 1, m>>
    <3>1. q \in 0..n /\ q + 1 \in 0..n
      BY <2>3
    <3>2. pair(q) = b + q /\ pair(q + 1) = b + (q + 1)
      BY <1>3, <3>1
    <3> HIDE DEF pair
    <3>3. QED
      BY <2>3, <3>2
  <2> HIDE DEF at, pair
  <2>5. c \in Nat /\ k \in Nat /\ k >= 1 /\ k <= c
    BY <1>8
  <2>6. 2 * k - 1 \in 1..(2 * c) /\ 2 * k \in 1..(2 * c)
    BY <2>5
  <2>7. PICK i, j \in 1..(2 * c) : i = 2 * k - 1 /\ j = 2 * k
    BY <2>6
  <2>8. (i - 1) \div 2 = k - 1 /\ (j - 1) \div 2 = k - 1 /\ i % 2 = 1 /\ j % 2 = 0
    BY <2>5, <2>7, FrameOf
  <2>81. o[i] = <<"L">> \o at(phase + (k - 1) * ratio)
         /\ o[j] = <<"R">> \o at(phase + (k - 1) * ratio)
    <3>1. ASSUME NEW h \in 1..(2 * c)
          PROVE  o[h] = <<IF h % 2 = 1 THEN "L" ELSE "R">> \o at(phase + ((h - 1) \div 2) * ratio)
      BY <1>10, Zenon
    <3>2. o[i] = <<IF i % 2 = 1 THEN "L" ELSE "R">> \o at(phase + ((i - 1) \div 2) * ratio)
          /\ o[j] = <<IF j % 2 = 1 THEN "L" ELSE "R">> \o at(phase + ((j - 1) \div 2) * ratio)
      BY <3>1, Zenon
    <3>3. (IF i % 2 = 1 THEN "L" ELSE "R") = "L" /\ (IF j % 2 = 1 THEN "L" ELSE "R") = "R"
      BY <2>8
    <3>4. QED
      BY <2>8, <3>2, <3>3, Zenon
  <2>82. o[2 * k - 1] = <<"L">> \o at(p) /\ o[2 * k] = <<"R">> \o at(p)
    BY <2>1, <2>7, <2>81
  <2>9. o[2 * k - 1] = <<"L">> \o <<b + q, b + q + 1, m>>
        /\ o[2 * k] = <<"R">> \o <<b + q, b + q + 1, m>>
    BY <2>4, <2>82
  <2>10. o[2 * k - 1] = <<"L", b + q, b + q + 1, m>> /\ o[2 * k] = <<"R", b + q, b + q + 1, m>>
    BY <2>9, JoinsFour, Zenon
  <2>11. QED
    BY <2>1, <2>3, <2>10, Zenon
<1> HIDE DEF pair, at
<1>12. ASSUME NEW k \in 1..c
       PROVE  /\ Voiced(o[2 * k - 1], o[2 * k]) /\ o[2 * k] \in Samples
              /\ At(o[2 * k - 1]) = b * Unit + phase + (k - 1) * ratio
  <2>1. PICK q, m \in Nat : /\ o[2 * k - 1] = <<"L", b + q, b + q + 1, m>>
                            /\ o[2 * k] = <<"R", b + q, b + q + 1, m>>
                            /\ phase + (k - 1) * ratio = q * Unit + m
    BY <1>11
  <2>2. PICK x : x = b + q
    OBVIOUS
  <2>3. x \in Nat /\ x > Replayed
    BY <2>2, LoopAssumption
  <2>4. o[2 * k - 1] = <<"L", x, x + 1, m>> /\ o[2 * k] = <<"R", x, x + 1, m>>
    BY <2>1, <2>2, Zenon
  <2>5. Voiced(o[2 * k - 1], o[2 * k]) /\ o[2 * k] \in Samples /\ At(o[2 * k - 1]) = x * Unit + m
    BY <2>3, <2>4, VoicedIs
  <2>6. x * Unit = b * Unit + q * Unit /\ b * Unit \in Nat /\ q * Unit \in Nat
    BY <1>4, <2>2, Distributes
  <2>7. PICK d \in Nat : d = (k - 1) * ratio
    BY <1>8
  <2>8. PICK e, f \in Nat : e = b * Unit /\ f = q * Unit
    BY <2>6
  <2>9. At(o[2 * k - 1]) = e + f + m /\ phase + d = f + m
    BY <2>1, <2>5, <2>6, <2>7, <2>8
  <2>10. At(o[2 * k - 1]) = e + phase + d
    BY <2>9
  <2>11. QED
    BY <2>5, <2>7, <2>8, <2>10
<1>13. o \in Seq(Samples) /\ Len(o) = 2 * c
  <2>1. ASSUME NEW j \in 1..(2 * c) PROVE o[j] \in Samples
    <3>1. PICK k \in Nat : k > 0 /\ (j = 2 * k - 1 \/ j = 2 * k)
      <4>1. j \in Nat /\ j > 0
        BY <1>8
      <4>2. QED
        BY <4>1, Halves
    <3>11. k \in 1..c
      BY <1>8, <3>1
    <3>2. o[2 * k - 1] \in Samples /\ o[2 * k] \in Samples
      BY <1>12, <3>11 DEF Voiced
    <3>3. QED
      BY <3>1, <3>2
  <2>2. PICK d \in Nat : d = 2 * c
    BY <1>8
  <2>3. o \in [1..d -> Samples]
    BY <1>10, <2>1, <2>2
  <2>4. QED
    BY <2>2, <2>3, ListIs
<1>14. PICK left \in Nat : left = phase + c * ratio - n * Unit
  BY <1>4, <1>5, <1>6, <1>8
<1>15. next = [prev |-> b + n, hasPrev |-> TRUE, phase |-> left, ratio |-> ratio]
  <2>1. chunk[Len(chunk)] = b + n
    <3>1. Len(chunk) \in 1..Len(chunk)
      BY DEF GoesOn
    <3>2. QED
      BY <1>2, <3>1 DEF GoesOn
  <2>11. r.phase + count * r.ratio - num * Unit = left
    BY <1>0, <1>2, <1>7, <1>14
  <2>12. PICK yes : yes = TRUE
    OBVIOUS
  <2>2. next = [r EXCEPT !.hasPrev = yes, !.prev = b + n, !.phase = left]
    BY <2>1, <2>11, <2>12, Zenon DEF next
  <2>3. QED
    <3>1. r = [prev |-> r.prev, hasPrev |-> r.hasPrev, phase |-> r.phase, ratio |-> r.ratio]
      BY <1>0 DEF GoesOn
    <3>2. next = [prev |-> b + n, hasPrev |-> yes, phase |-> left, ratio |-> r.ratio]
      BY <2>2, <3>1, NextIs, Zenon
    <3>3. QED
      BY <1>0, <2>12, <3>2, Zenon
<1>16. (b + n) * Unit + left = b * Unit + phase + c * ratio
  <2>1. PICK u \in Nat : u = Unit
    BY <1>4
  <2>2. (b + n) * u = b * u + n * u /\ b * u \in Nat /\ n * u \in Nat /\ (b + n) * u \in Nat
    BY Distributes
  <2>3. PICK d, e, f, g \in Nat : d = b * u /\ e = n * u /\ f = c * ratio /\ g = (b + n) * u
    BY <1>8, <2>2
  <2>4. g = d + e /\ left = phase + f - e
    BY <1>14, <2>1, <2>2, <2>3
  <2>5. g + left = d + phase + f
    BY <2>4
  <2>6. QED
    BY <2>1, <2>3, <2>5
<1>17. Emitted(o, c, b * Unit + phase, ratio)
  BY <1>12, <1>13 DEF Emitted
<1>18. QED
  BY <1>1, <1>8, <1>9, <1>14, <1>15, <1>16, <1>17 DEF Emits

-----------------------------------------------------------------------------
(* A line of n frames that wait for the device: s of silence, then frames  *)
(* with sound, each one step before the next, the last before the place    *)
(* that the resampler comes to next.                                       *)
Muted(line, f) == line[2 * f - 1] = Silence /\ line[2 * f] = Silence
Place(line, n, end, f) == IF f = n + 1 THEN end ELSE At(line[2 * f - 1])
Stream(line, n, s, end) ==
  /\ line \in Seq(Samples) /\ n \in Nat /\ Len(line) = 2 * n
  /\ s \in 0..n /\ end \in Int
  /\ \A f \in 1..s : Muted(line, f)
  /\ \A f \in (s + 1)..n : Voiced(line[2 * f - 1], line[2 * f])
  /\ \A f \in (s + 1)..n : OneStep(Place(line, n, end, f + 1) - Place(line, n, end, f))

LEMMA AtIs == \A x \in Samples : At(x) \in Int
<1> SUFFICES ASSUME NEW x \in Samples PROVE At(x) \in Int
  OBVIOUS
<1>1. x[2] \in Nat /\ x[4] \in Nat
  BY DEF Samples
<1>2. x[2] * Unit \in Nat
  BY <1>1, Units
<1>3. QED
  BY <1>1, <1>2 DEF At

LEMMA PlaceIs ==
  ASSUME NEW line, NEW n, NEW s, NEW end, Stream(line, n, s, end), NEW f \in 1..(n + 1)
  PROVE  Place(line, n, end, f) \in Int
<1>1. n \in Nat /\ end \in Int /\ line \in Seq(Samples) /\ Len(line) = 2 * n
  BY DEF Stream
<1>2. CASE f = n + 1
  BY <1>1, <1>2 DEF Place
<1>3. CASE f # n + 1
  <2>1. 2 * f - 1 \in 1..Len(line)
    BY <1>1, <1>3
  <2>2. line[2 * f - 1] \in Samples
    BY <1>1, <2>1
  <2>3. QED
    BY <1>3, <2>2, AtIs DEF Place
<1>4. QED
  BY <1>2, <1>3

LEMMA Ascends ==
  ASSUME NEW line, NEW n, NEW s, NEW end, Stream(line, n, s, end), NEW f \in (s + 1)..(n + 1)
  PROVE  Place(line, n, end, s + 1) <= Place(line, n, end, f)
<1> DEFINE T == {d \in Nat : s + 1 + d <= n + 1 =>
                   Place(line, n, end, s + 1) <= Place(line, n, end, s + 1 + d)}
<1>0. n \in Nat /\ s \in 0..n
  BY DEF Stream
<1>1. 0 \in T
  <2>1. s + 1 \in 1..(n + 1) /\ s + 1 + 0 = s + 1
    BY <1>0
  <2>2. Place(line, n, end, s + 1) \in Int
    BY <2>1, PlaceIs
  <2>3. QED
    BY <2>1, <2>2
<1>2. ASSUME NEW d \in Nat, d \in T PROVE d + 1 \in T
  <2>1. SUFFICES ASSUME s + 1 + (d + 1) <= n + 1
                 PROVE  Place(line, n, end, s + 1) <= Place(line, n, end, s + 1 + (d + 1))
    OBVIOUS
  <2>2. PICK g : g = s + 1 + d
    OBVIOUS
  <2>3. g \in (s + 1)..n /\ g \in 1..(n + 1) /\ g + 1 \in 1..(n + 1) /\ s + 1 \in 1..(n + 1)
        /\ s + 1 + (d + 1) = g + 1
    BY <1>0, <2>1, <2>2
  <2>4. PICK a, b, c \in Int : a = Place(line, n, end, s + 1) /\ b = Place(line, n, end, g)
                               /\ c = Place(line, n, end, g + 1)
    BY <2>3, PlaceIs
  <2>5. a <= b
    BY <1>2, <2>1, <2>2, <2>3, <2>4
  <2>6. OneStep(c - b)
    BY <2>3, <2>4 DEF Stream
  <2>7. c - b > 0
    BY <2>6, StepsForward
  <2>8. QED
    BY <2>3, <2>4, <2>5, <2>7
<1> HIDE DEF T
<1>3. PICK d \in Nat : f = s + 1 + d
  <2>1. f - (s + 1) \in Nat /\ f = s + 1 + (f - (s + 1))
    BY <1>0
  <2>2. QED
    BY <2>1
<1>4. d \in T
  BY <1>1, <1>2, Up
<1>5. QED
  BY <1>0, <1>3, <1>4 DEF T

\* What is left of s frames without the first m, and of a line without its first m.
Left(s, m) == IF m < s THEN s - m ELSE 0
After(line, m) == SubSeq(line, 2 * m + 1, Len(line))

LEMMA LeftIs ==
  ASSUME NEW n \in Nat, NEW s \in 0..n, NEW m \in 0..n
  PROVE  /\ Left(s, m) \in 0..(n - m) /\ n - m \in Nat /\ Left(s, m) + m >= s
         /\ s = n => Left(s, m) = n - m
  BY DEF Left

LEMMA Dropped ==
  ASSUME NEW line, NEW n, NEW s, NEW end, Stream(line, n, s, end), NEW m \in 0..n
  PROVE  /\ Stream(After(line, m), n - m, Left(s, m), end)
         /\ Place(After(line, m), n - m, end, Left(s, m) + 1)
              = Place(line, n, end, Left(s, m) + 1 + m)
<1>0. PICK rest, t : rest = After(line, m) /\ t = Left(s, m)
  OBVIOUS
<1>1. line \in Seq(Samples) /\ n \in Nat /\ Len(line) = 2 * n /\ s \in 0..n /\ end \in Int
  BY DEF Stream
<1>2. rest \in Seq(Samples) /\ Len(rest) = 2 * (n - m) /\ \A i \in 1..Len(rest) : rest[i] = line[i + 2 * m]
  <2>1. 2 * m + 1 \in 1..(Len(line) + 1) /\ rest = SubSeq(line, 2 * m + 1, Len(line))
    BY <1>0, <1>1 DEF After
  <2>2. QED
    BY <1>1, <2>1
<1>3. ASSUME NEW f \in 1..(n - m)
      PROVE  f + m \in 1..n /\ rest[2 * f - 1] = line[2 * (f + m) - 1] /\ rest[2 * f] = line[2 * (f + m)]
  <2>1. f + m \in 1..n /\ 2 * f - 1 \in 1..Len(rest) /\ 2 * f \in 1..Len(rest)
        /\ 2 * f - 1 + 2 * m = 2 * (f + m) - 1 /\ 2 * f + 2 * m = 2 * (f + m)
    BY <1>1, <1>2
  <2>2. QED
    BY <1>2, <2>1
<1>4. ASSUME NEW f \in 1..(n - m + 1)
      PROVE  Place(rest, n - m, end, f) = Place(line, n, end, f + m)
  <2>1. CASE f = n - m + 1
    BY <1>1, <2>1 DEF Place
  <2>2. CASE f # n - m + 1
    <3>1. f \in 1..(n - m) /\ f + m # n + 1
      BY <1>1, <2>2
    <3>2. QED
      BY <1>3, <2>2, <3>1 DEF Place
  <2>3. QED
    BY <2>1, <2>2
<1>5. n - m \in Nat /\ t \in 0..(n - m) /\ t = IF m < s THEN s - m ELSE 0
  BY <1>0, <1>1, LeftIs DEF Left
<1>6. \A f \in 1..t : Muted(rest, f)
  <2>1. SUFFICES ASSUME NEW f \in 1..t PROVE Muted(rest, f)
    OBVIOUS
  <2>2. f \in 1..(n - m) /\ f + m \in 1..s
    BY <1>1, <1>5
  <2>3. Muted(line, f + m)
    BY <2>2 DEF Stream
  <2>4. QED
    BY <1>3, <2>2, <2>3 DEF Muted
<1>7. ASSUME NEW f \in (t + 1)..(n - m)
      PROVE  f + m \in (s + 1)..n /\ f \in 1..(n - m) /\ f \in 1..(n - m + 1) /\ f + 1 \in 1..(n - m + 1)
             /\ (f + 1) + m = (f + m) + 1
  BY <1>1, <1>5
<1>8. \A f \in (t + 1)..(n - m) : Voiced(rest[2 * f - 1], rest[2 * f])
  <2>1. SUFFICES ASSUME NEW f \in (t + 1)..(n - m) PROVE Voiced(rest[2 * f - 1], rest[2 * f])
    OBVIOUS
  <2>2. PICK g : g = f + m
    OBVIOUS
  <2>3. Voiced(line[2 * g - 1], line[2 * g])
    BY <1>7, <2>2 DEF Stream
  <2>4. QED
    BY <1>3, <1>7, <2>2, <2>3
<1>9. \A f \in (t + 1)..(n - m) :
        OneStep(Place(rest, n - m, end, f + 1) - Place(rest, n - m, end, f))
  <2>1. SUFFICES ASSUME NEW f \in (t + 1)..(n - m)
                 PROVE  OneStep(Place(rest, n - m, end, f + 1) - Place(rest, n - m, end, f))
    OBVIOUS
  <2>2. PICK g : g = f + m
    OBVIOUS
  <2>3. OneStep(Place(line, n, end, g + 1) - Place(line, n, end, g))
    BY <1>7, <2>2 DEF Stream
  <2>4. Place(rest, n - m, end, f) = Place(line, n, end, g)
    BY <1>4, <1>7, <2>2
  <2>5. Place(rest, n - m, end, f + 1) = Place(line, n, end, g + 1)
    BY <1>4, <1>7, <2>2
  <2>6. QED
    BY <2>3, <2>4, <2>5
<1>10. QED
  <2>1. t + 1 \in 1..(n - m + 1)
    BY <1>5
  <2>2. Place(rest, n - m, end, t + 1) = Place(line, n, end, t + 1 + m)
    BY <1>4, <2>1
  <2>3. QED
    <3>1. Stream(rest, n - m, t, end)
      BY <1>1, <1>2, <1>5, <1>6, <1>8, <1>9 DEF Stream
    <3>2. QED
      BY <1>0, <2>2, <3>1, Zenon

LEMMA Added ==
  ASSUME NEW line, NEW n, NEW s, NEW end, Stream(line, n, s, end),
         NEW count \in Nat, NEW ratio \in Nat, OneStep(ratio),
         NEW out, Emitted(out, count, end, ratio)
  PROVE  /\ Stream(line \o out, n + count, s, end + count * ratio)
         /\ Place(line \o out, n + count, end + count * ratio, s + 1) = Place(line, n, end, s + 1)
<1>0. PICK more : more = line \o out
  OBVIOUS
<1>0b. PICK new : new = end + count * ratio
  OBVIOUS
<1>1. line \in Seq(Samples) /\ n \in Nat /\ Len(line) = 2 * n /\ s \in 0..n /\ end \in Int
  BY DEF Stream
<1>2. /\ more \in Seq(Samples) /\ Len(more) = 2 * (n + count)
      /\ \A i \in 1..(2 * n) : more[i] = line[i]
      /\ \A i \in 1..(2 * count) : more[2 * n + i] = out[i]
  <2>1. out \in Seq(Samples) /\ Len(out) = 2 * count
    BY DEF Emitted
  <2>2. QED
    <3>1. PICK S : S = Samples
      OBVIOUS
    <3>2. line \in Seq(S) /\ out \in Seq(S) /\ more = line \o out
      BY <1>0, <1>1, <2>1, <3>1
    <3>3. /\ more \in Seq(S) /\ Len(more) = Len(line) + Len(out)
          /\ \A i \in 1..(Len(line) + Len(out)) :
               more[i] = IF i <= Len(line) THEN line[i] ELSE out[i - Len(line)]
      BY <3>2, ConcatProperties
    <3>4. Len(more) = 2 * (n + count)
      BY <1>1, <2>1, <3>3
    <3>5. ASSUME NEW i \in 1..(2 * n) PROVE more[i] = line[i]
      <4>1. i \in 1..(Len(line) + Len(out)) /\ i <= Len(line)
        BY <1>1, <2>1
      <4>2. QED
        BY <3>3, <4>1
    <3>6. ASSUME NEW i \in 1..(2 * count) PROVE more[2 * n + i] = out[i]
      <4>1. PICK j : j = 2 * n + i
        OBVIOUS
      <4>2. j \in 1..(Len(line) + Len(out)) /\ ~(j <= Len(line)) /\ j - Len(line) = i
        BY <1>1, <2>1, <4>1
      <4>3. QED
        BY <3>3, <4>1, <4>2
    <3>7. QED
      BY <3>1, <3>3, <3>4, <3>5, <3>6
<1>3. ASSUME NEW f \in 1..n PROVE more[2 * f - 1] = line[2 * f - 1] /\ more[2 * f] = line[2 * f]
  <2>1. 2 * f - 1 \in 1..(2 * n) /\ 2 * f \in 1..(2 * n)
    BY <1>1
  <2>2. QED
    BY <1>2, <2>1
<1>4. ASSUME NEW k \in 1..count
      PROVE  more[2 * (n + k) - 1] = out[2 * k - 1] /\ more[2 * (n + k)] = out[2 * k]
  <2>1. 2 * k - 1 \in 1..(2 * count) /\ 2 * k \in 1..(2 * count)
        /\ 2 * n + (2 * k - 1) = 2 * (n + k) - 1 /\ 2 * n + 2 * k = 2 * (n + k)
    BY <1>1
  <2>2. QED
    BY <1>2, <2>1
<1>5. ASSUME NEW k \in 1..(count + 1)
      PROVE  Place(more, n + count, new, n + k) = end + (k - 1) * ratio /\ (k - 1) * ratio \in Int
  <2>1. (k - 1) * ratio \in Int
    OBVIOUS
  <2>2. CASE k = count + 1
    <3>1. n + k = n + count + 1 /\ k - 1 = count
      BY <1>1, <2>2
    <3>2. QED
      BY <1>0b, <2>1, <3>1 DEF Place
  <2>3. CASE k # count + 1
    <3>1. k \in 1..count /\ n + k # n + count + 1
      BY <1>1, <2>3
    <3>2. At(out[2 * k - 1]) = end + (k - 1) * ratio
      BY <3>1 DEF Emitted
    <3>3. QED
      BY <1>4, <2>1, <3>1, <3>2 DEF Place
  <2>4. QED
    BY <2>2, <2>3
<1>6. ASSUME NEW f \in 1..(n + 1)
      PROVE  Place(more, n + count, new, f) = Place(line, n, end, f)
  <2>1. CASE f = n + 1
    <3>1. 1 \in 1..(count + 1) /\ (1 - 1) * ratio = 0
      OBVIOUS
    <3>2. Place(more, n + count, new, n + 1) = end + (1 - 1) * ratio
      BY <1>5, <3>1
    <3>3. Place(line, n, end, n + 1) = end
      BY DEF Place
    <3>4. QED
      BY <1>1, <2>1, <3>1, <3>2, <3>3
  <2>2. CASE f # n + 1
    <3>1. f \in 1..n /\ f # n + count + 1
      BY <1>1, <2>2
    <3>2. QED
      BY <1>3, <2>2, <3>1 DEF Place
  <2>3. QED
    BY <2>1, <2>2
<1>7. \A f \in 1..s : Muted(more, f)
  <2>1. SUFFICES ASSUME NEW f \in 1..s PROVE Muted(more, f)
    OBVIOUS
  <2>2. Muted(line, f) /\ f \in 1..n
    BY <1>1 DEF Stream
  <2>3. QED
    BY <1>3, <2>2 DEF Muted
<1>8. \A f \in (s + 1)..(n + count) : Voiced(more[2 * f - 1], more[2 * f])
  <2>1. SUFFICES ASSUME NEW f \in (s + 1)..(n + count) PROVE Voiced(more[2 * f - 1], more[2 * f])
    OBVIOUS
  <2>2. CASE f <= n
    <3>1. f \in (s + 1)..n /\ f \in 1..n
      BY <1>1, <2>2
    <3>2. Voiced(line[2 * f - 1], line[2 * f])
      BY <3>1 DEF Stream
    <3>3. QED
      BY <1>3, <3>1, <3>2
  <2>3. CASE f > n
    <3>1. PICK k \in 1..count : f = n + k
      <4>1. f - n \in 1..count /\ f = n + (f - n)
        BY <1>1, <2>3
      <4>2. QED
        BY <4>1
    <3>2. Voiced(out[2 * k - 1], out[2 * k])
      BY DEF Emitted
    <3>3. QED
      BY <1>4, <3>1, <3>2
  <2>4. f <= n \/ f > n
    BY <1>1
  <2>5. QED
    BY <2>2, <2>3, <2>4
<1>9. \A f \in (s + 1)..(n + count) :
        OneStep(Place(more, n + count, new, f + 1) - Place(more, n + count, new, f))
  <2>1. SUFFICES ASSUME NEW f \in (s + 1)..(n + count)
                 PROVE  OneStep(Place(more, n + count, new, f + 1) - Place(more, n + count, new, f))
    OBVIOUS
  <2>2. CASE f <= n
    <3>1. f \in (s + 1)..n /\ f \in 1..(n + 1) /\ f + 1 \in 1..(n + 1)
      BY <1>1, <2>2
    <3>2. OneStep(Place(line, n, end, f + 1) - Place(line, n, end, f))
      BY <3>1 DEF Stream
    <3>3. Place(more, n + count, new, f) = Place(line, n, end, f)
          /\ Place(more, n + count, new, f + 1) = Place(line, n, end, f + 1)
      BY <1>6, <3>1
    <3>4. QED
      BY <3>2, <3>3
  <2>3. CASE f > n
    <3>1. PICK k \in 1..count : f = n + k
      <4>1. f - n \in 1..count /\ f = n + (f - n)
        BY <1>1, <2>3
      <4>2. QED
        BY <4>1
    <3>2. k \in 1..(count + 1) /\ k + 1 \in 1..(count + 1) /\ f + 1 = n + (k + 1) /\ (k + 1) - 1 = k
      BY <1>1, <3>1
    <3>3. Place(more, n + count, new, f) = end + (k - 1) * ratio /\ (k - 1) * ratio \in Int
      BY <1>5, <3>1, <3>2
    <3>4. Place(more, n + count, new, n + (k + 1)) = end + ((k + 1) - 1) * ratio
          /\ ((k + 1) - 1) * ratio \in Int
      BY <1>5, <3>2
    <3>5. k * ratio = (k - 1) * ratio + ratio /\ k * ratio \in Int
      OBVIOUS
    <3>6. Place(more, n + count, new, f + 1) = end + k * ratio
      BY <3>2, <3>4
    <3>7. Place(more, n + count, new, f + 1) - Place(more, n + count, new, f) = ratio
      <4>1. PICK a, b \in Int : a = (k - 1) * ratio /\ b = k * ratio
        BY <3>3, <3>5
      <4>2. b = a + ratio
        BY <3>5, <4>1
      <4>3. QED
        BY <1>1, <3>3, <3>6, <4>1, <4>2
    <3>8. QED
      BY <3>7
  <2>4. QED
    BY <1>1, <2>2, <2>3
<1>10. QED
  <2>1. s + 1 \in 1..(n + 1) /\ n + count \in Nat /\ s \in 0..(n + count)
    BY <1>1
  <2>2. Place(more, n + count, new, s + 1) = Place(line, n, end, s + 1)
    BY <1>6, <2>1
  <2>3. new \in Int
    BY <1>0b, <1>1
  <2>4. Stream(more, n + count, s, new)
    BY <1>2, <1>7, <1>8, <1>9, <2>1, <2>3 DEF Stream
  <2>5. QED
    BY <1>0, <1>0b, <2>2, <2>4, Zenon

\* A line of silence is one whatever comes next.
LEMMA Hushed ==
  ASSUME NEW n \in Nat, NEW line, line = Hush(2 * n), NEW end \in Int
  PROVE  Stream(line, n, n, end)
<1>1. line \in [1..(2 * n) -> Samples] /\ 2 * n \in Nat
  BY SilenceIs DEF Hush
<1>2. line \in Seq(Samples) /\ Len(line) = 2 * n
  BY <1>1, ListIs
<1>3. ASSUME NEW f \in 1..n PROVE Muted(line, f)
  <2>1. 2 * f - 1 \in 1..(2 * n) /\ 2 * f \in 1..(2 * n)
    OBVIOUS
  <2>2. QED
    BY <2>1 DEF Hush, Muted
<1>4. QED
  BY <1>2, <1>3 DEF Stream

LEMMA SilenceEnds ==
  ASSUME NEW line, NEW n, NEW end, Stream(line, n, n, end), NEW other \in Int
  PROVE  Stream(line, n, n, other)
<1>1. n \in Nat
  BY DEF Stream
<1>2. (n + 1)..n = {}
  BY <1>1
<1>3. QED
  BY <1>2 DEF Stream

-----------------------------------------------------------------------------
(* The ring.                                                               *)
RingTyped(r) == r = [pairs |-> r.pairs, dropped |-> r.dropped] /\ r.pairs \in Seq(Nat)

\* Pairs in their order, the first after a base.
Consecutive(pairs, base) ==
  pairs \in Seq(Nat) /\ \A i \in 1..Len(pairs) : pairs[i] = base + i

LEMMA OnePairIs ==
  ASSUME NEW r, RingTyped(r), NEW x \in Nat, NEW q, q = PushAudioPair(r, x)
  PROVE  RingTyped(q) /\ (Len(r.pairs) < RingCap => q.pairs = Append(r.pairs, x))
<1>1. r.pairs \in Seq(Nat) /\ Len(r.pairs) \in Nat
  BY DEF RingTyped
<1>2. CASE Len(r.pairs) = RingCap
  <2>1. r.pairs # <<>>
    BY <1>2, RatesAssumption
  <2>2. PICK t : t = Append(Tail(r.pairs), x)
    OBVIOUS
  <2>3. t \in Seq(Nat)
    BY <1>1, <2>1, <2>2
  <2>4. q = [pairs |-> t, dropped |-> r.dropped + 1]
    BY <1>2, <2>2 DEF PushAudioPair
  <2>5. QED
    BY <1>2, <2>3, <2>4, RatesAssumption DEF RingTyped
<1>3. CASE Len(r.pairs) # RingCap
  <2>1. PICK t : t = Append(r.pairs, x)
    OBVIOUS
  <2>2. t \in Seq(Nat)
    BY <1>1, <2>1
  <2>3. q = [r EXCEPT !.pairs = t]
    BY <1>3, <2>1, Zenon DEF PushAudioPair
  <2>4. q = [pairs |-> t, dropped |-> r.dropped]
    BY <2>3 DEF RingTyped
  <2>5. QED
    BY <2>1, <2>2, <2>4 DEF RingTyped
<1>4. QED
  BY <1>2, <1>3

LEMMA OneMorePair ==
  ASSUME NEW pairs, NEW base \in Nat, Consecutive(pairs, base), NEW n \in Nat, Len(pairs) = n,
         NEW x \in Nat, x = base + 1 + n
  PROVE  Consecutive(Append(pairs, x), base) /\ Len(Append(pairs, x)) = n + 1
<1>1. PICK more : more = Append(pairs, x)
  OBVIOUS
<1>2. more \in Seq(Nat) /\ Len(more) = n + 1 /\ more[n + 1] = x
      /\ \A i \in 1..n : more[i] = pairs[i]
  BY <1>1 DEF Consecutive
<1>3. ASSUME NEW i \in 1..(n + 1) PROVE more[i] = base + i
  <2>1. CASE i = n + 1
    BY <1>2, <2>1
  <2>2. CASE i # n + 1
    BY <1>2, <2>2 DEF Consecutive
  <2>3. QED
    BY <2>1, <2>2
<1>4. QED
  BY <1>1, <1>2, <1>3 DEF Consecutive

IsProduced(f, r, first, n) ==
  f = [i \in 0..n |-> IF i = 0 THEN r ELSE PushAudioPair(f[i - 1], first + i - 1)]

LEMMA ProducedExists ==
  ASSUME NEW r, NEW first
  PROVE  \A n \in Nat : \E f : IsProduced(f, r, first, n)
<1> DEFINE T == {n \in Nat : \E f : IsProduced(f, r, first, n)}
<1>1. 0 \in T
  <2>1. IsProduced([i \in 0..0 |-> r], r, first, 0)
    BY DEF IsProduced
  <2>2. QED
    BY <2>1
<1>2. ASSUME NEW n \in Nat, n \in T PROVE n + 1 \in T
  <2>1. PICK f : IsProduced(f, r, first, n)
    BY <1>2
  <2>2. PICK z : z = PushAudioPair(f[n], first + (n + 1) - 1)
    OBVIOUS
  <2>3. PICK g : g = [i \in 0..(n + 1) |-> IF i = n + 1 THEN z ELSE f[i]]
    OBVIOUS
  <2>4. ASSUME NEW i \in 0..(n + 1)
        PROVE  g[i] = IF i = 0 THEN r ELSE PushAudioPair(g[i - 1], first + i - 1)
    <3>1. CASE i = n + 1
      <4>1. n \in 0..(n + 1) /\ n # n + 1 /\ i - 1 = n /\ i # 0
        BY <3>1
      <4>2. g[n] = f[n] /\ g[i] = z
        BY <2>3, <3>1, <4>1
      <4>3. QED
        BY <2>2, <3>1, <4>1, <4>2
    <3>2. CASE i # n + 1
      <4>1. i \in 0..n /\ (i # 0 => i - 1 \in 0..(n + 1) /\ i - 1 # n + 1)
        BY <3>2
      <4>2. f[i] = IF i = 0 THEN r ELSE PushAudioPair(f[i - 1], first + i - 1)
        BY <2>1, <4>1 DEF IsProduced
      <4>3. g[i] = f[i] /\ (i # 0 => g[i - 1] = f[i - 1])
        BY <2>3, <3>2, <4>1
      <4>4. QED
        BY <4>2, <4>3
    <3>3. QED
      BY <3>1, <3>2
  <2>5. IsProduced(g, r, first, n + 1)
    BY <2>3, <2>4 DEF IsProduced
  <2>6. QED
    BY <2>5
<1> HIDE DEF T
<1>3. \A n \in Nat : n \in T
  BY <1>1, <1>2, Up
<1>4. QED
  BY <1>3 DEF T

LEMMA ProducedIs ==
  ASSUME NEW r, RingTyped(r), NEW first \in Nat, NEW count \in Nat,
         NEW q, q = Produced(r, first + 1, count)
  PROVE  RingTyped(q) /\ (r.pairs = <<>> /\ count <= RingCap =>
                            Len(q.pairs) = count /\ Consecutive(q.pairs, first))
<1> DEFINE f == CHOOSE f : f = [i \in 0..count |-> IF i = 0 THEN r
                                  ELSE PushAudioPair(f[i - 1], (first + 1) + i - 1)]
<1>1. \E g : IsProduced(g, r, first + 1, count)
  BY ProducedExists
<1>2. IsProduced(f, r, first + 1, count)
  BY <1>1 DEF IsProduced
<1>3. q = f[count]
  BY DEF Produced
<1> HIDE DEF f
<1> DEFINE Empty == r.pairs = <<>>
<1> DEFINE T == {i \in Nat : i <= count => /\ RingTyped(f[i])
                                           /\ Empty /\ i <= RingCap =>
                                                Len(f[i].pairs) = i /\ Consecutive(f[i].pairs, first)}
<1>4. 0 \in T
  <2>1. 0 \in 0..count
    OBVIOUS
  <2>2. f[0] = r
    BY <1>2, <2>1 DEF IsProduced
  <2>3. Empty => Len(r.pairs) = 0 /\ Consecutive(r.pairs, first)
    BY DEF Consecutive
  <2>4. QED
    BY <2>2, <2>3
<1>5. ASSUME NEW i \in Nat, i \in T PROVE i + 1 \in T
  <2>1. SUFFICES ASSUME i + 1 <= count
                 PROVE  /\ RingTyped(f[i + 1])
                        /\ Empty /\ i + 1 <= RingCap =>
                             Len(f[i + 1].pairs) = i + 1 /\ Consecutive(f[i + 1].pairs, first)
    OBVIOUS
  <2>2. PICK a, b : a = f[i] /\ b = f[i + 1]
    OBVIOUS
  <2>3. RingTyped(a)
    BY <1>5, <2>1, <2>2
  <2>4. PICK x \in Nat : x = first + 1 + i
    OBVIOUS
  <2>5. b = PushAudioPair(a, x)
    <3>1. i + 1 \in 0..count /\ i + 1 # 0 /\ (i + 1) - 1 = i /\ (first + 1) + (i + 1) - 1 = x
      BY <2>1, <2>4
    <3>2. f[i + 1] = PushAudioPair(f[(i + 1) - 1], (first + 1) + (i + 1) - 1)
      BY <1>2, <3>1 DEF IsProduced
    <3>3. QED
      BY <2>2, <3>1, <3>2
  <2>6. RingTyped(b) /\ (Len(a.pairs) < RingCap => b.pairs = Append(a.pairs, x))
    BY <2>3, <2>5, OnePairIs
  <2>7. ASSUME Empty, i + 1 <= RingCap PROVE Len(b.pairs) = i + 1 /\ Consecutive(b.pairs, first)
    <3>1. Len(a.pairs) = i /\ Consecutive(a.pairs, first)
      BY <1>5, <2>1, <2>2, <2>7, RatesAssumption
    <3>2. b.pairs = Append(a.pairs, x)
      BY <2>6, <2>7, <3>1, RatesAssumption
    <3>3. QED
      BY <2>4, <3>1, <3>2, OneMorePair
  <2>8. QED
    BY <2>2, <2>6, <2>7
<1> HIDE DEF T
<1>6. count \in T
  BY <1>4, <1>5, Up
<1>7. QED
  BY <1>3, <1>6 DEF T

LEMMA MinIs ==
  ASSUME NEW a \in Int, NEW b \in Int
  PROVE  Min({a, b}) = IF a <= b THEN a ELSE b
<1>1. CASE a <= b
  <2>1. \A x \in {a, b} : (\A y \in {a, b} : x <= y) => x = a
    BY <1>1
  <2>2. QED
    BY <1>1, <2>1 DEF Min
<1>2. CASE ~(a <= b)
  <2>1. \A x \in {a, b} : (\A y \in {a, b} : x <= y) => x = b
    BY <1>2
  <2>2. QED
    BY <1>2, <2>1 DEF Min
<1>3. QED
  BY <1>1, <1>2

LEMMA DrainIs ==
  ASSUME NEW r, RingTyped(r), NEW base \in Nat, Consecutive(r.pairs, base),
         NEW chunk, chunk = DrainAudio(r), NEW rest, rest = AfterDrain(r)
  PROVE  /\ Len(chunk) \in 0..Len(r.pairs) /\ (r.pairs # <<>> => Len(chunk) > 0)
         /\ Consecutive(chunk, base) /\ RingTyped(rest)
         /\ Consecutive(rest.pairs, base + Len(chunk))
         /\ Len(rest.pairs) = Len(r.pairs) - Len(chunk)
<1>1. PICK p : p = r.pairs
  OBVIOUS
<1>2. p \in Seq(Nat) /\ Len(p) \in Nat /\ \A i \in 1..Len(p) : p[i] = base + i
  BY <1>1 DEF Consecutive
<1>3. PICK n : n = Min({Scratch, Len(p)})
  OBVIOUS
<1>4. n = IF Scratch <= Len(p) THEN Scratch ELSE Len(p)
  BY <1>2, <1>3, MinIs, RatesAssumption
<1>5. n \in 0..Len(p) /\ (p # <<>> => n > 0)
  BY <1>2, <1>4, RatesAssumption
<1>6. chunk = SubSeq(p, 1, n)
  BY <1>1, <1>3 DEF DrainAudio
<1>7. Consecutive(chunk, base) /\ Len(chunk) = n
  BY <1>2, <1>5, <1>6 DEF Consecutive
<1>8. PICK s : s = SubSeq(p, Scratch + 1, Len(p))
  OBVIOUS
<1>9. s \in Seq(Nat) /\ Len(s) = Len(p) - n /\ \A i \in 1..Len(s) : s[i] = base + n + i
  <2>1. CASE Scratch <= Len(p)
    BY <1>2, <1>4, <1>8, <2>1, RatesAssumption
  <2>2. CASE ~(Scratch <= Len(p))
    <3>1. s = <<>>
      BY <1>2, <1>8, <2>2, RatesAssumption
    <3>2. QED
      BY <1>2, <1>4, <2>2, <3>1
  <2>3. QED
    BY <2>1, <2>2
<1>10. rest = [pairs |-> s, dropped |-> r.dropped]
  <2>1. rest = [r EXCEPT !.pairs = s]
    BY <1>1, <1>8, Zenon DEF AfterDrain
  <2>2. QED
    BY <2>1 DEF RingTyped
<1>11. QED
  BY <1>1, <1>5, <1>7, <1>9, <1>10 DEF RingTyped, Consecutive

-----------------------------------------------------------------------------
(* What the whole sink keeps.  The line is what is queued and what is about*)
(* to be; its first sound comes one step after the last one heard, or      *)
(* later if a cut came between.                                            *)
EndOf(res) == res.prev * Unit + res.phase
Follows(place, drops, last) ==
  last # Silence => /\ last \in Samples
                    /\ IF drops = 0 THEN OneStep(place - At(last)) ELSE place - At(last) > 0
Lined(line, res, drops, last) ==
  \E n, s \in Nat : /\ Stream(line, n, s, EndOf(res))
                    /\ ~res.hasPrev => s = n
                    /\ Follows(Place(line, n, EndOf(res), s + 1), drops, last)
Even(samples) == samples \in Seq(Samples) /\ \E k \in Nat : Len(samples) = 2 * k

ResTyped(res) ==
  /\ res = [prev |-> res.prev, hasPrev |-> res.hasPrev, phase |-> res.phase, ratio |-> res.ratio]
  /\ res.prev \in Nat /\ res.hasPrev \in BOOLEAN /\ res.phase \in Nat
  /\ IF res.hasPrev THEN res.prev > Replayed ELSE res.phase = 0

Base == made - Len(ring.pairs)
RingInv ==
  /\ RingTyped(ring) /\ made \in Nat
  /\ IF pc = "discard" THEN made = Replayed /\ ~sink.res.hasPrev
     ELSE /\ Base \in Nat /\ Base >= Replayed /\ Consecutive(ring.pairs, Base)
          /\ sink.res.hasPrev => sink.res.prev = Base
  /\ pc \notin {"discard", "drain", "extend"} => ring.pairs = <<>>
LineInv ==
  /\ ResTyped(sink.res) /\ Even(sink.queue) /\ Even(sink.waiting)
  /\ pc # "extend" => sink.waiting = <<>>
  /\ ~sink.res.hasPrev => heard = Silence
  /\ Lined(sink.queue \o sink.waiting, sink.res, sink.drops, heard)
DeviceInv == \A f \in DOMAIN device : InStep(f)

\* A step that leaves the sound alone.
LEMMA SoundStays ==
  ASSUME RingInv, LineInv, DeviceInv, UNCHANGED <<ring, made, heard, device>>,
         sink'.queue = sink.queue, sink'.waiting = sink.waiting, sink'.res = sink.res,
         sink'.drops = sink.drops,
         pc' = pc \/ (pc \notin {"extend", "discard"} /\ pc' # "discard" /\ ring.pairs = <<>>)
  PROVE  RingInv' /\ LineInv' /\ DeviceInv'
<1>1. RingInv'
  BY DEF RingInv, Base
<1>2. LineInv'
  BY DEF LineInv
<1>3. DeviceInv'
  BY DEF DeviceInv, InStep
<1>4. QED
  BY <1>1, <1>2, <1>3

LEMMA SoundStarts == Init => RingInv /\ LineInv /\ DeviceInv
<1> SUFFICES ASSUME Init PROVE RingInv /\ LineInv /\ DeviceInv
  OBVIOUS
<1>1. pc = "discard" /\ made = Replayed /\ ring = Produced(EmptyRing, 1, Replayed)
      /\ device = <<>> /\ heard = Silence
  BY DEF Init
<1>2. sink.queue = Hush(LowWatermark) /\ sink.waiting = <<>> /\ sink.drops = 0
      /\ sink.res = [prev |-> 0, hasPrev |-> FALSE, phase |-> 0, ratio |-> NoRatio]
  BY DEF Init, OpenSink, Fresh
<1>3. RingInv
  <2>1. RingTyped(EmptyRing)
    BY DEF RingTyped, EmptyRing
  <2>2. ring = Produced(EmptyRing, 0 + 1, Replayed)
    BY <1>1
  <2>3. RingTyped(ring)
    BY <2>1, <2>2, ProducedIs, LoopAssumption
  <2>4. QED
    BY <1>1, <1>2, <2>3, LoopAssumption DEF RingInv
<1>4. LineInv
  <2>1. PICK l \in Nat : LowWatermark = 2 * l
    BY Watermarks
  <2>2. PICK e : e = EndOf(sink.res)
    OBVIOUS
  <2>3. e \in Int
    BY <1>2, <2>2, Units DEF EndOf
  <2>4. PICK q : q = Hush(2 * l)
    OBVIOUS
  <2>5. Stream(q, l, l, e)
    BY <2>3, <2>4, Hushed
  <2>6. q \in Seq(Samples) /\ Len(q) = 2 * l /\ q \o <<>> = q
    BY <2>5 DEF Stream
  <2>7. Follows(Place(q, l, e, l + 1), 0, Silence)
    BY DEF Follows
  <2>8. Lined(q \o <<>>, sink.res, 0, Silence)
    BY <1>2, <2>2, <2>5, <2>6, <2>7 DEF Lined
  <2>9. Even(q) /\ Even(<<>>)
    BY <2>6 DEF Even
  <2>10. ResTyped(sink.res)
    BY <1>2 DEF ResTyped
  <2>11. QED
    BY <1>1, <1>2, <2>1, <2>4, <2>8, <2>9, <2>10 DEF LineInv
<1>5. DeviceInv
  BY <1>1 DEF DeviceInv
<1>6. QED
  BY <1>3, <1>4, <1>5

\* The chunk of a call of push goes on where the one before it ended.
LEMMA PrimesGoOn ==
  ASSUME TypeOK, RingInv, LineInv, PushPrimes
  PROVE  \E b, n, phase, ratio \in Nat :
           LET r == [sink.res EXCEPT !.ratio = RateFor(Len(PrimedQueue))]
           IN  /\ b > Replayed /\ ratio > 0 /\ OneStep(ratio)
               /\ GoesOn(r, DrainAudio(ring), b, n, phase, ratio)
               /\ phase = sink.res.phase
               /\ sink.res.hasPrev => b = sink.res.prev
               /\ RingTyped(ring') /\ Consecutive(ring'.pairs, b + n)
               /\ made - Len(ring'.pairs) = b + n
<1>1. pc = "drain" /\ ring.pairs # <<>> /\ ring' = AfterDrain(ring)
  BY DEF PushPrimes
<1>2. RingTyped(ring) /\ made \in Nat /\ Base \in Nat /\ Base >= Replayed
      /\ Consecutive(ring.pairs, Base) /\ (sink.res.hasPrev => sink.res.prev = Base)
  BY <1>1 DEF RingInv
<1>3. PICK base \in Nat : base = Base
  BY <1>2
<1>4. PICK chunk : chunk = DrainAudio(ring)
  OBVIOUS
<1>5. PICK m \in 0..Len(ring.pairs) :
        /\ m > 0 /\ Consecutive(chunk, base) /\ Len(chunk) = m
        /\ RingTyped(ring') /\ Consecutive(ring'.pairs, base + m)
        /\ Len(ring'.pairs) = Len(ring.pairs) - m
  <2>1. PICK r, rest : r = ring /\ rest = ring'
    OBVIOUS
  <2>2. RingTyped(r) /\ Consecutive(r.pairs, base) /\ r.pairs # <<>>
    BY <1>1, <1>2, <1>3, <2>1
  <2>3. chunk = DrainAudio(r) /\ rest = AfterDrain(r)
    BY <1>1, <1>4, <2>1
  <2>4. /\ Len(chunk) \in 0..Len(r.pairs) /\ (r.pairs # <<>> => Len(chunk) > 0)
        /\ Consecutive(chunk, base) /\ RingTyped(rest)
        /\ Consecutive(rest.pairs, base + Len(chunk))
        /\ Len(rest.pairs) = Len(r.pairs) - Len(chunk)
    BY <2>2, <2>3, DrainIs
  <2>5. QED
    BY <2>1, <2>2, <2>4
<1>6. m \in Nat /\ Len(ring.pairs) \in Nat /\ made - Len(ring.pairs) = base
  BY <1>2, <1>3 DEF RingTyped, Base
<1>7. made - Len(ring'.pairs) = base + m
  <2>1. PICK h, k : h = Len(ring.pairs) /\ k = Len(ring'.pairs)
    OBVIOUS
  <2>2. h \in Nat /\ k = h - m /\ made - h = base
    BY <1>5, <1>6, <2>1
  <2>3. PICK all \in Nat : all = made
    BY <1>2
  <2>4. all - h = base /\ all \in Int /\ h \in Int /\ m \in Int
    BY <1>6, <2>2, <2>3
  <2>5. all - k = base + m
    BY <2>2, <2>4
  <2>6. QED
    BY <2>1, <2>3, <2>5
<1>8. Len(PrimedQueue) \in Nat
  <2>1. PICK q : q = PrimedQueue
    OBVIOUS
  <2>2. CASE Len(sink.queue) = 0
    <3>1. q = Hush(LowWatermark)
      BY <2>1, <2>2 DEF PrimedQueue
    <3>2. PICK l \in Nat : LowWatermark = 2 * l
      BY Watermarks
    <3>3. Stream(q, l, l, 0)
      BY <3>1, <3>2, Hushed
    <3>4. QED
      BY <2>1, <3>3 DEF Stream
  <2>3. CASE Len(sink.queue) # 0
    BY <2>3 DEF PrimedQueue, LineInv, Even
  <2>4. QED
    BY <2>2, <2>3
<1>9. PICK ratio \in Nat : ratio = RateFor(Len(PrimedQueue)) /\ ratio > 0 /\ OneStep(ratio)
  BY <1>8, RatesInStep
<1>10. PICK r : r = [sink.res EXCEPT !.ratio = ratio]
  OBVIOUS
<1>11. PICK res : res = sink.res
  OBVIOUS
<1>12. ResTyped(res)
  BY <1>11 DEF LineInv
<1>13. PICK phase \in Nat : phase = res.phase
  BY <1>12 DEF ResTyped
<1>14. r = [prev |-> res.prev, hasPrev |-> res.hasPrev, phase |-> phase, ratio |-> ratio]
  BY <1>10, <1>11, <1>12, <1>13 DEF ResTyped
<1>15. r.hasPrev = res.hasPrev /\ r.prev = res.prev
  BY <1>14
<1>16. PICK off \in {0, 1} : off = IF res.hasPrev THEN 0 ELSE 1
  BY <1>12 DEF ResTyped
<1>17. PICK b \in Nat : b = base + off
  BY <1>16
<1>18. PICK n \in Nat : n = m - off
  BY <1>5, <1>6, <1>16
<1>19. GoesOn(r, chunk, b, n, phase, ratio)
  <2>1. r.hasPrev \in BOOLEAN /\ (~r.hasPrev => phase = 0)
    BY <1>12, <1>13, <1>15 DEF ResTyped
  <2>2. chunk \in Seq(Nat) /\ Len(chunk) > 0 /\ \A i \in 1..Len(chunk) : chunk[i] = base + i
    BY <1>5 DEF Consecutive
  <2>3. (IF r.hasPrev THEN 0 ELSE 1) = off
    BY <1>15, <1>16
  <2>4. b = (IF r.hasPrev THEN r.prev ELSE chunk[1])
    <3>1. CASE r.hasPrev
      BY <1>2, <1>3, <1>11, <1>15, <1>16, <1>17, <3>1
    <3>2. CASE ~r.hasPrev
      BY <1>6, <1>15, <1>16, <1>17, <2>2, <3>2
    <3>3. QED
      BY <3>1, <3>2
  <2>5. \A i \in 1..Len(chunk) : chunk[i] = b + i - off
    BY <1>17, <2>2
  <2>6. n = Len(chunk) - off
    BY <1>5, <1>18
  <2>7. r = [prev |-> r.prev, hasPrev |-> r.hasPrev, phase |-> phase, ratio |-> ratio]
    BY <1>14
  <2>8. QED
    BY <2>1, <2>2, <2>3, <2>4, <2>5, <2>6, <2>7 DEF GoesOn
<1>20. b > Replayed
  <2>1. CASE res.hasPrev
    BY <1>2, <1>3, <1>11, <1>12, <1>16, <1>17, <2>1 DEF ResTyped
  <2>2. CASE ~res.hasPrev
    BY <1>2, <1>3, <1>16, <1>17, <2>2, LoopAssumption
  <2>3. QED
    BY <2>1, <2>2
<1>21. res.hasPrev => b = res.prev
  BY <1>2, <1>3, <1>11, <1>16, <1>17
<1>22. b + n = base + m
  BY <1>6, <1>16, <1>17, <1>18
<1>23. QED
  BY <1>4, <1>5, <1>7, <1>9, <1>10, <1>11, <1>13, <1>19, <1>20, <1>21, <1>22

\* What is queued when push starts, primed if it was empty: still one line, whose next
\* place is the first of the chunk.
LEMMA PrimedLine ==
  ASSUME LineInv, pc # "extend", NEW e \in Int, sink.res.hasPrev => e = EndOf(sink.res)
  PROVE  \E n, s \in Nat : /\ Stream(PrimedQueue, n, s, e)
                           /\ Follows(Place(PrimedQueue, n, e, s + 1), sink.drops, heard)
<1>1. PICK q : q = sink.queue
  OBVIOUS
<1>2. q \in Seq(Samples) /\ q \o sink.waiting = q
  <2>1. q \in Seq(Samples) /\ sink.waiting = <<>>
    BY <1>1 DEF LineInv, Even
  <2>2. q \o <<>> = q
    BY <2>1
  <2>3. QED
    BY <2>1, <2>2
<1>3. PICK n, s \in Nat :
        /\ Stream(q, n, s, EndOf(sink.res))
        /\ ~sink.res.hasPrev => s = n
        /\ Follows(Place(q, n, EndOf(sink.res), s + 1), sink.drops, heard)
  BY <1>1, <1>2 DEF LineInv, Lined
<1>4. ASSUME NEW x, ~sink.res.hasPrev PROVE Follows(x, sink.drops, heard)
  BY <1>4 DEF LineInv, Follows
<1>5. CASE Len(q) = 0
  <2>1. PICK l \in Nat : LowWatermark = 2 * l
    BY Watermarks
  <2>2. PICK h : h = PrimedQueue
    OBVIOUS
  <2>3. h = Hush(2 * l)
    BY <1>1, <1>5, <2>1, <2>2 DEF PrimedQueue
  <2>4. Stream(h, l, l, e)
    BY <2>3, Hushed
  <2>5. Place(h, l, e, l + 1) = e
    BY DEF Place
  <2>6. Follows(e, sink.drops, heard)
    <3>1. CASE sink.res.hasPrev
      <4>1. n = 0 /\ s = 0
        BY <1>3, <1>5 DEF Stream
      <4>2. Place(q, n, EndOf(sink.res), s + 1) = EndOf(sink.res)
        BY <4>1 DEF Place
      <4>3. QED
        BY <1>3, <3>1, <4>2
    <3>2. CASE ~sink.res.hasPrev
      BY <1>4, <3>2
    <3>3. QED
      BY <3>1, <3>2
  <2>7. QED
    BY <2>2, <2>4, <2>5, <2>6
<1>6. CASE Len(q) # 0
  <2>1. PrimedQueue = q
    BY <1>1, <1>6 DEF PrimedQueue
  <2>2. CASE sink.res.hasPrev
    BY <1>3, <2>1, <2>2
  <2>3. CASE ~sink.res.hasPrev
    <3>1. Stream(q, n, n, e)
      BY <1>3, <2>3, SilenceEnds
    <3>2. QED
      BY <1>4, <2>1, <2>3, <3>1
  <2>4. QED
    BY <2>2, <2>3
<1>7. QED
  BY <1>5, <1>6

LEMMA PrimesKept ==
  ASSUME TypeOK, RingInv, LineInv, PushPrimes
  PROVE  RingInv' /\ LineInv'
<1>1. /\ pc = "drain" /\ pc' = "extend" /\ UNCHANGED <<made, heard>>
      /\ sink' = Primed(sink, DrainAudio(ring))
  BY DEF PushPrimes, speaker
<1>2. PICK chunk : chunk = DrainAudio(ring)
  OBVIOUS
<1>3. PICK r : r = [sink.res EXCEPT !.ratio = RateFor(Len(PrimedQueue))]
  OBVIOUS
<1>4. PICK b, n, phase, ratio \in Nat :
        /\ b > Replayed /\ ratio > 0 /\ OneStep(ratio)
        /\ GoesOn(r, chunk, b, n, phase, ratio)
        /\ phase = sink.res.phase
        /\ sink.res.hasPrev => b = sink.res.prev
        /\ RingTyped(ring') /\ Consecutive(ring'.pairs, b + n)
        /\ made - Len(ring'.pairs) = b + n
  BY <1>2, <1>3, PrimesGoOn
<1>5. PICK count, left \in Nat : \E out :
        /\ Resampled(r, chunk) =
             [out |-> out, next |-> [prev |-> b + n, hasPrev |-> TRUE,
                                     phase |-> left, ratio |-> ratio]]
        /\ Emitted(out, count, b * Unit + phase, ratio)
        /\ (b + n) * Unit + left = b * Unit + phase + count * ratio
  <2>1. b > Replayed /\ ratio > 0 /\ GoesOn(r, chunk, b, n, phase, ratio)
    BY <1>4
  <2>2. Emits(r, chunk, b, n, phase, ratio)
    BY <2>1, ResampledIs
  <2>3. QED
    BY <2>2 DEF Emits
<1>6. PICK out :
        /\ Resampled(r, chunk) =
             [out |-> out, next |-> [prev |-> b + n, hasPrev |-> TRUE,
                                     phase |-> left, ratio |-> ratio]]
        /\ Emitted(out, count, b * Unit + phase, ratio)
        /\ (b + n) * Unit + left = b * Unit + phase + count * ratio
  BY <1>5
<1>7. PICK e : e = b * Unit + phase
  OBVIOUS
<1>8. e \in Int /\ (sink.res.hasPrev => e = EndOf(sink.res))
  BY <1>4, <1>7, Units DEF EndOf
<1>9. PICK q : q = PrimedQueue
  OBVIOUS
<1>10. PICK m, s \in Nat : Stream(q, m, s, e) /\ Follows(Place(q, m, e, s + 1), sink.drops, heard)
  BY <1>1, <1>8, <1>9, PrimedLine
<1>11. Emitted(out, count, e, ratio)
  BY <1>6, <1>7
<1>12. PICK new : new = e + count * ratio
  OBVIOUS
<1>13. new \in Int
  BY <1>8, <1>12
<1>14. PICK more : more = q \o out
  OBVIOUS
<1>15. Stream(more, m + count, s, new)
       /\ Place(more, m + count, new, s + 1) = Place(q, m, e, s + 1)
  <2>1. Stream(q, m, s, e) /\ OneStep(ratio)
    BY <1>4, <1>10
  <2>2. QED
    <3>1. Stream(q \o out, m + count, s, e + count * ratio)
          /\ Place(q \o out, m + count, e + count * ratio, s + 1) = Place(q, m, e, s + 1)
      BY <1>11, <2>1, Added
    <3>2. QED
      BY <1>12, <1>14, <3>1, Zenon
<1>16. sink'.queue = q /\ sink'.waiting = out /\ sink'.drops = sink.drops
       /\ sink'.res = [prev |-> b + n, hasPrev |-> TRUE, phase |-> left, ratio |-> ratio]
  <2>1. Ahead(chunk) = Resampled(r, chunk)
    BY <1>3 DEF Ahead
  <2>2. Ahead(chunk).out = out
        /\ Ahead(chunk).next = [prev |-> b + n, hasPrev |-> TRUE, phase |-> left, ratio |-> ratio]
    BY <1>6, <2>1
  <2>3. PICK some \in {0, 1} : \E least :
          sink' = [queue |-> PrimedQueue, res |-> Ahead(chunk).next, waiting |-> Ahead(chunk).out,
                   drops |-> sink.drops, reprimes |-> sink.reprimes + some,
                   lastDepth |-> sink.lastDepth, minDepth |-> least]
    BY <1>1, <1>2, PrimedIs DEF TypeOK
  <2>4. QED
    BY <1>9, <2>2, <2>3
<1>17. PICK last \in Nat : last = b + n
  OBVIOUS
<1>18. sink'.res.prev = last /\ sink'.res.hasPrev /\ sink'.res.phase = left /\ sink'.res.ratio = ratio
  BY <1>16, <1>17
<1>19. EndOf(sink'.res) = new
  BY <1>6, <1>7, <1>12, <1>17, <1>18 DEF EndOf
<1>20. ResTyped(sink'.res)
  <2>1. last > Replayed
    BY <1>4, <1>17, LoopAssumption
  <2>2. QED
    BY <1>16, <1>17, <1>18, <2>1 DEF ResTyped
<1>21. Lined(more, sink'.res, sink'.drops, heard')
  <2>4. Follows(Place(more, m + count, new, s + 1), sink'.drops, heard')
    BY <1>1, <1>10, <1>15, <1>16
  <2>5. m + count \in Nat
    OBVIOUS
  <2>6. QED
    BY <1>15, <1>18, <1>19, <2>4, <2>5 DEF Lined
<1>22. Even(q) /\ Even(out)
  BY <1>6, <1>10 DEF Even, Stream, Emitted
<1>23. LineInv'
  BY <1>1, <1>14, <1>16, <1>18, <1>20, <1>21, <1>22 DEF LineInv
<1>24. RingInv'
  <2>1. Base' = last /\ made \in Nat
    BY <1>1, <1>4, <1>17 DEF Base, RingInv
  <2>2. last >= Replayed
    BY <1>4, <1>17, LoopAssumption
  <2>3. Consecutive(ring'.pairs, Base')
    BY <1>4, <1>17, <2>1
  <2>4. QED
    BY <1>1, <1>4, <1>18, <2>1, <2>2, <2>3 DEF RingInv
<1>25. QED
  BY <1>23, <1>24

\* Later places than the one that follows still follow, once a cut has come between.
LEMMA StillFollows ==
  ASSUME NEW place \in Int, NEW later \in Int, place <= later, NEW drops \in Nat,
         Follows(place, drops, heard)
  PROVE  Follows(later, drops + 1, heard)
<1> SUFFICES ASSUME heard # Silence
             PROVE  heard \in Samples /\ later - At(heard) > 0
  BY DEF Follows
<1>1. heard \in Samples
  BY DEF Follows
<1>2. PICK h \in Int : h = At(heard)
  BY <1>1, AtIs
<1>3. place - h > 0
  <2>1. CASE drops = 0
    BY <1>2, <2>1, StepsForward DEF Follows
  <2>2. CASE drops # 0
    BY <1>2, <2>2 DEF Follows
  <2>3. QED
    BY <2>1, <2>2
<1>4. later - h > 0
  BY <1>3
<1>5. QED
  BY <1>1, <1>2, <1>4

\* A line that lost its oldest frames.
LEMMA CutLine ==
  ASSUME NEW line, NEW n, NEW s, NEW end, Stream(line, n, s, end), NEW m \in 0..n,
         NEW drops \in Nat, Follows(Place(line, n, end, s + 1), drops, heard)
  PROVE  /\ Stream(After(line, m), n - m, Left(s, m), end)
         /\ Follows(Place(After(line, m), n - m, end, Left(s, m) + 1), drops + 1, heard)
<1>1. n \in Nat /\ s \in 0..n
  BY DEF Stream
<1>2. Stream(After(line, m), n - m, Left(s, m), end)
      /\ Place(After(line, m), n - m, end, Left(s, m) + 1) = Place(line, n, end, Left(s, m) + 1 + m)
  BY Dropped
<1>3. PICK f \in (s + 1)..(n + 1) : f = Left(s, m) + 1 + m
  <2>1. PICK t : t = Left(s, m)
    OBVIOUS
  <2>2. t \in 0..(n - m) /\ t + m >= s
    BY <1>1, <2>1, LeftIs
  <2>3. t + 1 + m \in (s + 1)..(n + 1)
    BY <1>1, <2>2
  <2>4. QED
    BY <2>1, <2>3
<1>4. PICK a, b : a = Place(line, n, end, s + 1) /\ b = Place(line, n, end, f)
  OBVIOUS
<1>5. s + 1 \in 1..(n + 1) /\ f \in 1..(n + 1)
  BY <1>1
<1>6. a \in Int /\ b \in Int /\ a <= b
  BY <1>4, <1>5, PlaceIs, Ascends
<1>7. Follows(b, drops + 1, heard)
  BY <1>4, <1>6, StillFollows
<1>8. QED
  BY <1>2, <1>3, <1>4, <1>7

LEMMA ExtendsKept ==
  ASSUME TypeOK, RingInv, LineInv, PushExtends
  PROVE  RingInv' /\ LineInv'
<1>1. pc = "extend" /\ pc' = "drain" /\ UNCHANGED <<made, ring, heard>> /\ sink' = Extended(sink)
  BY DEF PushExtends, speaker
<1>2. PICK line : line = sink.queue \o sink.waiting
  OBVIOUS
<1>3. CASE sink.waiting = <<>>
  <2>1. sink' = sink
    BY <1>1, <1>2, <1>3, ExtendedIs DEF TypeOK
  <2>2. QED
    BY <1>1, <1>3, <2>1 DEF RingInv, LineInv, Base
<1>4. CASE sink.waiting # <<>>
  <2>1. PICK last : \E cut \in {0, 1} :
          /\ cut = IF Len(line) > HighWatermark THEN 1 ELSE 0
          /\ sink' = [queue |-> ApplyWatermark(line), res |-> sink.res, waiting |-> <<>>,
                      drops |-> sink.drops + cut, reprimes |-> sink.reprimes,
                      lastDepth |-> last, minDepth |-> sink.minDepth]
    BY <1>1, <1>2, <1>4, ExtendedIs DEF TypeOK
  <2>2. PICK cut \in {0, 1} :
          /\ cut = IF Len(line) > HighWatermark THEN 1 ELSE 0
          /\ sink' = [queue |-> ApplyWatermark(line), res |-> sink.res, waiting |-> <<>>,
                      drops |-> sink.drops + cut, reprimes |-> sink.reprimes,
                      lastDepth |-> last, minDepth |-> sink.minDepth]
    BY <2>1
  <2>3. sink'.queue = ApplyWatermark(line) /\ sink'.res = sink.res /\ sink'.waiting = <<>>
        /\ sink'.drops = sink.drops + cut
    BY <2>2
  <2>4. PICK end : end = EndOf(sink.res)
    OBVIOUS
  <2>5. PICK n, s \in Nat : /\ Stream(line, n, s, end)
                            /\ ~sink.res.hasPrev => s = n
                            /\ Follows(Place(line, n, end, s + 1), sink.drops, heard)
    BY <1>2, <2>4 DEF LineInv, Lined
  <2>6. PICK q : q = ApplyWatermark(line)
    OBVIOUS
  <2>7. Len(line) = 2 * n /\ sink.drops \in Nat
    BY <2>5 DEF Stream, TypeOK, SinkTyped
  <2>8. \E k, t \in Nat : /\ Stream(q, k, t, end)
                          /\ ~sink.res.hasPrev => t = k
                          /\ Follows(Place(q, k, end, t + 1), sink'.drops, heard)
    <3>1. CASE Len(line) <= HighWatermark
      <4>1. q = line /\ sink'.drops = sink.drops
        BY <2>2, <2>3, <2>6, <2>7, <3>1, Watermarks DEF ApplyWatermark
      <4>2. QED
        BY <2>5, <4>1
    <3>2. CASE ~(Len(line) <= HighWatermark)
      <4>1. PICK l \in Nat : LowWatermark = 2 * l
        BY Watermarks
      <4>2. 2 * l <= 2 * n
        BY <2>7, <3>2, <4>1, Watermarks
      <4>3. PICK m \in 0..n : m = n - l
        BY <4>2
      <4>4. Len(line) - LowWatermark + 1 = 2 * m + 1
        BY <2>7, <4>1, <4>3
      <4>5. q = After(line, m)
        BY <2>6, <3>2, <4>4 DEF ApplyWatermark, After
      <4>6. sink'.drops = sink.drops + 1
        BY <2>2, <2>3, <2>7, <3>2, Watermarks
      <4>7. /\ Stream(After(line, m), n - m, Left(s, m), end)
            /\ Follows(Place(After(line, m), n - m, end, Left(s, m) + 1), sink.drops + 1, heard)
        BY <2>5, <2>7, CutLine
      <4>8. Left(s, m) \in Nat /\ n - m \in Nat /\ (s = n => Left(s, m) = n - m)
        BY <2>5, LeftIs DEF Stream
      <4>9. QED
        BY <2>5, <4>5, <4>6, <4>7, <4>8
    <3>3. QED
      BY <3>1, <3>2
  <2>9. PICK k, t \in Nat : /\ Stream(q, k, t, end)
                            /\ ~sink.res.hasPrev => t = k
                            /\ Follows(Place(q, k, end, t + 1), sink'.drops, heard)
    BY <2>8
  <2>10. q \in Seq(Samples) /\ Len(q) = 2 * k
    BY <2>9 DEF Stream
  <2>11. q \o <<>> = q /\ Even(q) /\ Even(<<>>)
    BY <2>10 DEF Even
  <2>12. Lined(q \o <<>>, sink'.res, sink'.drops, heard')
    BY <1>1, <2>3, <2>4, <2>9, <2>11 DEF Lined
  <2>13. LineInv'
    BY <1>1, <2>3, <2>6, <2>11, <2>12 DEF LineInv
  <2>14. RingInv'
    BY <1>1, <2>3 DEF RingInv, Base
  <2>15. QED
    BY <2>13, <2>14
<1>5. QED
  BY <1>3, <1>4

\* The two samples of a frame with sound are of one place.
LEMMA VoicedTogether ==
  ASSUME NEW left, NEW right, Voiced(left, right)
  PROVE  left[1] = "L" /\ left # Silence /\ right = <<"R">> \o Tail(left)
<1>1. left \in Samples /\ left[1] = "L" /\ right = <<"R", left[2], left[3], left[4]>>
  BY DEF Voiced
<1>2. left = <<left[1], left[2], left[3], left[4]>>
  BY <1>1 DEF Samples
<1>3. PICK x, y, z : x = left[2] /\ y = left[3] /\ z = left[4]
  OBVIOUS
<1>4. left = <<"L", x, y, z>> /\ right = <<"R", x, y, z>>
  BY <1>1, <1>2, <1>3
<1>5. Tail(left) = <<x, y, z>> /\ <<"R">> \o <<x, y, z>> = <<"R", x, y, z>>
  BY <1>4, JoinsFour
<1>6. left # Silence
  BY <1>1, SilenceIs
<1>7. QED
  BY <1>1, <1>4, <1>5, <1>6

LEMMA DropIs ==
  ASSUME NEW S, NEW a \in Seq(S), NEW j \in 0..Len(a)
  PROVE  /\ SubSeq(a, j + 1, Len(a)) \in Seq(S)
         /\ Len(SubSeq(a, j + 1, Len(a))) = Len(a) - j
         /\ \A i \in 1..(Len(a) - j) : SubSeq(a, j + 1, Len(a))[i] = a[i + j]
<1>1. PICK l \in Nat : l = Len(a)
  OBVIOUS
<1>2. PICK d : d = SubSeq(a, j + 1, l)
  OBVIOUS
<1>3. d \in Seq(S) /\ Len(d) = l - j /\ \A i \in 1..(l - j) : d[i] = a[i + j]
  BY <1>1, <1>2
<1>4. QED
  BY <1>1, <1>2, <1>3

LEMMA DropJoins ==
  ASSUME NEW S, NEW q \in Seq(S), NEW more \in Seq(S), NEW j \in 0..Len(q)
  PROVE  SubSeq(q, j + 1, Len(q)) \o more = SubSeq(q \o more, j + 1, Len(q \o more))
<1>1. PICK h, k \in Nat : h = Len(more) /\ k = Len(q)
  OBVIOUS
<1>2. PICK both : both = q \o more
  OBVIOUS
<1>3. both \in Seq(S) /\ Len(both) = k + h
      /\ \A i \in 1..(k + h) : both[i] = IF i <= k THEN q[i] ELSE more[i - k]
  BY <1>1, <1>2, ConcatProperties
<1>4. PICK l \in Nat : l = k - j
  <2>1. j \in 0..k
    BY <1>1
  <2>2. k - j \in Nat
    BY <2>1
  <2>3. QED
    BY <2>2
<1>5. PICK a : a = SubSeq(q, j + 1, Len(q))
  OBVIOUS
<1>6. a \in Seq(S) /\ Len(a) = l /\ \A i \in 1..l : a[i] = q[i + j]
  BY <1>1, <1>4, <1>5, DropIs
<1>7. PICK b : b = a \o more
  OBVIOUS
<1>8. b \in Seq(S) /\ Len(b) = l + h
      /\ \A i \in 1..(l + h) : b[i] = IF i <= l THEN a[i] ELSE more[i - l]
  BY <1>1, <1>6, <1>7, ConcatProperties
<1>9. PICK c : c = SubSeq(both, j + 1, Len(both))
  OBVIOUS
<1>10. j \in 0..Len(both) /\ Len(both) - j = l + h
  BY <1>1, <1>3, <1>4
<1>11. c \in Seq(S) /\ Len(c) = l + h /\ \A i \in 1..(l + h) : c[i] = both[i + j]
  BY <1>3, <1>9, <1>10, DropIs
<1>12. ASSUME NEW i \in 1..(l + h) PROVE b[i] = c[i]
  <2>1. i + j \in 1..(k + h) /\ c[i] = both[i + j]
    BY <1>1, <1>4, <1>11
  <2>2. CASE i <= l
    <3>1. i \in 1..l /\ i + j <= k
      BY <1>1, <1>4, <2>2
    <3>2. b[i] = a[i] /\ a[i] = q[i + j] /\ both[i + j] = q[i + j]
      BY <1>3, <1>6, <1>8, <2>1, <2>2, <3>1
    <3>3. QED
      BY <2>1, <3>2
  <2>3. CASE ~(i <= l)
    <3>1. ~(i + j <= k) /\ i + j - k = i - l
      BY <1>1, <1>4, <2>3
    <3>2. b[i] = more[i - l] /\ both[i + j] = more[i + j - k]
      BY <1>3, <1>8, <2>1, <2>3, <3>1
    <3>3. QED
      BY <2>1, <3>1, <3>2
  <2>4. QED
    BY <2>2, <2>3
<1>13. b = c
  BY <1>8, <1>11, <1>12, SeqEqual
<1>14. QED
  BY <1>2, <1>5, <1>7, <1>9, <1>13

\* Frames taken from the queue are the oldest frames of the line.
LEMMA AfterJoins ==
  ASSUME NEW q \in Seq(Samples), NEW more \in Seq(Samples), NEW k \in Nat, Len(q) = 2 * k,
         NEW m \in 0..k
  PROVE  After(q, m) \o more = After(q \o more, m)
<1>1. 2 * m \in 0..Len(q)
  OBVIOUS
<1>2. QED
  BY <1>1, DropJoins DEF After

\* What the device is handed: the oldest frames of the line, then silence.
LEMMA PlayedIs ==
  ASSUME NEW q \in Seq(Samples), NEW k \in Nat, Len(q) = 2 * k, NEW frames \in Nat,
         NEW f \in 1..frames
  PROVE  Played(q, frames)[f] = IF f <= k THEN <<q[2 * f - 1], q[2 * f]>> ELSE <<Silence, Silence>>
<1>1. Played(q, frames)[f] = <<Taken(q, 2 * f - 1), Taken(q, 2 * f)>>
  BY DEF Played
<1>2. f <= k <=> 2 * f - 1 <= Len(q)
  OBVIOUS
<1>3. f <= k <=> 2 * f <= Len(q)
  OBVIOUS
<1>4. QED
  BY <1>1, <1>2, <1>3 DEF Taken

LEMMA CallbackKept ==
  ASSUME TypeOK, RingInv, LineInv, NEW frames \in Nat, Callback(frames)
  PROVE  RingInv' /\ LineInv' /\ DeviceInv'
<1>1. /\ sink'.queue = AfterPlay(sink.queue, frames) /\ sink'.res = sink.res
      /\ sink'.waiting = sink.waiting /\ sink'.drops = sink.drops
  BY CallbackDoes DEF TypeOK
<1>2. UNCHANGED <<pc, made, ring>> /\ device' = Played(sink.queue, frames)
  BY DEF Callback
<1>3. RingInv'
  BY <1>1, <1>2 DEF RingInv, Base
<1>4. PICK q, more : q = sink.queue /\ more = sink.waiting
  OBVIOUS
<1>5. q \in Seq(Samples) /\ more \in Seq(Samples) /\ Even(more)
  BY <1>4 DEF LineInv, Even
<1>6. PICK k \in Nat : Len(q) = 2 * k
  BY <1>4 DEF LineInv, Even
<1>7. PICK line, end : line = q \o more /\ end = EndOf(sink.res)
  OBVIOUS
<1>8. PICK n, s \in Nat : /\ Stream(line, n, s, end)
                          /\ ~sink.res.hasPrev => s = n
                          /\ Follows(Place(line, n, end, s + 1), sink.drops, heard)
  BY <1>4, <1>7 DEF LineInv, Lined
<1>9. k <= n /\ \A i \in 1..(2 * k) : line[i] = q[i]
  <2>1. Len(line) = 2 * n
    BY <1>8 DEF Stream
  <2>2. PICK h, j \in Nat : h = Len(more) /\ j = 2 * k
    BY <1>5
  <2>3. Len(line) = j + h /\ \A i \in 1..(j + h) : line[i] = IF i <= j THEN q[i] ELSE more[i - j]
    BY <1>5, <1>6, <1>7, <2>2, ConcatProperties
  <2>4. \A i \in 1..j : line[i] = q[i]
    BY <2>3
  <2>5. k <= n
    BY <2>1, <2>2, <2>3
  <2>6. QED
    BY <2>2, <2>4, <2>5
<1>10. PICK m \in 0..n : m = (IF frames < k THEN frames ELSE k) /\ m <= k
  BY <1>9
<1>11. sink'.queue = After(q, m)
  <2>1. CASE frames < k
    <3>1. m = frames
      BY <1>10, <2>1
    <3>2. QED
      BY <1>1, <1>4, <3>1 DEF AfterPlay, After
  <2>2. CASE ~(frames < k)
    <3>1. m = k /\ 2 * frames + 1 > Len(q) /\ 2 * m + 1 > Len(q)
      BY <1>6, <1>10, <2>2
    <3>2. SubSeq(q, 2 * frames + 1, Len(q)) = <<>> /\ SubSeq(q, 2 * m + 1, Len(q)) = <<>>
      BY <1>5, <1>6, <3>1
    <3>3. QED
      BY <1>1, <1>4, <3>2 DEF AfterPlay, After
  <2>3. QED
    BY <2>1, <2>2
<1>12. sink'.queue \o more = After(line, m)
  <2>1. m \in 0..k
    BY <1>10
  <2>2. After(q, m) \o more = After(q \o more, m)
    BY <1>5, <1>6, <2>1, AfterJoins
  <2>3. QED
    BY <1>7, <1>11, <2>2
<1>13. Even(sink'.queue)
  <2>1. PICK a, d : a = After(q, m) /\ d = k - m
    OBVIOUS
  <2>2. a = SubSeq(q, 2 * m + 1, 2 * k) /\ d \in Nat /\ m \in Nat
    BY <1>6, <1>10, <2>1 DEF After
  <2>3. a \in Seq(Samples) /\ Len(a) = 2 * d
    BY <1>5, <1>6, <2>1, <2>2
  <2>4. QED
    BY <1>11, <2>1, <2>2, <2>3 DEF Even
<1>14. PICK out : out = Played(sink.queue, frames)
  OBVIOUS
<1>15. ASSUME NEW f \in 1..frames
       PROVE  out[f] = IF f <= k THEN <<line[2 * f - 1], line[2 * f]>> ELSE <<Silence, Silence>>
  <2>1. out[f] = IF f <= k THEN <<q[2 * f - 1], q[2 * f]>> ELSE <<Silence, Silence>>
    BY <1>4, <1>5, <1>6, <1>14, PlayedIs
  <2>2. f <= k => 2 * f - 1 \in 1..(2 * k) /\ 2 * f \in 1..(2 * k)
    OBVIOUS
  <2>3. QED
    BY <1>9, <2>1, <2>2
<1>16. ASSUME NEW f \in 1..frames
       PROVE  \/ f \in (s + 1)..m /\ f <= k /\ Voiced(line[2 * f - 1], line[2 * f])
              \/ f \notin (s + 1)..m /\ out[f] = <<Silence, Silence>>
  <2>1. CASE f > k
    <3>1. f \notin (s + 1)..m
      BY <1>10, <2>1
    <3>2. out[f] = <<Silence, Silence>>
      <4>1. ~(f <= k)
        BY <2>1
      <4>2. QED
        BY <1>15, <4>1
    <3>3. QED
      BY <3>1, <3>2
  <2>2. CASE f <= k /\ f <= s
    <3>1. f \in 1..s
      BY <2>2
    <3>2. Muted(line, f)
      BY <1>8, <3>1 DEF Stream
    <3>3. QED
      BY <1>15, <2>2, <3>2 DEF Muted
  <2>3. CASE f <= k /\ f > s
    <3>1. f \in (s + 1)..n /\ f \in (s + 1)..m
      BY <1>9, <1>10, <2>3
    <3>2. Voiced(line[2 * f - 1], line[2 * f])
      BY <1>8, <3>1 DEF Stream
    <3>3. QED
      BY <2>3, <3>1, <3>2
  <2>4. QED
    BY <1>8, <1>6, <2>1, <2>2, <2>3
<1>17. DeviceInv'
  <2>1. device' = out /\ DOMAIN out = 1..frames
    BY <1>2, <1>4, <1>14 DEF Played
  <2>2. ASSUME NEW f \in 1..frames
        PROVE  \/ out[f] = <<Silence, Silence>>
               \/ out[f][1][1] = "L" /\ out[f][2] = <<"R">> \o Tail(out[f][1])
    <3>1. CASE f \in (s + 1)..m /\ f <= k /\ Voiced(line[2 * f - 1], line[2 * f])
      <4>1. out[f] = <<line[2 * f - 1], line[2 * f]>>
        BY <1>15, <3>1
      <4>11. out[f][1] = line[2 * f - 1] /\ out[f][2] = line[2 * f]
        BY <4>1
      <4>2. QED
        BY <3>1, <4>11, VoicedTogether
    <3>2. QED
      BY <1>16, <3>1
  <2>3. QED
    BY <2>1, <2>2 DEF DeviceInv, InStep
<1>18. PICK sounds : sounds = {f \in 1..frames : out[f][1] # Silence}
  OBVIOUS
<1>19. sounds = (s + 1)..m
  <2>1. ASSUME NEW f \in 1..frames PROVE f \in sounds <=> f \in (s + 1)..m
    <3>1. CASE f \in (s + 1)..m /\ f <= k /\ Voiced(line[2 * f - 1], line[2 * f])
      <4>0. out[f] = <<line[2 * f - 1], line[2 * f]>>
        BY <1>15, <3>1
      <4>1. out[f][1] = line[2 * f - 1]
        BY <4>0
      <4>2. QED
        BY <1>18, <3>1, <4>1, VoicedTogether
    <3>2. CASE f \notin (s + 1)..m /\ out[f] = <<Silence, Silence>>
      BY <1>18, <3>2
    <3>3. QED
      BY <1>16, <3>1, <3>2
  <2>2. (s + 1)..m \subseteq 1..frames /\ sounds \subseteq 1..frames
    BY <1>10, <1>18
  <2>3. QED
    BY <2>1, <2>2
<1>20. heard' = IF sounds = {} THEN heard ELSE out[LastOf(sounds)][1]
  <2> DEFINE o == Played(sink.queue, frames)
             S == {f \in 1..frames : o[f][1] # Silence}
  <2>1. heard' = IF S = {} THEN heard ELSE o[LastOf(S)][1]
    BY Zenon DEF Callback, LastOf
  <2>2. o = out
    BY <1>14
  <2> HIDE DEF o
  <2>3. S = sounds
    BY <1>18, <2>2
  <2> HIDE DEF S
  <2>4. QED
    BY <2>1, <2>2, <2>3
<1>21. Stream(After(line, m), n - m, Left(s, m), end)
       /\ Place(After(line, m), n - m, end, Left(s, m) + 1) = Place(line, n, end, Left(s, m) + 1 + m)
  BY <1>8, Dropped
<1>22. Left(s, m) \in Nat /\ n - m \in Nat /\ (s = n => Left(s, m) = n - m)
  BY <1>8, LeftIs DEF Stream
<1>23. /\ Follows(Place(line, n, end, Left(s, m) + 1 + m), sink.drops, heard')
       /\ ~sink.res.hasPrev => heard' = Silence
  <2>1. CASE m <= s
    <3>1. sounds = {} /\ Left(s, m) + 1 + m = s + 1
      BY <1>8, <1>10, <1>19, <2>1 DEF Left
    <3>2. heard' = heard
      BY <1>20, <3>1
    <3>3. QED
      BY <1>8, <3>1, <3>2 DEF LineInv
  <2>2. CASE m > s
    <3>1. m \in sounds /\ sounds \in SUBSET Nat /\ \A g \in sounds : g <= m
      BY <1>8, <1>10, <1>19, <2>2
    <3>2. LastOf(sounds) = m
      BY <3>1, LastIs
    <3>3. m \in 1..frames /\ m \in (s + 1)..m /\ m \in (s + 1)..n /\ m # n + 1
      BY <1>8, <1>10, <2>2
    <3>4. Voiced(line[2 * m - 1], line[2 * m]) /\ OneStep(Place(line, n, end, m + 1) - Place(line, n, end, m))
      BY <1>8, <3>3 DEF Stream
    <3>5. heard' = line[2 * m - 1]
      <4>0. out[m] = <<line[2 * m - 1], line[2 * m]>>
        BY <1>10, <1>15, <3>3
      <4>1. out[m][1] = line[2 * m - 1]
        BY <4>0
      <4>2. sounds # {}
        BY <3>1
      <4>3. QED
        BY <1>20, <3>2, <4>1, <4>2
    <3>6. Place(line, n, end, m) = At(heard') /\ heard' \in Samples
      BY <3>3, <3>4, <3>5 DEF Place, Voiced
    <3>7. Left(s, m) + 1 + m = m + 1
      BY <1>8, <1>10, <2>2 DEF Left
    <3>8. PICK x, y \in Int : x = Place(line, n, end, m + 1) /\ y = Place(line, n, end, m)
      <4>1. m \in 1..(n + 1) /\ m + 1 \in 1..(n + 1)
        BY <1>8, <3>3
      <4>2. QED
        BY <1>8, <4>1, PlaceIs
    <3>9. OneStep(x - y) /\ x - y > 0
      BY <3>4, <3>8, StepsForward
    <3>10. Follows(x, sink.drops, heard')
      BY <3>6, <3>8, <3>9 DEF Follows
    <3>11. sink.res.hasPrev
      BY <1>8, <1>10, <2>2
    <3>12. QED
      BY <3>7, <3>8, <3>10, <3>11
  <2>3. QED
    BY <1>8, <1>10, <2>1, <2>2
<1>24. Lined(sink'.queue \o more, sink.res, sink.drops, heard')
  BY <1>7, <1>8, <1>12, <1>21, <1>22, <1>23 DEF Lined
<1>25. LineInv'
  BY <1>1, <1>2, <1>4, <1>5, <1>13, <1>23, <1>24 DEF LineInv
<1>26. QED
  BY <1>3, <1>17, <1>25

LEMMA DiscardKept ==
  ASSUME RingInv, LineInv, DeviceInv, DiscardReplay
  PROVE  RingInv' /\ LineInv' /\ DeviceInv'
<1>1. /\ pc = "discard" /\ pc' = (IF ring.pairs = <<>> THEN "input" ELSE pc)
      /\ ring' = AfterDrain(ring) /\ UNCHANGED <<made, sink, device, heard>>
  BY DEF DiscardReplay, speaker
<1>2. RingTyped(ring) /\ made = Replayed /\ ~sink.res.hasPrev /\ made \in Nat
  BY <1>1 DEF RingInv
<1>3. PICK p, rest : p = ring.pairs /\ rest = SubSeq(p, Scratch + 1, Len(p))
  OBVIOUS
<1>4. p \in Seq(Nat) /\ rest \in Seq(Nat) /\ (p = <<>> => rest = <<>>)
  BY <1>2, <1>3, RatesAssumption DEF RingTyped
<1>5. ring' = [pairs |-> rest, dropped |-> ring.dropped]
  <2>1. ring' = [ring EXCEPT !.pairs = rest]
    BY <1>1, <1>3, Zenon DEF AfterDrain
  <2>2. QED
    BY <1>2, <2>1 DEF RingTyped
<1>6. ring'.pairs = rest /\ RingTyped(ring')
  BY <1>4, <1>5 DEF RingTyped
<1>7. LineInv' /\ DeviceInv'
  BY <1>1 DEF LineInv, DeviceInv, InStep
<1>8. RingInv'
  <2>1. CASE p = <<>>
    <3>1. pc' = "input" /\ ring'.pairs = <<>>
      BY <1>1, <1>3, <1>4, <1>6, <2>1
    <3>2. Base' = made /\ Consecutive(ring'.pairs, Base')
      BY <1>1, <1>2, <3>1 DEF Base, Consecutive
    <3>3. QED
      BY <1>1, <1>2, <1>6, <3>1, <3>2, LoopAssumption DEF RingInv
  <2>2. CASE p # <<>>
    <3>1. pc' = "discard"
      BY <1>1, <1>3, <2>2
    <3>2. QED
      BY <1>1, <1>2, <1>6, <3>1 DEF RingInv
  <2>3. QED
    BY <2>1, <2>2
<1>9. QED
  BY <1>7, <1>8

LEMMA FrameKept ==
  ASSUME RingInv, LineInv, DeviceInv, NEW pairs \in FramePairs, RunOneFrame(pairs)
  PROVE  RingInv' /\ LineInv' /\ DeviceInv'
<1>1. /\ pc = "emulate" /\ pc' = "drain" /\ UNCHANGED <<sink, device, heard>>
      /\ ring' = Produced(ring, made + 1, pairs) /\ made' = made + pairs
  BY DEF RunOneFrame, speaker
<1>2. LineInv' /\ DeviceInv'
  BY <1>1 DEF LineInv, DeviceInv, InStep
<1>3. /\ RingTyped(ring) /\ made \in Nat /\ ring.pairs = <<>> /\ made >= Replayed
      /\ sink.res.hasPrev => sink.res.prev = made
  BY <1>1 DEF RingInv, Base
<1>4. pairs \in Nat /\ pairs <= RingCap
  BY LoopAssumption, RatesAssumption
<1>5. PICK q : q = ring'
  OBVIOUS
<1>6. RingTyped(q) /\ Len(q.pairs) = pairs /\ Consecutive(q.pairs, made)
  BY <1>1, <1>3, <1>4, <1>5, ProducedIs
<1>7. Base' = made
  BY <1>1, <1>3, <1>4, <1>5, <1>6 DEF Base
<1>8. RingInv'
  BY <1>1, <1>3, <1>4, <1>5, <1>6, <1>7 DEF RingInv
<1>9. QED
  BY <1>2, <1>8

LEMMA SoundKept ==
  TypeOK /\ RingInv /\ LineInv /\ DeviceInv /\ [Next]_vars => RingInv' /\ LineInv' /\ DeviceInv'
<1> SUFFICES ASSUME TypeOK, RingInv, LineInv, DeviceInv, [Next]_vars
             PROVE  RingInv' /\ LineInv' /\ DeviceInv'
  OBVIOUS
<1>1. CASE DiscardReplay
  BY <1>1, DiscardKept
<1>2. CASE \E pairs \in FramePairs : RunOneFrame(pairs)
  BY <1>2, FrameKept
<1>3. CASE PushPrimes
  <2>1. DeviceInv'
    BY <1>3 DEF PushPrimes, speaker, DeviceInv, InStep
  <2>2. QED
    BY <1>3, <2>1, PrimesKept
<1>4. CASE PushExtends
  <2>1. DeviceInv'
    BY <1>4 DEF PushExtends, speaker, DeviceInv, InStep
  <2>2. QED
    BY <1>4, <2>1, ExtendsKept
<1>5. CASE \E frames \in BufferFrames : Callback(frames)
  <2>1. PICK frames \in BufferFrames : Callback(frames)
    BY <1>5
  <2>2. frames \in Nat
    BY <2>1, LoopAssumption
  <2>3. QED
    BY <2>1, <2>2, CallbackKept
<1>6. CASE \/ StartFrame \/ Escape \/ WouldBlock \/ ReadFails \/ Drained \/ Fault \/ Pace \/ KernelSends
           \/ (\E n \in 1..(2 * Len(PadEvents)) : ReadEvents(n)) \/ (\E work \in Works : Work(work))
           \/ UNCHANGED vars
  <2>1. UNCHANGED <<ring, made, sink, heard, device>>
    BY <1>6 DEF StartFrame, Escape, WouldBlock, ReadFails, Drained, Fault, Pace, KernelSends,
                ReadEvents, Work, vars, audio, speaker
  <2>2. pc' = pc \/ (pc \notin {"extend", "discard"} /\ pc' # "discard" /\ ring.pairs = <<>>)
    BY <1>6 DEF StartFrame, Escape, WouldBlock, ReadFails, Drained, Fault, Pace, KernelSends,
                ReadEvents, Work, vars, RingInv
  <2>3. QED
    BY <2>1, <2>2, SoundStays
<1>7. CASE Diagnose
  <2>1. pc = "diagnose" /\ pc' = "pace" /\ UNCHANGED <<ring, made, heard, device>>
    BY <1>7 DEF Diagnose, speaker
  <2>2. PICK least : sink' = [sink EXCEPT !.minDepth = least]
    BY <1>7, DiagnoseDoes
  <2>3. sink'.queue = sink.queue /\ sink'.waiting = sink.waiting /\ sink'.res = sink.res
        /\ sink'.drops = sink.drops
    BY <2>2 DEF TypeOK, SinkTyped
  <2>4. ring.pairs = <<>>
    BY <2>1 DEF RingInv
  <2>5. QED
    BY <2>1, <2>3, <2>4, SoundStays
<1>8. QED
  BY <1>1, <1>2, <1>3, <1>4, <1>5, <1>6, <1>7 DEF Next

-----------------------------------------------------------------------------
(* The frames of a line, as the indices of its left samples.               *)
LEMMA SoundingIs ==
  ASSUME NEW line, NEW n, NEW s, NEW end, Stream(line, n, s, end), NEW i
  PROVE  i \in Sounding(line) <=> \E f \in (s + 1)..n : i = 2 * f - 1
<1>1. line \in Seq(Samples) /\ n \in Nat /\ Len(line) = 2 * n /\ s \in 0..n /\ DOMAIN line = 1..(2 * n)
  BY DEF Stream
<1>2. ASSUME NEW f \in (s + 1)..n PROVE 2 * f - 1 \in Sounding(line)
  <2>1. 2 * f - 1 \in 1..(2 * n)
    BY <1>1
  <2>2. line[2 * f - 1][1] = "L"
    BY DEF Stream, Voiced
  <2>3. QED
    BY <1>1, <2>1, <2>2 DEF Sounding
<1>3. ASSUME i \in Sounding(line) PROVE \E f \in (s + 1)..n : i = 2 * f - 1
  <2>1. i \in 1..(2 * n) /\ line[i][1] = "L"
    BY <1>1, <1>3 DEF Sounding
  <2>2. PICK f \in Nat : f > 0 /\ (i = 2 * f - 1 \/ i = 2 * f)
    <3>1. i \in Nat /\ i > 0
      BY <1>1, <2>1
    <3>2. QED
      BY <3>1, Halves
  <2>3. f \in 1..n
    BY <1>1, <2>1, <2>2
  <2>4. f > s
    <3>1. SUFFICES ASSUME f <= s PROVE FALSE
      BY <1>1
    <3>2. f \in 1..s
      BY <2>2, <3>1, <1>1
    <3>3. line[i] = Silence
      BY <2>2, <3>2 DEF Stream, Muted
    <3>4. QED
      BY <2>1, <3>3, SilenceIs
  <2>5. f \in (s + 1)..n
    BY <1>1, <2>3, <2>4
  <2>6. i # 2 * f
    <3>1. SUFFICES ASSUME i = 2 * f PROVE FALSE
      OBVIOUS
    <3>2. line[i][1] = "R"
      BY <2>5, <3>1 DEF Stream, Voiced
    <3>3. QED
      BY <2>1, <3>2
  <2>7. QED
    BY <2>2, <2>5, <2>6
<1>4. QED
  BY <1>2, <1>3

LEMMA OneStreamIs == LineInv /\ DeviceInv => OneStream
<1> SUFFICES ASSUME LineInv, DeviceInv PROVE OneStream
  OBVIOUS
<1>1. PICK line, end : line = sink.queue \o sink.waiting /\ end = EndOf(sink.res)
  OBVIOUS
<1>2. PICK n, s \in Nat : /\ Stream(line, n, s, end)
                          /\ Follows(Place(line, n, end, s + 1), sink.drops, heard)
  BY <1>1 DEF LineInv, Lined
<1>3. PICK sounds : sounds = Sounding(line)
  OBVIOUS
<1>4. \A i : i \in sounds <=> \E f \in (s + 1)..n : i = 2 * f - 1
  BY <1>2, <1>3, SoundingIs
<1>5. ASSUME NEW i \in sounds PROVE line[i][2] > Replayed /\ line[i][3] = line[i][2] + 1
  <2>1. PICK f \in (s + 1)..n : i = 2 * f - 1
    BY <1>4
  <2>2. QED
    BY <1>2, <2>1 DEF Stream, Voiced
<1>6. ASSUME NEW i \in sounds, NEW j \in {h \in sounds : h < i},
             {h \in sounds : h < i} \subseteq 1..j
      PROVE  OneStep(At(line[i]) - At(line[j]))
  <2>1. PICK f \in (s + 1)..n : i = 2 * f - 1
    BY <1>4
  <2>2. PICK g \in (s + 1)..n : j = 2 * g - 1
    BY <1>4
  <2>3. g < f
    BY <1>2, <2>1, <2>2
  <2>4. f = g + 1
    <3>1. SUFFICES ASSUME g + 1 < f PROVE FALSE
      BY <1>2, <2>3
    <3>2. g + 1 \in (s + 1)..n
      BY <1>2, <3>1
    <3>3. PICK h : h = 2 * (g + 1) - 1
      OBVIOUS
    <3>4. h \in sounds
      BY <1>4, <3>2, <3>3, Zenon
    <3>5. f \in Nat /\ g \in Nat
      BY <1>2
    <3>6. h < i /\ ~(h <= j)
      BY <2>1, <2>2, <3>1, <3>3, <3>5
    <3>7. h \in 1..j
      BY <1>6, <3>4, <3>6
    <3>8. QED
      BY <3>6, <3>7
  <2>5. OneStep(Place(line, n, end, g + 1) - Place(line, n, end, g))
    BY <1>2 DEF Stream
  <2>6. g # n + 1 /\ g + 1 # n + 1
    BY <1>2, <2>1, <2>4
  <2>7. Place(line, n, end, g + 1) = At(line[i]) /\ Place(line, n, end, g) = At(line[j])
    BY <2>1, <2>2, <2>4, <2>6 DEF Place
  <2>8. QED
    BY <2>5, <2>7
<1>7. ASSUME NEW i \in sounds, {h \in sounds : h < i} = {}, heard # Silence
      PROVE  LET d == At(line[i]) - At(heard)
             IN  IF sink.drops = 0 THEN OneStep(d) ELSE d > 0
  <2>1. PICK f \in (s + 1)..n : i = 2 * f - 1
    BY <1>4
  <2>2. f = s + 1
    <3>1. SUFFICES ASSUME s + 1 < f PROVE FALSE
      BY <1>2
    <3>2. s + 1 \in (s + 1)..n
      BY <1>2, <3>1
    <3>3. PICK h : h = 2 * (s + 1) - 1
      OBVIOUS
    <3>4. h \in sounds /\ h < i
      BY <1>2, <1>4, <2>1, <3>1, <3>2, <3>3
    <3>5. QED
      BY <1>7, <3>4
  <2>3. Place(line, n, end, s + 1) = At(line[i])
    <3>1. s + 1 # n + 1
      BY <1>2, <2>2
    <3>2. QED
      BY <2>1, <2>2, <3>1 DEF Place
  <2>4. QED
    BY <1>2, <1>7, <2>3 DEF Follows
<1>8. \A f \in DOMAIN device : InStep(f)
  BY DEF DeviceInv
<1>9. QED
  BY <1>1, <1>3, <1>5, <1>6, <1>7, <1>8, Zenon DEF OneStream

-----------------------------------------------------------------------------
LoopInv == TypeOK /\ NoteInv /\ PadInv /\ RingInv /\ LineInv /\ DeviceInv

\* The records of the loop, the notes, the decoded events, the ring, the line of samples
\* and what the device played keep to what the loop left there (record.rs run_interactive).
THEOREM LoopInvHolds == Spec => []LoopInv
<1>1. Init => LoopInv
  BY InitTyped, NotesStart, PadStarts, SoundStarts DEF LoopInv
<1>2. LoopInv /\ [Next]_vars => LoopInv'
  BY TypeKept, NotesKept, PadKept, SoundKept DEF LoopInv
<1>3. QED
  BY <1>1, <1>2, PTL DEF Spec

\* The device hears one stream without a seam: whatever the depths, callbacks, primings and
\* cuts, each frame with sound is one step of the ratio after the one before it, of one place
\* for both channels, and never a pair of the replay (audio.rs push, apply_watermark; dsp.rs).
THEOREM OneStreamHolds == Spec => []OneStream
<1>1. LoopInv => OneStream
  BY OneStreamIs DEF LoopInv
<1>2. QED
  BY <1>1, LoopInvHolds, PTL

\* Every drain of the queue is told by a note that was printed or is held back, and notes
\* are an interval apart (record.rs ReprimeReporter).
THEOREM DrainsToldHolds == Spec => []DrainsTold
<1>1. LoopInv => DrainsTold
  BY DEF LoopInv, NoteInv, IsNotes, DrainsTold
<1>2. QED
  BY <1>1, LoopInvHolds, PTL

\* A frame runs on what is pressed when it polls, however the reads cut the events
\* (gamepad.rs poll, PadState::feed).
THEOREM WordIsWhatIsPressedHolds == Spec => WordIsWhatIsPressed
<1>1. LoopInv /\ [Next]_vars =>
        [(pc = "poll" /\ pc' = "emulate") =>
           word' = BuildPad(keys) \cup
                   (IF pad'.dead THEN {} ELSE {b \in 0..11 : PressedNow(b)} \cup HatBits)]_vars
  BY WordIs DEF LoopInv
<1>2. QED
  BY <1>1, LoopInvHolds, PTL DEF Spec, WordIsWhatIsPressed
=============================================================================

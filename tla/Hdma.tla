-------------------------------- MODULE Hdma --------------------------------
(***************************************************************************)
(* The DMA channels (dma.rs; init_hdma, execute_hdma and execute_dma in    *)
(* bus.rs).  A channel walks a table in memory, one step per visible line: *)
(* an entry is a count byte, then the data, or their address.  The program *)
(* may write every register, and enable or disable any channel, between    *)
(* any two lines, and a channel also does general DMA.                     *)
(*                                                                         *)
(* A transfer is recorded as the address it starts from; what is at the    *)
(* other end is left out, except that a write there may fault.  All tables *)
(* and data are in one bank, which nobody writes to during a frame.        *)
(***************************************************************************)
EXTENDS Integers, Sequences

CONSTANTS
  Channels,     (* Served in this order: a set of numbers.                  *)
  Half,         (* Line counts are below this; it is also the repeat bit.   *)
  Space,        (* Size of the address space, a multiple of Page.           *)
  Page,         (* What the high byte of an address counts.                 *)
  Memories,     (* Contents of memory: functions from addresses to bytes.   *)
  Modes,        (* Transfer modes: see Mode.                                *)
  Starts,       (* Where the program puts its tables.                       *)
  Staged,       (* What it writes to channel registers later.               *)
  VisibleLines, (* Lines on which HDMA runs.                                *)
  MaxFrames,    (* Frames. Bounds the model.                                *)
  MaxWrites     (* Register writes and DMA kicks. Bounds the model.         *)

Addresses == 0..(Space - 1)
Bytes == 0..(2 * Half - 1)

\* DMAP: length of the unit pattern, fixed and decrement bits, indirect bit.
Mode == [unit : {1, 2, 4}, step : {-1, 0, 1}, indirect : BOOLEAN]

ASSUME HdmaAssumption ==
  /\ Channels \subseteq Nat
  /\ Half \in Nat \ {0, 1} /\ Space \in Nat \ {0} /\ Page \in Nat \ {0}
  /\ VisibleLines \in Nat /\ MaxFrames \in Nat /\ MaxWrites \in Nat
  /\ Memories \subseteq [Addresses -> Bytes]
  /\ Modes \subseteq Mode
  /\ Starts \subseteq Addresses
  /\ Staged \subseteq [reg : {"a1t", "a2a", "das", "ntrl"}, high : BOOLEAN, value : Bytes]

VARIABLES
  memory,  (* What the A bus reads.                                         *)
  ch,      (* The register file of each channel (DmaChannel).               *)
  run,     (* HdmaState of each channel: active, do_transfer.               *)
  hdmaen,  (* Channels enabled in $420C.                                    *)
  ended,   (* Channels whose table has ended in this frame.                 *)
  line,    (* Visible lines served in this frame.                           *)
  frame,   (* Frames started.                                               *)
  fault,   (* The first fault recorded, or "none".                          *)
  writes,  (* Writes so far.                                                *)
  hist     (* History for the properties; no action reads it.               *)

vars == <<memory, ch, run, hdmaen, ended, line, frame, fault, writes, hist>>

-----------------------------------------------------------------------------
(* One channel.  A walk is its registers, its state and the units moved.   *)

Idle == [active |-> FALSE, transfer |-> FALSE]
Wrap(n) == n % Space
Word(a) == Wrap(memory[a] + Page * memory[Wrap(a + 1)])

\* load_hdma_entry: the count byte, then the data address of an indirect entry.
LoadEntry(w) ==
  LET count == memory[w.ch.a2a]
      data  == Wrap(w.ch.a2a + 1)
      regs  == [w.ch EXCEPT !.ntrl = count, !.a2a = data]
  IN  IF count = 0
      THEN [w EXCEPT !.ch = regs, !.run = Idle, !.ended = TRUE]
      ELSE [w EXCEPT !.ch = IF w.ch.mode.indirect
                            THEN [regs EXCEPT !.a2a = Wrap(data + 2), !.das = Word(data)]
                            ELSE regs,
                     !.run = [active |-> TRUE, transfer |-> TRUE]]

\* The bytes of a unit, up to and including the k-th.
MoveBytes(w, k) ==
  IF w.ch.mode.indirect
  THEN [w EXCEPT !.ch.das = Wrap(@ + k), !.units = Append(@, w.ch.das)]
  ELSE [w EXCEPT !.ch.a2a = Wrap(@ + k), !.units = Append(@, w.ch.a2a)]

UsedUpAtZero(n) == n = 0   \* Mutant: the repeat bit is counted.
\* Bits 6 to 0 of the raw counter: the entry is used up when they are zero.
UsedUp(n) == n % Half = 0

\* One line: the transfer that is due, then the count.
Serve(w) ==
  LET moved == IF w.run.transfer THEN MoveBytes(w, w.ch.mode.unit) ELSE w
      n     == (w.ch.ntrl - 1) % (2 * Half)
      down  == [moved EXCEPT !.ch.ntrl = n, !.lines = @ + 1]
  IN  IF UsedUp(n) THEN LoadEntry(down) ELSE [down EXCEPT !.run.transfer = n >= Half]

Walk(c) == [ch |-> ch[c], run |-> run[c], ended |-> c \in ended,
            units |-> hist[c].units, lines |-> hist[c].lines]
SetWalks(walk) ==
  /\ ch' = [c \in Channels |-> walk[c].ch]
  /\ run' = [c \in Channels |-> walk[c].run]
  /\ ended' = {c \in Channels : walk[c].ended}

Recorded(h, w) == [h EXCEPT !.units = w.units, !.lines = w.lines]

-----------------------------------------------------------------------------
(* The lines of a frame.                                                   *)

\* init_hdma, on line 0.
InitHdma ==
  /\ frame < MaxFrames /\ fault = "none" /\ line = VisibleLines
  /\ LET start(c) == [Walk(c) EXCEPT !.ch.a2a = ch[c].a1t, !.ended = FALSE,
                                     !.units = <<>>, !.lines = 0]
         walk == [c \in Channels |-> IF c \in hdmaen THEN LoadEntry(start(c))
                                     ELSE [Walk(c) EXCEPT !.run = Idle, !.ended = FALSE]]
     IN  /\ SetWalks(walk)
         /\ hist' = [c \in Channels |->
                       [known |-> c \in hdmaen, start |-> ch[c].a1t, lead |-> 0,
                        units |-> <<>>, lines |-> 0]]
  /\ line' = 0 /\ frame' = frame + 1
  /\ UNCHANGED <<memory, hdmaen, fault, writes>>

Live(c) == c \in hdmaen /\ run[c].active

\* execute_hdma.
ExecuteHdma ==
  /\ frame > 0 /\ line < VisibleLines /\ fault = "none"
  /\ LET walk == [c \in Channels |-> IF Live(c) THEN Serve(Walk(c)) ELSE Walk(c)]
     IN  SetWalks(walk) /\ hist' = [c \in Channels |-> Recorded(hist[c], walk[c])]
  /\ line' = line + 1
  /\ UNCHANGED <<memory, hdmaen, frame, fault, writes>>

\* The k-th byte of channel f faults: the channels after it are not served, and its
\* own pointer is past that byte, its count as it was.
ExecuteHdmaFaults(f, k) ==
  /\ frame > 0 /\ line < VisibleLines /\ fault = "none"
  /\ Live(f) /\ run[f].transfer /\ k <= ch[f].mode.unit
  /\ LET walk == [c \in Channels |-> IF ~Live(c) \/ c > f THEN Walk(c)
                                     ELSE IF c < f THEN Serve(Walk(c))
                                     ELSE MoveBytes(Walk(c), k)]
     IN  SetWalks(walk) /\ hist' = [c \in Channels |-> Recorded(hist[c], walk[c])]
  /\ fault' = "BBusWrite"
  /\ UNCHANGED <<memory, hdmaen, line, frame, writes>>

-----------------------------------------------------------------------------
(* What the program does between two lines.                                *)

Write == writes < MaxWrites /\ fault = "none" /\ frame > 0 /\ writes' = writes + 1

ResurrectsEnded(mask) == mask \ hdmaen   \* Mutant: no regard to the end of the table.
\* The channels a write to $420C activates.
NewlyEnabled(mask) == (mask \ hdmaen) \ ended

\* $420C.  The history notes a channel primed to start a table on its second line.
WriteHdmaen(mask) ==
  /\ Write /\ mask # hdmaen
  /\ hdmaen' = mask
  /\ run' = [c \in Channels |-> IF c \in NewlyEnabled(mask)
                                THEN [run[c] EXCEPT !.active = TRUE] ELSE run[c]]
  /\ hist' = [c \in Channels |->
                IF c \in NewlyEnabled(mask) /\ run[c] = Idle /\ ch[c].ntrl = 1
                THEN [known |-> TRUE, start |-> ch[c].a2a, lead |-> 1,
                      units |-> <<>>, lines |-> 0]
                ELSE hist[c]]
  /\ UNCHANGED <<memory, ch, ended, line, frame, fault>>

\* After this the channel no longer walks the table it started with.
Forget(h) == [h EXCEPT !.known = FALSE]

\* $43x0 and $43x2 to $43xA.
WriteMode(c, m) ==
  /\ Write
  /\ ch' = [ch EXCEPT ![c].mode = m]
  /\ hist' = [hist EXCEPT ![c] = Forget(@)]
  /\ UNCHANGED <<memory, run, hdmaen, ended, line, frame, fault>>

\* One byte of a two-byte register.
SetByte(word, s) ==
  IF s.high THEN Wrap((word % Page) + Page * s.value) ELSE Wrap(word - (word % Page) + s.value)

WriteRegister(c, s) ==
  /\ Write
  /\ ch' = CASE s.reg = "a1t"  -> [ch EXCEPT ![c].a1t = SetByte(@, s)]
             [] s.reg = "a2a"  -> [ch EXCEPT ![c].a2a = SetByte(@, s)]
             [] s.reg = "das"  -> [ch EXCEPT ![c].das = SetByte(@, s)]
             [] s.reg = "ntrl" -> [ch EXCEPT ![c].ntrl = s.value]
  /\ hist' = IF s.reg = "a1t" \/ (s.reg = "das" /\ ~ch[c].mode.indirect) THEN hist
             ELSE [hist EXCEPT ![c] = Forget(@)]
  /\ UNCHANGED <<memory, run, hdmaen, ended, line, frame, fault>>

-----------------------------------------------------------------------------
(* General DMA.                                                            *)

\* A count of zero is the whole address space.
Count(c) == IF ch[c].das = 0 THEN Space ELSE ch[c].das

\* A channel after n bytes of its burst.
Moved(c, n) ==
  [ch[c] EXCEPT !.a1t = Wrap(@ + n * ch[c].mode.step), !.das = Wrap(Count(c) - n)]

\* A burst changes the data address of an indirect channel.
Clobber(done) ==
  hist' = [c \in Channels |-> IF c \in done /\ ch[c].mode.indirect THEN Forget(hist[c])
                              ELSE hist[c]]

\* $420B.
KickDma(mask) ==
  /\ Write /\ mask # {}
  /\ IF mask \intersect hdmaen # {}
     THEN fault' = "HdmaDmaConflict" /\ UNCHANGED <<ch, hist>>
     ELSE /\ ch' = [c \in Channels |-> IF c \in mask THEN Moved(c, Count(c)) ELSE ch[c]]
          /\ Clobber(mask)
          /\ UNCHANGED fault
  /\ UNCHANGED <<memory, run, hdmaen, ended, line, frame>>

\* Byte n + 1 of channel f faults: its registers point at that byte, and the channels
\* after it keep theirs.
KickDmaFaults(mask, f, n) ==
  /\ Write /\ mask \intersect hdmaen = {} /\ f \in mask /\ n < Count(f)
  /\ ch' = [c \in Channels |-> IF c \notin mask \/ c > f THEN ch[c]
                               ELSE Moved(c, IF c = f THEN n ELSE Count(c))]
  /\ Clobber(mask)
  /\ fault' = "Transfer"
  /\ UNCHANGED <<memory, run, hdmaen, ended, line, frame>>

-----------------------------------------------------------------------------
\* A program that has set up its channels during the first vblank.
Init ==
  /\ memory \in Memories
  /\ ch \in [Channels -> [mode : Modes, a1t : Starts, a2a : {0}, das : {0}, ntrl : {0}]]
  /\ run = [c \in Channels |-> Idle]
  /\ hdmaen \in SUBSET Channels /\ ended = {}
  /\ line = VisibleLines /\ frame = 0 /\ fault = "none" /\ writes = 0
  /\ hist = [c \in Channels |-> [known |-> FALSE, start |-> 0, lead |-> 0,
                                 units |-> <<>>, lines |-> 0]]

Next ==
  \/ InitHdma \/ ExecuteHdma
  \/ \E f \in Channels, k \in 1..4 : ExecuteHdmaFaults(f, k)
  \/ \E mask \in SUBSET Channels :
       \/ WriteHdmaen(mask) \/ KickDma(mask)
       \/ \E f \in Channels, n \in 0..(Space - 1) : KickDmaFaults(mask, f, n)
  \/ \E c \in Channels :
       (\E m \in Modes : WriteMode(c, m)) \/ (\E s \in Staged : WriteRegister(c, s))

Spec == Init /\ [][Next]_vars

-----------------------------------------------------------------------------
(* Properties.                                                             *)

Registers == [mode : Mode, a1t : Addresses, a2a : Addresses, das : Addresses, ntrl : Bytes]
States == [active : BOOLEAN, transfer : BOOLEAN]
Histories == [known : BOOLEAN, start : Addresses, lead : 0..1, units : Seq(Addresses),
              lines : Nat]

\* The shape of every variable.
TypeOK ==
  /\ memory \in [Addresses -> Bytes]
  /\ ch \in [Channels -> Registers]
  /\ run \in [Channels -> States]
  /\ hist \in [Channels -> Histories]
  /\ hdmaen \subseteq Channels /\ ended \subseteq Channels
  /\ line \in 0..VisibleLines /\ frame \in Nat /\ writes \in Nat
  /\ fault \in {"none", "BBusWrite", "HdmaDmaConflict", "Transfer"}

\* What dma.rs says of a table: a count of 1 to Half is that many lines with a transfer
\* on the first, one above Half is that less Half, with a transfer on each, 0 is the end.
Repeats(m, a) == m[a] > Half
EntryLines(m, a) == IF Repeats(m, a) THEN m[a] - Half ELSE m[a]

\* Where the data of the entry at a are, and where the next entry is.
DataOf(m, mode, a) ==
  LET data == Wrap(a + 1)
  IN  IF mode.indirect THEN Wrap(m[data] + Page * m[Wrap(data + 1)]) ELSE data

EntryAfter(m, mode, a) ==
  LET data == Wrap(a + 1)
  IN  IF mode.indirect THEN Wrap(data + 2)
      ELSE Wrap(data + mode.unit * (IF Repeats(m, a) THEN EntryLines(m, a) ELSE 1))

\* For each of the first n lines of that entry the addresses transferred from: one or none.
EntryMoves(m, mode, a, n) ==
  [i \in 1..n |-> IF i = 1 \/ Repeats(m, a)
                  THEN <<Wrap(DataOf(m, mode, a) + (i - 1) * mode.unit)>> ELSE <<>>]

\* TableLines(m, mode)[n][a] is that for the first n lines of the table at a.
TableLines(m, mode) ==
  LET Low(n, limit) == IF n < limit THEN n ELSE limit
      table[n \in 0..VisibleLines] ==
        [a \in Addresses |->
           LET shown == Low(EntryLines(m, a), n)
           IN  IF n = 0 \/ m[a] = 0 THEN <<>>
               ELSE EntryMoves(m, mode, a, shown) \o table[n - shown][EntryAfter(m, mode, a)]]
  IN  table

Joined(s) == LET f[n \in 0..Len(s)] == IF n = 0 THEN <<>> ELSE f[n - 1] \o s[n]
             IN  f[Len(s)]

\* A channel plays its table, line by line: paused by the program and resumed, used for
\* general DMA in between, or primed and enabled in mid-frame, it transfers exactly
\* what the table says for the lines it was served on, and is served on no other.
PlaysTable ==
  \A c \in Channels : hist[c].known /\ fault = "none" /\ hist[c].lines >= hist[c].lead =>
    LET n     == hist[c].lines - hist[c].lead
        lines == TableLines(memory, ch[c].mode)[n][hist[c].start]
    IN  Len(lines) = n /\ hist[c].units = Joined(lines)

\* "Channels whose table terminated this frame stay dead until the next frame's
\* init_hdma", whatever is written to their registers and to $420C.
StaysDead == \A c \in ended : frame' = frame => c \in ended' /\ hist'[c].units = hist[c].units
EndedStaysDead == [][StaysDead]_vars
=============================================================================

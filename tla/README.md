# Verification of reference-workload

This directory is a TLA+ model of the stateful parts of the reference workload: a
deterministic SNES-like emulator that runs as a guest process inside a deterministic
hypervisor, the gates that prove the guest deterministic, and the recorder with which
operators find addresses in its memory. The modules are written from the source under
`src/`; every definition that models code is tied to its lines in `PROJECT.json`
("map").

Contents

1. The system: inventory of components
2. The modules and how they correspond to the code
3. The runs: what is checked, on which instances, and what it shows
4. Fairness
5. What is proved, and how
6. What the code does that its comments do not say
7. What is only model-checked, and what is not modelled
8. Plan

## 1. The system

Paths are relative to `src/`. "Hard" names what a test would hardly reach.

### 1.1 The guest process: `crates/refwork-harness`, `crates/refwork-protocol`

*State*: the position of its only thread; the SEQPACKET socket on fd 3 with a
queue in each direction; the regions (WRAM, framebuffer, meta page) and what
the in-guest agent's manifest says of them; the meta page (status, frame, last
pad, fault code); the emulator core; the SDK's frame counter.

*Operations*: the handshake Hello / LoadGame / Start with its rejections
(`runner.rs`), registration and announcement of the regions (`agent.rs`), the
free-running frame loop with its boundary poll (`frame.rs`), the stores of the
meta page (`meta.rs`), `recv`, `try_recv` and `send` (`ctl.rs`).

*Interacts with* the agent by messages, with the host by shared memory: the host
reads the regions whenever it stops the guest, at a frame mark or anywhere, and
writes the pad latch at any time.

*Hard*: the order of several stores as seen by a reader that stops the guest
between any two; messages that arrive early, late, twice or not at all; a peer
that closes with messages in flight, or does not read.

*Correct when*: Ready gates the regions and the READY beacon is what the root
snapshot captures; at a frame mark everything visible names one completed
frame; a fault is in the page before the message is sent, never half of it;
hash reports name the boundary they hashed, in order, at most once; every
queued message is acted upon; the whole implements a simple lifecycle.

### 1.2 The emulated machine: `crates/refwork-emu`

*Frame scheduler* (`core_impl.rs`, `timing.rs`). State: the scanline, the
master clock within the frame, the back and the front picture, the frame
counter, a sticky fault. Operation: `run_one_frame(pad)`. Hard: the CPU stops
only between instructions, and a DMA burst, up to a frame and a half of clocks,
is part of one instruction; every per-line event is driven by the line, every
timer by the clock, and the two disagree by up to several lines. Correct when no
clock is lost, one vblank happens per frame, the published picture is always one
whole frame, and every call returns.

*System bus* (`bus.rs`, `cart.rs`). State: the H/V timer and interrupt flags,
work and save memory, the port into work memory, the arithmetic unit, the open bus.
Operations: `read`, `write`, `a_read`, `a_write`, `b_read`, `b_write`, the hooks of a
line. Hard: three decoders of the same addresses, each with its own exceptions;
registers rewritten at any moment; flags that a read clears while an edge is pending.
Correct when a byte written is where it should be and nowhere else, and an armed
interrupt fires exactly once.

*CPU* (`cpu/`). State: the registers in two modes and three widths, `waiting`,
`stopped`, memory. Hard: a change of mode or width leaves bits behind; a handler
returns in another width than it was entered in; an interrupt falls into a block
move. Correct when calls return, moves are complete and sums are exact.

*Joypad* (`joypad.rs`). State: the latched pad, the result word, strobe, shift.
Hard: the automatic read falls into the middle of a manual one. Correct when both
paths spell the pad that was latched.

*DMA and HDMA* (`dma.rs`, `bus.rs`). State: eight channels' registers, table
pointers, line counters, `active` and `do_transfer`. Hard: channels enabled,
disabled, re-enabled or rewritten in the middle of a frame; a table that ends; a
fault in the middle of a transfer. Correct when a channel never transfers past the
end of its table and resumes where it left off, and a faulted one points at its byte.

*APU* (`apu/`). State: four mailbox ports in each direction, the upload protocol
of the boot ROM, the clock ratio's remainder and debt, three timers, the second
processor and its memory, the voices of the sound generator. Hard: the APU is caught up
only when its ports are touched or a line ends, and runs whole instructions; timers
are copied into memory before an instruction and cleared after it; samples are decoded
ahead of where they are heard. Correct when an acknowledgement means what the
uploading program takes it for, no cycle and no tick is lost, and a voice plays its
samples in order to their end.

*PPU* (`ppu/`). State: registers with write-twice latches, three memories behind
ports that count and fetch ahead, the counters that software latches. Operations:
`read`, `write`, the hooks of a frame, `render_scanline`. Hard: one latch shared by
several ports; registers changed while a picture is drawn; two renderers of the same
backgrounds. Correct when a port shows what is in memory, and the picture is that of
the registers.

### 1.3 The gates: `crates/refwork-verify`, `crates/refwork-dh-client`

*Worker and sessions* (`refwork-dh-client`). State: slots, snapshots and a slot
counter under one mutex; a client's one blocking call with a deadline.
Operations: restore, inject, run, read, capture, snapshot, destroy. Hard:
TakeSnapshot works under two separate locks; a call whose client gave it up may
still arrive; any call may fail; several clients share the worker.

*vm-suite* (`vm_suite.rs`). State: iteration, leg, lease, hashes of the frames of
a leg. Hard: injection of changes only, split at the snapshot; off-by-ones between
frames, words and counters; clean-up on failure. Correct when injection plays
exactly the script and every leg reports exactly the first frame that differs.

*vm-first-room* (`vm_first_room.rs`). State: lease, stops, proof, transition,
captures, pad trace, failures. Correct when the verdict is that of the
play-through and the slot is given back on every path.

*In-process checks* (`double_run.rs`, `play.rs`, `decode.rs`, `map_check.rs`) and
*phase-4 tooling* (`phase4_*.rs`, `redaction_scan.rs`, `host_capture_index.rs`):
sequential loops over a core, validators and exporters of files.

### 1.4 Finding addresses: `crates/ramdiff`, `crates/refwork-script`

*Recorder* (`record.rs`). State: the session directory (log, dumps, `session.yaml`,
stamp) and a running emulator. Operations: a fresh start, `--resume` with its replay
and verification, the scripted recorder, dumps with their prompts, quitting. Hard:
kills between any two writes and inside a line, a log that loses its tail, a build
that changes in between, scripted and interactive use of one directory. Correct when
what is replayed is what was played and every dump is of that game.

*Search session* (`session.rs`, `candidates.rs`, `filter.rs`). State: a directory of
dumps and a candidate set that successive commands shrink. Hard: sequences of
commands, labels used twice, an emptied set, a changed width. Correct when the
candidates are those that satisfy every clause.

*Lint* (`lint.rs`): thirteen checks of a session directory. *Pad logs*
(`refwork-script`): the text format of everything that is replayed.

*Live loop* (`audio.rs`, `gamepad.rs`, `record.rs`). State: the capture ring and the
queue of the audio sink, the pad's state and its partial event, the pacing deadline.
Hard: the device takes samples on a thread of its own, between the two locks of
`push`; events arrive in pieces between two polls; drains are reported with a rate
limit. Correct when what is heard is one stream, the word of a frame is what is
pressed, and every drain is told.

### 1.5 The rest

`refwork-hash`, `refwork-featuremap`: pure functions. `xtask`: developer commands,
with a cache and locks for the image build. `refwork-emu-bench`, `m0-proto-client`,
`image/`, `schema/`, `scoring/`, `feature-maps/`, `tools/`: measurement,
configuration and data.

## 2. The modules and how they correspond to the code

| Module | Models | Extends |
|---|---|---|
| `Harness` | the guest process with the agent and the host | |
| `HarnessLifecycle` | what that process promises, abstractly | |
| `VmWorker` | the mock worker and the sessions of its clients | |
| `VmSuite`, `VmFirstRoom` | the two gates on that worker | `VmWorker` |
| `VmGates` | suites and gates on one worker | both |
| `Joypad` | the controller port: pure operators on its state | |
| `FrameScheduler` | one call of `run_one_frame` after the other, with CPU, timer, NMI, joypad, DMA and APU catch-up | `Joypad` |
| `Words` | bytes, words, bits and sparse memories | |
| `CpuOperands`, `Cpu` | the processor: sums and addressing modes, every instruction and the interrupts | `Words` |
| `PpuPorts` | the picture unit's registers and the memories behind them | `Words` |
| `PpuLayers`, `PpuPicture` | what a background or a sprite shows at a point; windows, order of layers, colour mathematics | `PpuPorts` |
| `Ppu` | programs and handlers on those registers, the hooks of a frame and the lines drawn | `PpuPicture` |
| `Bus` | address decoding, cartridge, work memory's port, arithmetic unit, general DMA | `PpuPorts` |
| `Hdma` | the eight channels: HDMA tables, $420B, $420C | |
| `ApuPort` | the mailbox ports, the boot protocol and the APU's clock, with any program on either side | |
| `ApuUpload` | a CPU program that uploads blocks through those ports | `ApuPort` |
| `Spc700` | the second processor: sums, every instruction | `Apu` |
| `Dsp` | the voices, envelopes, noise and echo of a sample | `Words` |
| `Apu` | timers, registers $F0-$FF, the boot ROM's overlay, and one round of the APU's loop | `Dsp` |
| `ApuProgram` | what a sound program may expect of these | `Spc700` |
| `RamSession` | the session directory: the pad log with its parser and writer, dumps and searches | |
| `Lint` | the checks of `ramdiff lint` | `RamSession` |
| `Recorder` | the commands of ramdiff over one directory, with kills | `Lint` |
| `AudioSink` | the recorder's sound | |
| `LiveLoop` | the recorder's loop against its sound and its evdev pad | `AudioSink` |
| `HarnessProofs`, `FrameProofs`, `HdmaProofs`, `ApuProofs` | theorems about `Harness`, `FrameScheduler`, `Hdma`, `ApuPort` and `ApuUpload` | those, TLAPS |
| `VmProofs` | theorems about `VmGates`: leases, what the guests of suites and gates play, and what is reported of it | `VmGates` |
| `PpuProofs` | a theorem about `Ppu`: what the ports show of video memory | `Ppu` |
| `RecorderProofs` | theorems about `Recorder` and what it is made of | `Recorder` |
| `LiveLoopProofs` | theorems about `LiveLoop`: the sound, the notes, the gamepad | `LiveLoop` |
| `MC...` | instances for TLC | the module they instantiate |

### `Harness`

The harness has one thread; `pc` is where it is. An action is one call that
another party can observe or interleave with: one `recv`, one `send`, one region
registration, one store to the meta page, one frame. The agent (`AgentSends`,
`AgentReads`, `AgentCloses`) and the host (`HostSetsPad`) may act between any two
of them. `send` blocks while the peer's buffer is full, as a SEQPACKET socket
does; `recv` cannot tell a datagram of length zero from end of file, as in
`ctl.rs`. What a region holds is abstracted to the number of the frame whose
state it holds; `Torn` is WRAM in the middle of a frame. A queued datagram
carries `due`, the boundary at which polling one datagram per frame should reach
it; no action reads it.

`HarnessLifecycle` is the contract: boot, Ready once, frames 1, 2, 3 ... without
a gap, at most one report per frame and only for the frame just marked, and one
end. The refinement mapping reads the phase from the messages sent, the frame
from the SDK's counter and the last report from the messages.

### `VmWorker`, `VmSuite`, `VmFirstRoom`, `VmGates`

`VmWorker` has one action per RPC handler of `mock.rs`; a handler runs under the
mutex and is atomic, except TakeSnapshot, whose second critical section is
`StoreSnapshot`. A client has one awaited call. `RpcFails` ends the wait; the call
stays in `calls`, marked as given up, and `ServeGivenUp` may serve it at any later
time or never. A hash is the tuple of what is hashed, so that equal hashes are
equal contents.

A client's step consumes the reply of its call and issues the next, exactly the
code between two `await`s. `VmSuite` and `VmFirstRoom` each add the driver's local
variables as functions of the client. They assume nothing of the worker but its
replies. `VmGates` puts any number of both on one worker, so that a gate may restore
what a suite has snapshotted.

### `FrameScheduler`, `Joypad`

`stage` says whether the caller, the line loop or the CPU is next. The CPU's clock
`clock.mclk` is the code's `mclk_frame`; `clock.total` is the monotonic one.
An instruction is a fetch (`Fetch`, costs any of `FetchClocks`) followed by at
most one access with an effect (`Execute`), both of which advance the clock
through `Tick`, the code's `add_mclk`, so that the timer can fire inside an
instruction. DMA runs slot by slot within the instruction that kicks it. HDMA is
represented by what it can do to the scheduler: write the screen register, or
fault. The program is arbitrary; `Registers`, `Nmitimens`, `Htimes`, `Vtimes` and
`Bursts` say which registers an instance lets it touch. A picture row holds the
number of the frame it was drawn for. `hist` records what the properties compare
(the clock at the start of the frame, interrupts raised in it, bits read from the
serial port) and no guard reads it.

`Joypad` represents a 16-bit word by its set of one-bits, so that the two paths
from pad to program can be compared with the order of buttons the documentation
promises.

`MCFrameScheduler` runs one of four kinds of programs (timer, screen, joypad,
halting), each restricted to some of the steps of `FrameScheduler`: all of them in one
program would multiply state spaces that have nothing to do with each other. Together
they take all of them.

### `Cpu`, `CpuOperands`

A step of `Cpu::step` is a step of `Cpu`: an interrupt entry, one instruction, or one
byte of a block move, on registers and a memory that are one record `m`. Instructions
that differ only in the operation or in the register are one definition with the
operation as a parameter; the opcode tables give each opcode its family and mode. The
memory holds only the bytes that are not 0. Two inputs, the NMI edge and the IRQ line,
change at any boundary. `calls` and `move` follow calls and block moves for the
properties. The time an access takes is the scheduler's business and is left out.

### `Spc700`, `Dsp`, `Apu`, `ApuProgram`

A round of the loop of `advance_master_cycles` is one step, `Turn`: the timers' outputs
are copied into memory, one instruction runs, its writes reach the registers, the
timers that were read are cleared, and timers and sound generator advance by its
cycles. An instruction family of `Spc700` is a *set*, the states it may leave the
processor in (empty for another opcode), and `Does` takes one of them through the rest
of the round. A state of the processor carries which of the registers $F0-$FF were read
and written, which is what that rest depends on. `Dsp` is one call of `step_sample`:
key-on and key-off, envelopes, decoding, interpolation, pitch modulation, noise, and the
echo, which alone of its outputs reaches memory.

`ApuProgram` adds what a program may rely on, with the open calls, the periods and the
samples that have passed recorded next to the machine.

### `Bus`, `PpuPorts`, `PpuLayers`, `PpuPicture`, `Ppu`

`PpuPorts` is the register file as functions from a state of the unit to the next; an
action of `Ppu` or a byte of a transfer of `Bus` applies one. `Ppu` interleaves a main
program with a handler that may start at any access (as an NMI does) and with the ends
of lines, where `render_scanline` draws; of a picture only the columns `Columns` are
looked at, and each is computed from the registers as the code does it for all 256.

`Bus` decodes an address thrice, as the code does: `BusRead`, `BusWrite` for the
processor, and the two buses of a channel. Registers that other modules model only
take and give a byte here. `ReadAt` and `WriteAt` are the processor's accesses; a kick
runs the channels to the end or to the fault.

### `Hdma`

Between two visible lines the program writes any registers, enables or disables
channels, or kicks general DMA; `ExecuteHdma` serves every enabled, active channel
for one line, `InitHdma` starts the walks of the next frame. One line of one channel
is `Serve`, on a record of its registers and its state, so that serving all the
channels, or those before the one that faults, is a function from channels to walks.
A transfer is recorded in `hist` as the address it starts from. `TableLines` is the
reference: it reads a table from its start as the documentation of `dma.rs`
describes it, with no counter, and gives the transfers of each line.

### `ApuPort`, `ApuUpload`

The APU has no thread: an access to a port makes it catch up with the CPU's clock, an
instruction at a time. `stage` divides an access: `Begin` advances the clock, decides
whether the write must come before the catch-up (`Deferred`) and computes the budget
(`StartCatchUp`: remainder, then debt); `ApuStep` is one round of the loop of
`advance_master_cycles`; `ReadPort`, `WritePort` or, for a deferred write,
`WriteDeferred` and `CaughtUp` perform the access with the service of a pending kick.
`EndLine` is the catch-up of the scheduler, `DmaRead` and `DmaWrite` go to the ports
without any. Before the jump an instruction is a step of the boot protocol
(`BootStep`); after it, anything the uploaded program can do to the ports
(`Effects`). `hist` records the master clocks handed out less the cycles run, for the
properties; the one step that serves a pending kick is outside that time in the code
and here.

`ApuUpload` is the program of the CPU, external to the repository except for its
tests: a header, a kick, a byte at a time with its index, each acknowledged by its
echo. It chooses freely between two stores and a 16-bit one, overwrites the kick at
once or waits, and takes any of `AccessClocks` between accesses. Two things it does
not do, as no upload in the tests does: store the kick in one word with its command
(see 6), and upload into the I/O page $F0-$FF, whose side effects during an upload are
not modelled. What the uploaded program writes to its own memory is left out; memory
is compared until the jump.

### `Recorder`, `RamSession`, `Lint`

A command is a sequence of steps, one per write that can be told from the next by a
kill: the truncation and the header of the log, each line of it, a dump file, the saved
`session.yaml`, the stamp. `Kill` stops it between any two of them and inside a line;
`PowerCut` drops the end of the log; `Rebuild` changes the build between commands. A
text is a sequence of lines with the unfinished last line apart, and a line is what
`parse` makes of it. The emulator is what `record.rs` relies on: WRAM and faults are
functions of the build, the ROM and the words played (`Wram`, `Faults`). A search is
one step: it reads the directory, applies its clauses in order and saves, or fails
where the code returns an error, with what was saved before.

`RamSession` is the directory with the log's parse and write, and the filters; `Lint`
the thirteen checks, as predicates on it. No property of lint is separate from the
recorder's: the interesting question is whether it accepts what the recorder writes.

### `LiveLoop`, `AudioSink`

`pc` is the place in the loop of `run_interactive`. The device's callback may come
between any two steps, `push` being two (depth and priming under one lock, queueing
under the next); the gamepad's bytes arrive one part at a time. A sample is its channel,
the two pairs it lies between and how far, so that order, loss, the step of the ratio
and the alignment of left and right are visible.
Ticks are half frames.

## 3. The runs

Every run is exhaustive within its bounds.

| Run | Instance | Checks |
|---|---|---|
| `harness` | 2 frames, 5 datagrams of any kind at any time, 2 queued in each direction, pads 0 and 4097; agent or none, VRAM or not, SRAM refused or not | `MarkSnapshot`, `ReadyContract`, `FaultContract`, `RequestContract`, `ImplementsLifecycle`, `QueueDrained` |
| `vm_gates` | one suite with every script of up to 3 words over 3 pads, 2 to 4 frames, every snapshot frame, 2 iterations; two suites; one gate with every script, snapshot, step 0 to 3, budget 1 to 4, up to 2 checkpoints and 2 failing calls; a suite and a gate | `InjectionPlaysScript`, `SuiteVerdict`, `GateVerdict`, `LeasesAccounted`, `Termination` |
| `frame` | 4 kinds of programs, 2 frames of 6 lines of 8 clocks, bursts of 7 slots of 3 clocks | `TimeConserved`, `FrameContract`, `FrontIsWholeFrame`, `PadAsLatched`, `FrameReturns` |
| `hdma` | two channels, two tables that repeat, end and wrap around memory, direct and indirect, frames of 4 lines, 2 frames, 3 writes | `PlaysTable`, `EndedStaysDead` |
| `apu_upload` | two blocks, of 5 and 2 bytes, bytes of 2 bits and 16 addresses, 2 APU cycles in 7 clocks, instructions of 2, 5, 6 and 9 cycles, 1, 2, 3 or 10 clocks between accesses, lines that end anywhere, then 2 arbitrary accesses | `ClockKept`, `UploadFaithful`, `UploadCompletes` |
| `cpu` | every opcode in three states with three operands; nested calls; block moves that wrap; sums at the digits' boundaries; one interrupt anywhere | `CallsReturn`, `BlockMoves`, `ArithmeticExact` |
| `audio` | every opcode in two states with three operands; nested calls; timers; songs on two voices | `TimersExact`, `SamplesInOrder`, `SpcCallsReturn` |
| `bus` | 3 accesses out of 55, channels set up in six ways | `OneMemory`, `DmaMovesBlock`, `FaultPointsAtByte` |
| `ppu` | streams with a handler; every register at a frame's ends; pictures in all modes that change while they are drawn; frames with and without overscan | `PrefetchFresh`, `Mirrored`, `RenderersAgree` |
| `recorder` | 3 commands in any order over one directory, 2 builds, sessions of up to 6 frames, logs of 4 lines | `LogIsWhatWasPlayed`, `DumpsReplay`, `LintFailsOnlyOnChoices`, `CandidatesAreTheAnswers` |
| `live_loop` | 3 frames, a ring of 4 pairs, a queue between 2 and 5 ms, 3 pad events, keys held or not, iterations on time, late, or with a prompt | `OneStream`, `DrainsTold`, `WordIsWhatIsPressed` |
| `frame_h_irq` | violation | `HIrqOnEveryLine` (see 6) |

What some of the names stand for: `FrameContract` is `VArmed`, `VFiresOnce`,
`VBlankOncePerFrame` and `StopIsLoud`; `PadAsLatched` is the pad in the result registers
after the automatic read and the pad spelled by serial reads; `ClockKept` says that no
cycle is lost and that the APU is ahead by less than an instruction; `UploadFaithful`,
that memory holds what was sent and every acknowledgement means what the sender takes
it for; `LeasesAccounted`, that slots are shared without interference, never refused
and given back.

*Why these bounds are enough.* Harness: five datagrams are the three of the
handshake and two that race with the frame loop; two frames give a boundary with
a predecessor; a queue of two lets one message wait behind another; pad 4097
has a bit above the twelve that are kept.

Gates: three words show a repetition, a change and a change back; four frames leave
room for a snapshot before, at and after a change, and for a script shorter than the
run. One fault reaches every failure path, two let a clean-up fail as well. Step 0 is
the division by zero in the cadence, step 3 overshoots every budget below it.

Frame: a burst of 7 slots of 3 clocks is longer than two lines; HTIME 3 lies
past the end of its line as the last in-range values of the code do; the overscan
picture differs from the normal one by one line; two frames let a burst of the
first one reach into the second.

HDMA: with counts below 4 a table of eight bytes has
every kind of entry, including the one whose count is the repeat bit itself; three
writes pause a channel, use it for DMA and resume it, or prime it and enable it.

APU: a block of five bytes wraps the index of a byte; the second block ends where
memory does and wraps the pointer; budgets of 0 to 3 cycles against instructions of 2
to 9 leave debts that take several accesses to repay; 10 clocks let several
instructions run in one catch-up. A lag is bounded by `MaxLag`, as a line and an
instruction bound it in the code; longer DMA bursts are in `FrameScheduler`.

Processors, bus and picture: widths are the real ones (bytes, words, 24-bit addresses),
and a run is a set of programs rather than a small machine. The operands sit at the ends
of pages, banks and stacks, where a wrap can go wrong; the sums take each digit through
its carry; one interrupt (`MaxRaised`) falls at every boundary, and nesting is two deep
(`MaxDepth`), so that a callee's frame lies between its caller's. The samples of the
songs are at most three blocks long, with a loop, an end or neither at the seam, and
are followed for `MaxBlocks` blocks, which is more than the ring of 32 holds; the echo
buffer's unit is 2 samples instead of 256, so that it wraps within a song. Three
operations (`MaxSteps`) set up, do and observe a transfer; it moves up to `MaxBytes`
bytes. Columns 0, 7, 9 and 130 lie on and off tile and mosaic boundaries and window
edges.

Recorder: three commands are a start, something that goes wrong, and a resume or a
search after it. Two pad words differ in one button; a run of four lines has a dump
before, at and after a lost tail.

Live loop: the ring of four overflows within two frames, the device's buffer of two
frames empties the queue in one callback, and a late iteration crosses the resync
threshold. `FewEvents` leaves the pad and the keyboard out of the third frame, which is
there to tell a drain that the interval held back.

Every property has a mutant of the code in `PROJECT.json` that breaks it, and no
property is checked that none of them breaks.

## 4. Fairness

- `Harness`: weak fairness of `Process` (the hypervisor schedules the guest's only
  thread, and what it blocks on is modelled by the guards) and of `AgentReads` (the
  agent drains its end of the socket). No fairness for the agent sending or
  closing, nor for the host. The agent that does not read is not forgotten: the
  safety properties hold of behaviours without fairness, too.
- `VmGates`: weak fairness of each client's step, of serving an
  awaited call and of storing a snapshot: the runtime polls ready tasks. None for
  RPC failures, nor for a call that was given up, which may never arrive.
- `ApuUpload`: weak fairness of `Upload`, the program's next write, poll or step
  together with the emulator's work on an access under way: `run_one_frame` goes on
  executing the CPU. None for lines ending nor for overwriting the kick.
- None elsewhere. That a frame returns is stated without fairness: `FrameReturns` is
  an action property, every step of a call moves it towards its end.

## 5. What is proved

`HarnessProofs`, from `HarnessAssumption` only (any number of frames, datagrams,
pads and any socket buffer):

- `TypeCorrect`: `Spec => []TypeOK`.
- `Inductive`: `Spec => []IInv`, where `IInv` is `TypeOK` with `EmuState` (what
  core, framebuffer and marks hold at each place of the frame loop), `MetaState`
  (what the page holds there: not mapped, the beacon, the last frame, or the frame
  half written), `FaultState` (how much of the fault is in the page on the way to
  sending it), `SentState` (what has been sent by then) and `ReportOrder`. None of
  those properties is inductive alone: `MarkSnapshot` speaks of two places of the
  loop and depends on all the stores before them; a Fault message is matched with
  the page several steps after the page was written.
- `MarkSnapshotCorrect`, `FaultContractHolds`, `FaultedStatusLastCorrect`,
  `FaultVisibleInMetaCorrect`, `ReportsFaithfulCorrect`, `ReadyBeaconCorrect`:
  each from `IInv`.
- `ReadyContractHolds`: `Spec => []ReadyContract`. It adds `GateInv`, which follows the
  setup: how many descriptors are registered and announced at each of its places, and
  that Ready, once sent, is the last message of the setup in the place the descriptors
  give it.
- `DueByPositionHolds`: `Spec => []DueByPosition`, inductive with the types. Each step
  of the harness thread leaves the queue and the next boundary as they are, empties the
  queue, ends the process, or takes the first datagram while the boundary moves by at
  most one (`BoundaryShapes`); the agent only appends behind what is queued.
- `RequestContractHolds`: from `ReportsFaithfulCorrect` and `DueByPositionHolds`.
- `ImplementsLifecycleHolds`: `Spec => ImplementsLifecycle`, the refinement. The mapping
  reads the contract's phase, frame and last report from the messages sent, so the
  lemmas say what appending one message does to each; with `IInv` every action then maps
  to one step of the contract or to a stutter.

`FrameProofs`, from `FrameAssumption` and, for the contract alone,
`InstructionAssumption` (an instruction without a burst is shorter than a frame), for any
geometry of the frame, any costs, any program:

- `TypeInvariant`: `TypeOK`, together with `PlaceOK` (between calls the last line
  was drawn or the call faulted; a line starts only after another).
- `VInterruptArmed`: the V or H+V target is armed exactly while its position is
  ahead of the clock. One lemma per way the clock moves (`Tick`, `Recompute`, the
  frame's subtraction); the rest of the actions are shown to leave clock and timer
  alone.
- `TimeIsConserved`: `total - mclk` is a whole number of frames, the frames
  completed. The strengthening `TimeInv` says that a call returns without a fault
  only when the clock is past the end of the frame, so that the subtraction, which
  the code makes conditional, is made.
- `FrontIsWhole`: the published picture is one whole frame. The strengthening
  says which rows of the back buffer have been drawn at each line, and is where
  the latched overscan bit is needed: a change of the live bit mid-frame would
  draw rows twice or never.
- `FrameContractHolds`: `Spec => []FrameContract`. `ContractInv` has a part for each
  conjunct: `CountInv` (how many interrupts an untouched timer has raised is decided by
  where the clock is between the frame's entry and the position), `VBlankInv` (whether
  the vblank of the frame has begun is decided by the line and the latched boundary),
  `StopInv` (a stopped CPU adds no clocks and had less than two frames of them, so that
  the frame after the one it stopped in cannot end), with
  `HistOK` for what is recorded.
- `PadAsLatchedHolds`: `Spec => []PadAsLatched`. The automatic read's word and the serial
  register are the same latched pad, one spelled in the documented order of buttons, the
  other shifted by one with each read; the invariant says how many shifts stand between
  them, and that ones follow the sixteen bits.
- `CallsReturn`: `Spec => FrameReturns`: every step of a call increases line or clock or
  brings it to the next place of the line, and a line whose clocks are used up, or a
  fault, leaves the loop of instructions at the next boundary. Liveness itself is
  beyond the prover; this action property is what it would rest on.

`HdmaProofs`, from `HdmaAssumption` only (any number of channels, any width of
counter and address, any memory and any program):

- `TypeCorrect`: `TypeOK`; the arithmetic of addresses and counters stays in range.
- `EndedChannelsStayDead`: the action property `EndedStaysDead`. The invariant it
  rests on, `EndedIdle`, says that no channel is both ended and active: each way a
  walk is made (`LoadEntry`, `Serve`) is shown to keep it, and only $420C activates
  a channel, never an ended one.

`ApuProofs`, from `ApuAssumption` and `UploadAssumption` (any clock ratio, costs of
instructions, width of a byte, any program on either side):

- `TypeCorrect`: `TypeOK`; ports, pointers and indices wrap where the code wraps them.
- `TimeIsExact`, `AheadByLessThanAStep`, together `ClocksKeepTogether` (`ClockKept`):
  the ledger of `advance_master_cycles`. The invariant they rest on, `Inductive`'s
  `IInv`, adds what holds inside the loop (`Overrun`): a budget is run only once the
  debt is repaid, every step of it but the last fitted into what was left, and outside
  a catch-up nothing is to run.
- `UploadIsAProgram`: `UploadSpec => Spec`: a step of the upload is one of a program on
  the ports or leaves them alone, so that these theorems hold of it as well.
- `UploadFaithfulHolds`: `UploadSpec => []UploadFaithful`, for any blocks of any length,
  one over the other or around the end of memory. `UploadInv` says of the message that
  is under way how many of its writes are made (`Follows`), and what the APU may have
  done by then: before the signal on port 0 it is where the last acknowledgement left it
  and sees nothing new, or it has yet to see the kick, which is pending (`Unsignalled`);
  between the signal and the rest of its store it does not run, because the rest is
  deferred (`HalfStored`); after that it is there or about to be (`Signalled`). A step
  then takes it to where the message takes it (`Advances`), and a write makes one more
  port true (`Writing`). What is in memory (`Holds`) follows byte by byte.

`VmProofs`, from `FixtureAssumption` and `ClientsAssumption` (finitely many clients; any
scripts, options, fixture, faults):

- `VmInvHolds`: `RpcInv` (each client awaits at most one call, the one of its place, and
  whatever else is under way was given up and speaks of its own slot), `OwnInv` (who owns
  which slot) and `AnswerInv` (who still has to give it back), with the shapes they need.
  `OwnInv` is about a function that no variable holds, from the slots ever issued to the
  clients they were issued to: the invariant says that such a function exists, and a
  step that issues a slot extends it.
- `LeasesAccountedHolds`: `Spec => []LeasesAccounted`. `LeasesDisjoint` follows from the
  ownership, `SlotsAccounted` because the slots in use inject into the processes that
  answer for them. Neither is inductive: a call that was given up may take a slot away
  while its client is already cleaning up.
- `InjectionPlaysScriptHolds`: `Spec => []InjectionPlaysScript`, for every script, run
  length and snapshot frame. `PlaysInv` says for each place of `cold_run` and
  `continue_run` what the guest has played, that the pad live for each frame up to the
  horizon of what is injected is the script's word, and that the call under way, once
  served, keeps this so. Its lemmas are about pure operators: what is live after
  change-only events (`EventsPlay`), that a frame leaves the later ones alone
  (`LiveLater`), that a guest that hears the next word has played one more (`PlaysOn`).
  Events are never in the past because they start after the frame they are injected at,
  and nothing is scheduled beyond the snapshot before it is taken (`HeadOnly`), so that
  neither call is refused. On a worker that corrupts what it restores, the third leg
  plays the rest of the script from the corrupted guest (`Resumed`).
- `SuiteVerdictHolds`: `Spec => []SuiteVerdict`, for every script, perturbed or not,
  run length, snapshot frame and number of iterations, on a corrupting worker or a sound
  one. `VerdictInv` says what the legs so far leave behind: the reference's hashes are
  those of the script (`Hashes`), the double run's result is the one it must have
  (`DoubleIs`), and so is every iteration in the report. `compare` finds the first frame
  of `Differing` (`CompareIs`); for the double run that is the perturbed word's, because
  scripts equal up to a frame play equal up to it (`SamePlay`) and a hash tells the word
  of its frame (`HashTellsWord`, with the hash the identity of section 7). A failure
  of a call always leaves its name in the report, so that what has failed never passes.
- `GateVerdictHolds`: `Spec => []GateVerdict`, for every script, step, budget, cadence
  and list of checkpoints, failing calls included, beside any other clients of the
  worker, sound or corrupting. `GateInv` says, at each place of the drive
  (`GatePlaying`), that the guest of the gate's slot is like the one that plays the
  script word by word from what was restored, that what has been written down is about
  the stops told (`Told`), the checkpoints captured (`Shown`) and the run gone through
  (`Through`), and what was asked for (`GateAsked`). A gate injects changes only, each
  at its own frame, and the guest hears between them what the script says
  (`GateInjects`); the steps the driver takes end at the stops of cadence, budget and
  checkpoints (`CadenceTold`, `PadTold`); other clients never touch its slot (the leases
  of `VmInv`). With that, a comparison that holds is exactly a checkpoint passed
  (`RightIsPass`), and the early exit leaves only checkpoints that were not reached.

`PpuProofs`, from `PpuAssumption` (what a program loads are the unit's memories, and its
setup is a sequence of writes), for every set of programs and handlers:

- `PrefetchFreshHolds`: `PSpec => []PrefetchFresh`. `PortInv` adds to the property that
  the unit keeps the fields of video memory. Lemmas for the groups of registers show
  that they leave memory, address and fetched word alone; the others (`VMADD`, the data
  ports, read and written) fetch when they move the address, or are among those after
  which the word may not be the one in memory (`Spoils`).

`RecorderProofs`, from `RecorderAssumption` (pad words are below the mask; searches are
sequences; `MaxLog` is at most a header and the 10,000,000 frames that `parse` takes,
`refwork-script/src/lib.rs:16`: the recorder counts no frames and would write a longer
log, which no resume could read), for any builds, ROMs, scripts, searches, labels,
checklist, any WRAM and faults as functions of the words played:

- `RecInvHolds`: `Spec => []RecInv`, with one part for each thing a command takes for
  granted of the directory. `LogInv` follows the log through the commands: a header and
  one line for each frame, whose pads are the ones played so far, or at a resume the
  ones it is about to replay. `RunInv` says how far the run is at each place, so that the
  next line, the next dump and the saved count are of the same frame. `DumpInv` keeps
  the entries below the frame reached and, once a replay has compared them, the files of
  those alone at their frame as that run left them. `FilesInv` and `LintInv` say that
  what an entry or a count names is there, `OffsetsInv` that the offsets kept satisfy
  the clauses since the last full set. The properties are not inductive alone: what the
  log holds at a resume is what an earlier command, killed perhaps, left in it.
- `LogIsWhatWasPlayedHolds`. The reader is a recursion over lines, so `ParsedLog` says by
  induction what it makes of a recorder's log: every pad, and no error. `LogGoesOn` adds
  a line and `LogCut` takes lines away, so that a power cut leaves a shorter log of the
  same kind.
- `DumpsReplayHolds`. `PlayedStays` says that words played later change no WRAM that was
  reached before, `ReplayCompares` that a replay which refuses nothing has found in
  every file it compared the WRAM of its own run: a dump whose entry was never saved, a
  cut log, another build and a scripted dump can get past it no further than `Alone`
  says.
- `LintFailsOnlyOnChoicesHolds`: one case for each check. `FitsMore`, `FitsDumped` and
  `FitsEnded` carry the counts and frames lint compares through a line, a dump and the
  end of a session.
- `CandidatesAreTheAnswersHolds`. A search goes through its clauses and may fail in the
  middle or empty the set (`NarrowedIs`); `SearchAnswers` says that what it saves are
  again the answers of all the clauses since the set was full.

`LiveLoopProofs`, from `RatesAssumption` (a device of at least 1000 samples a second, a high
watermark above the low one, a slew below 1) and `LoopAssumption` (a frame produces no
more pairs than the ring holds), for any ring, scratch, rates, watermarks, gamepad,
buffers of the device and lengths of an iteration:

- `LoopInvHolds`: `Spec => []LoopInv`, with one part for each thing the loop shares or
  carries over. `RingInv` says that the pairs in the ring follow each other up to the last
  one produced, that the first of them follows the pair the resampler holds back, and
  that the ring is empty outside the drain. `LineInv` is about the queue and the samples
  `push` has resampled and not yet queued, seen as one line: frames of silence, then
  frames of sound, each one step of the ratio after the one before, the last of them one
  step before the place the resampler goes on from (`EndOf`). `DeviceInv` is about the
  buffer played. `NoteInv` ties the notes printed and those held back to the primings,
  `PadInv` the decoded pad to the events that were read whole. The properties are not
  inductive alone: that the next call of `push` continues the stream rests on the phase
  and the pair held back, which no property mentions.
- `OneStreamHolds`. `ResampledIs` says what one call of the resampler emits: as many frames as
  fit before the last pair, at places a ratio apart from where the last call ended.
  `Added` puts them behind the line; `Dropped` takes frames from its front, which is what
  a callback and a cut do; a priming finds the queue empty and puts silence before a
  line that then consists of what waits. The device reads between the two halves of
  `push`, so each is shown for any queue the callback may have left.
- `DrainsToldHolds`, from `NoteInv`.
- `WordIsWhatIsPressedHolds`, from `PadInv`: what decoding the events one read after the
  other leaves depends only on how many are whole, and a button is down exactly if the
  last of its events is a press (`Reads`).

Where a proof needs induction over numbers it starts with lemmas that get it from the
well-foundedness of < in the library: a set with 0 in it that is closed under successor
holds every natural number, and sets of numbers have least and greatest elements. Stated
on sets they need no operator parameter, so the provers can use them; they are what the
lemmas about recursive functions (`Played`, `RunFrames`, `Parse`, `Narrowed`, `Produced`,
`Applied`) and counted messages rest on.

The proofs have one step per action and take the actions that change none of a
formula's variables together.

## 6. What the code does that its comments do not say

One comment is checked and found violated: `frame_h_irq`, "fires ... on the current
(and every subsequent) line" (`bus.rs:309`). An H-only interrupt whose position lies
past the end of its line, or that is passed by a DMA burst over several lines, is
raised fewer times, since the target is moved to the line after the one the scheduler
is on, which the clock may have passed.

The rest was met while modelling and is in the models as the code has it.

Harness: a datagram of length zero from a live peer ends the process as if the peer had
closed, without the Fault every other undecodable datagram is answered with
(`ctl.rs:239`).

Gates: the READY proof records status and frame and compares only the geometry, so
that the gate passes on a mid-game snapshot (`vm_first_room.rs:417` against the comment
at 130). A step of 0 in the expectations divides by zero after the slot is restored
(461). `--nondet-test` with an empty script panics (`vm_suite.rs:207`). A checkpoint
beyond the budget is skipped without failing the gate.

Frame: a V interrupt at a position the previous frame's overrun has already passed is
not raised in that frame (`VFiresOnce` says exactly when). A manual strobe of the serial
port rewrites the automatic read's result word with the same pad.

Channels: the mark that keeps an ended HDMA channel dead is cleared at the start of
every frame (`bus.rs:480`), so a channel disabled then, and enabled later in that frame
with the counter of zero it was left with, streams the bytes after its table. When a
transfer faults, the clock does not stay at the faulting byte as the comment on D9 has
it: the kick's later channels still add their eight clocks. A channel that reads
$2137 latches no position, and one that reads the audio ports does not catch the APU up.

CPU and APU: a SLEEP is never left, though the comment in `record_apu_halt` says the
next interrupt resumes it. A pending kick is protected against being overwritten, but
the catch-up before a write of port 1 may consume it: a program that stores kick and
command as one word starts with the command that was there before (`bus.rs:1174`). The
step that serves the kick costs no time. The APU is caught up once per line, so during
a DMA burst it may lag by the burst. Operands of the second processor are fetched from
the memory under the boot ROM's overlay. With sustain level 7 the decay ends at 0x800,
above the largest level of an envelope (`dsp.rs:894`).

PPU: a mosaic counts the lines from 0 and its start from 1 (`ppu/mod.rs:1414` against the
comment at 304), so that its first group is a line longer than the others; modes 2 and 4
to 6 have none. In modes 0, 1 and 3 wide maps of 16-pixel tiles repeat after 512 pixels, and
a layer that is on the sub screen only is not drawn there. The toggle of a colour read
is not reset by a new colour address.

ramdiff: an interactive start truncates the log before it tries the lock
(`record.rs:531` to 551), so that of two recorders the second destroys the log of the
first and then refuses to run. A kill inside a line glues the next to the piece and
makes the log unreadable, against the comment at `record.rs:45`; a scripted session
with no frame count runs on after the end of its script (`record.rs:108` against 207). `--resume` of an empty directory
never writes the stamp, which lint then asks for. An emptied candidate set starts over
instead of staying empty ("subsequent searches intersect"). A dump is read by its
label, the latest of several.

Live loop: two buttons folded on one bit release it with the first of them
(`gamepad.rs:77`); SYN_DROPPED is ignored; the drains of a frame that faults are never
told.

## 7. What is not proved, and what is not modelled

Model-checked only: liveness (`QueueDrained`, `Termination`, `UploadCompletes`), which
is out of the prover's reach. The properties of the processors, the bus and the picture
rest on the runs, but for `PrefetchFresh`: their modules use RECURSIVE operators, folds
over operator arguments or bitwise arithmetic, which the provers do not see through.

Abstracted: in the scheduler pixels, samples and memory contents (by frame numbers) and
the instruction set (by any fetch and any effect), which are modelled on their own in
the modules above; hashing (by identity); wall-clock time (an RPC deadline may pass at
any time). The machine as a whole is not composed: the processor of `Cpu` does not run
on the clock of `FrameScheduler`, because no property met here speaks of both.

Left out of a modelled component: diagnostics and statistics; the final mix of the
voices, which the default build drops; an upload into the APU's I/O page; extra cycles
of the processor; HDMA tables in several banks; `ramdiff emit`, `candidates`, `watch`,
the window and the choice of devices; the macOS pad; the encoding of messages.

Not modelled: the formats of files and messages, which the crates' round-trip tests
cover; `refwork-hash` and `refwork-featuremap`, which are pure functions; the in-process
checks and the phase-4 tools, which run in a straight line over files; `xtask`, whose
assembler and generators are pure and whose image build calls external tools; the
measurement programs, the configuration and the data of 1.5.

Hazards no property covers: two recorders started at once, since one command runs at a
time in `Recorder`; the ended-table marks, the kick stored with its command, the folded
button and the mosaic's first group are described in section 6 as what the code does.

## 8. Plan

Done: the modules of section 2, in this order: `Harness` and its lifecycle, the gates
on their worker, the frame scheduler with the joypad, HDMA, the APU's ports; then the
two processors, the sound generator, the bus, the picture unit, ramdiff and its live
loop.

Next, in the order of how much of the system rests on them:

1. `ImageBuild`: the cache and the locks of `xtask`'s image build.
2. `FeatureMap`: the checks of overlap and bounds against relocation.

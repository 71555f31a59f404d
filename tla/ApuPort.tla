------------------------------ MODULE ApuPort ------------------------------
(***************************************************************************)
(* The four mailbox ports between the CPU and the APU ($2140-$217F), the   *)
(* boot protocol behind them and the clock that drives the APU (bus.rs and *)
(* apu/mod.rs).  The APU does not run by itself: an access to a port, or   *)
(* the end of a scanline, first makes it catch up with the CPU, one        *)
(* instruction after the other.  A port access is therefore several steps  *)
(* (stage), and what the APU sees depends on where its instructions fall.  *)
(*                                                                         *)
(* The uploaded program is arbitrary (Instruction).  Memory holds what the *)
(* boot protocol stores; the APU's I/O page is no target of an upload.     *)
(***************************************************************************)
EXTENDS Integers

CONSTANTS
  Num, Den,                  (* APU cycles per master clock (SPC_NUM, SPC_DEN). *)
  MaxLag,                    (* The master clocks of a scanline, and an instruction. *)
  PollCost, StoreCost, KickCost, BlockCost,   (* Cycles of the boot protocol's steps. *)
  InstrCosts, ProgramBytes,  (* Cycles of the program's, and what it writes. *)
  Bytes,                     (* The values of a byte: 0..Bytes-1. *)
  Kick, ReadyA, ReadyB,      (* $CC, $AA and $BB. *)
  RomAt, TransferAt,         (* $FFC0 and $FFE0: where the boot ROM's two loops are. *)
  AccessClocks               (* Master clocks from one access of the CPU to the next. *)

Byte == 0..(Bytes - 1)
Addr == 0..(Bytes * Bytes - 1)
Port == 0..3

ASSUME ApuAssumption ==
  /\ Num \in Nat \ {0} /\ Den \in Nat \ {0} /\ MaxLag \in Nat
  /\ {PollCost, StoreCost, KickCost, BlockCost} \subseteq Nat \ {0}
  /\ InstrCosts \subseteq Nat \ {0} /\ ProgramBytes \subseteq Byte
  /\ Bytes \in Nat \ {0, 1} /\ {Kick, ReadyA, ReadyB} \subseteq Byte
  /\ Kick \notin {0, ReadyA}
  /\ RomAt \in Addr /\ TransferAt \in Addr
  /\ AccessClocks \subseteq Nat

VARIABLES
  lag,       (* mclk_total - apu_mclk_base. *)
  clock,     (* The remainder and the debt (spc_accum, spc_debt). *)
  loop,      (* The catch-up's cycles to run, and those it has run. *)
  apu,       (* Ports, memory, where the program counter is, the boot protocol. *)
  pending,   (* apu_pending_ipl_cc and apu_pending_ipl_transfer_strobe. *)
  stage,     (* Of the access: none, before it, at it, after it, or a line's end. *)
  access,    (* The access itself. *)
  mdr,       (* The value last read. *)
  fault,
  hist       (* The catch-ups' time less the steps' time; the last step's cost. *)

vars == <<lag, clock, loop, apu, pending, stage, access, mdr, fault, hist>>

-----------------------------------------------------------------------------
(* One instruction of the APU.                                             *)

Zone(addr) == IF addr < RomAt THEN "program" ELSE IF addr < TransferAt THEN "wait" ELSE "transfer"

Pointer(ram, ptr) == [ram EXCEPT ![0] = ptr % Bytes, ![1] = ptr \div Bytes]

Starts(a) == a.in[2] + Bytes * a.in[3]

\* A command is acknowledged by its signal; command 0 jumps, any other one starts a block.
Command(a, signal) ==
  IF a.in[1] = 0
  THEN [a EXCEPT !.out[0] = signal, !.ram = Pointer(@, Starts(a)),
                 !.zone = Zone(Starts(a)), !.mode = "done"]
  ELSE [a EXCEPT !.out[0] = signal, !.ram = Pointer(@, Starts(a)), !.zone = "transfer",
                 !.mode = "receive", !.ptr = Starts(a), !.last = signal, !.expected = 0]

Store(a) ==
  LET next == (a.ptr + 1) % (Bytes * Bytes)
  IN  [a EXCEPT !.out[0] = a.in[0], !.ram = Pointer([@ EXCEPT ![a.ptr] = a.in[1]], next),
                !.ptr = next, !.last = a.in[0], !.expected = (@ + 1) % Bytes]

Ran(a, c) == [apu |-> a, cost |-> c]

BootStep(a) ==
  IF a.mode = "wait"
  THEN IF a.in[0] = Kick THEN Ran(Command(a, Kick), KickCost) ELSE Ran(a, PollCost)
  ELSE IF a.in[0] = a.last THEN Ran(a, PollCost)
  ELSE IF a.in[0] = a.expected THEN Ran(Store(a), StoreCost)
  ELSE Ran(Command(a, a.in[0]), BlockCost)

Cleared(a, ports) == [a EXCEPT !.in = [p \in Port |-> IF p \in ports THEN 0 ELSE @[p]]]
Wrote(a, ports, w) == [a EXCEPT !.out = [p \in Port |-> IF p \in ports THEN w[p] ELSE @[p]]]

\* What an instruction of the program can do to what is modelled: jump, write a port or
\* two, clear pairs of input ports ($F1), halt the processor ($F0 does, in the same store).
Jumps(a) == {[a EXCEPT !.zone = z] : z \in {"program", "wait", "transfer"}}
Stores(a) ==
  {Wrote(a, ports, w) : ports \in {{p} : p \in Port} \union {{p, p + 1} : p \in Port},
                        w \in [Port -> ProgramBytes]}
Controls(a) ==
  {[Cleared(a, ports) EXCEPT !.halted = h] :
     ports \in {{}, {0, 1}, {2, 3}, Port}, h \in {"no", "Stop", "TestTrigger", "Sleep"}}

Effects(a) == Jumps(a) \union Stores(a) \union Controls(a)

Steps(a) ==
  IF a.halted # "no" THEN {Ran(a, 0)}
  ELSE IF a.mode # "done" THEN {BootStep(a)}
  ELSE {Ran(e, c) : e \in Effects(a), c \in InstrCosts}

-----------------------------------------------------------------------------
(* Catching up.                                                            *)

\* The budget of whole cycles, less what earlier catch-ups ran ahead.
StartCatchUp(delta) ==
  LET total == clock.accum + delta * Num
      budget == total \div Den
      repaid == IF clock.debt < budget THEN clock.debt ELSE budget
  IN  /\ lag' = 0
      /\ clock' = [accum |-> total % Den, debt |-> clock.debt - repaid]
      /\ loop' = [toRun |-> budget - repaid, ran |-> 0]
      /\ hist' = [hist EXCEPT !.given = IF apu.halted = "no" THEN @ + delta * Num ELSE @]

Running == stage \in {"before", "after", "line"}

LoopOver == loop.ran >= loop.toRun \/ apu.halted # "no"

\* One round of the loop.
ApuStep ==
  /\ Running /\ ~LoopOver
  /\ \E s \in Steps(apu) :
       /\ apu' = s.apu
       /\ loop' = [loop EXCEPT !.ran = @ + s.cost]
       /\ hist' = [hist EXCEPT !.given = @ - Den * s.cost, !.last = s.cost]
  /\ UNCHANGED <<lag, clock, pending, stage, access, mdr, fault>>

EndCatchUpForgets ==   \* Mutant: the overrun is not carried.
  clock' = clock /\ loop' = [toRun |-> 0, ran |-> 0]

\* The overrun is carried into later budgets.
EndCatchUp ==
  /\ clock' = [clock EXCEPT !.debt = @ + IF loop.ran > loop.toRun THEN loop.ran - loop.toRun ELSE 0]
  /\ loop' = [toRun |-> 0, ran |-> 0]

HaltFault(a) == IF fault = "none" /\ a.halted \in {"Stop", "TestTrigger"} THEN "Apu" ELSE fault

-----------------------------------------------------------------------------
(* Port accesses.  An access that must not let the APU run first is        *)
(* performed at once, and the APU catches up after it.                     *)

NoAccess == [op |-> "none", port |-> 0, value |-> 0, deferred |-> FALSE]
Idle == stage = "cpu" /\ fault = "none"

DeferredNever(op, port) ==   \* Mutant: the APU always runs before the write.
  FALSE

Deferred(op, port) ==
  op = "write" /\ pending.strobe /\ port # 0 /\ apu.zone = "transfer"

\* The CPU's access costs c master clocks, which pass before it is decoded.
Begin(op, port, value, c) ==
  /\ Idle /\ lag + c <= MaxLag
  /\ access' = [op |-> op, port |-> port, value |-> value, deferred |-> Deferred(op, port)]
  /\ IF Deferred(op, port)
     THEN stage' = "at" /\ lag' = lag + c /\ UNCHANGED <<clock, loop, hist>>
     ELSE stage' = "before" /\ StartCatchUp(lag + c)
  /\ UNCHANGED <<apu, pending, mdr, fault>>

\* The step that consumes a kick no catch-up has shown to the APU.
Service(a) ==
  IF a.zone # "wait" \/ a.in[0] # Kick THEN {a} ELSE {s.apu : s \in Steps(a)}

ReadPort ==
  /\ stage = "before" /\ LoopOver /\ access.op = "read"
  /\ EndCatchUp
  /\ apu' \in IF pending.kick THEN Service(apu) ELSE {apu}
  /\ mdr' = apu'.out[access.port]
  /\ pending' = [pending EXCEPT !.kick = FALSE]
  /\ fault' = HaltFault(apu')
  /\ stage' = "cpu" /\ access' = NoAccess
  /\ UNCHANGED <<lag, hist>>

Put(a) == [a EXCEPT !.in[access.port] = access.value]

\* A pending kick is shown to the APU before it is overwritten, and after the ports
\* around it were written.
OverwritesKick == pending.kick /\ access.port = 0 /\ access.value # Kick
ServedAfter == pending.kick /\ access.port # 0

WrittenOver ==   \* Mutant: a kick may be overwritten.
  IF ServedAfter THEN Service(Put(apu)) ELSE {Put(apu)}

Written ==
  IF OverwritesKick THEN {Put(a) : a \in Service(apu)}
  ELSE IF ServedAfter THEN Service(Put(apu)) ELSE {Put(apu)}

Captured(a) == access.port = 0 /\ access.value = Kick /\ a.zone = "wait"

KickAfter(a) == Captured(a) \/ (pending.kick /\ ~OverwritesKick /\ ~ServedAfter)

WritePort ==
  /\ stage = "before" /\ LoopOver /\ access.op = "write"
  /\ EndCatchUp
  /\ apu' \in Written
  /\ pending' = [kick |-> KickAfter(apu'),
                 strobe |-> pending.strobe \/ (access.port = 0 /\ apu'.zone = "transfer")]
  /\ fault' = HaltFault(apu')
  /\ stage' = "cpu" /\ access' = NoAccess
  /\ UNCHANGED <<lag, mdr, hist>>

\* The second byte of a 16-bit store: the strobe and its data become visible together.
WriteDeferred ==
  /\ stage = "at"
  /\ apu' \in Written
  /\ pending' = [kick |-> KickAfter(apu'), strobe |-> FALSE]
  /\ fault' = HaltFault(apu')
  /\ StartCatchUp(lag)
  /\ stage' = "after"
  /\ UNCHANGED <<access, mdr>>

EndLine ==
  /\ Idle /\ lag > 0
  /\ StartCatchUp(lag)
  /\ stage' = "line"
  /\ UNCHANGED <<apu, pending, access, mdr, fault>>

\* A catch-up nothing waits for has ended.
CaughtUp ==
  /\ stage \in {"after", "line"} /\ LoopOver
  /\ EndCatchUp
  /\ fault' = HaltFault(apu)
  /\ stage' = "cpu" /\ access' = NoAccess
  /\ UNCHANGED <<lag, apu, pending, mdr, hist>>

\* DMA reaches the ports without making the APU catch up.
DmaRead(port, c) ==
  /\ Idle /\ lag + c <= MaxLag
  /\ lag' = lag + c /\ mdr' = apu.out[port]
  /\ UNCHANGED <<clock, loop, apu, pending, stage, access, fault, hist>>

DmaWrite(port, value, c) ==
  /\ Idle /\ lag + c <= MaxLag
  /\ lag' = lag + c /\ apu' = [apu EXCEPT !.in[port] = value]
  /\ UNCHANGED <<clock, loop, pending, stage, access, mdr, fault, hist>>

Device == ApuStep \/ ReadPort \/ WritePort \/ WriteDeferred \/ EndLine \/ CaughtUp

Init ==
  /\ lag = 0 /\ clock = [accum |-> 0, debt |-> 0] /\ loop = [toRun |-> 0, ran |-> 0]
  /\ apu = [in |-> [p \in Port |-> 0],
            out |-> [p \in Port |-> IF p = 0 THEN ReadyA ELSE IF p = 1 THEN ReadyB ELSE 0],
            ram |-> [x \in Addr |-> 0], zone |-> "wait", mode |-> "wait",
            ptr |-> 0, last |-> 0, expected |-> 0, halted |-> "no"]
  /\ pending = [kick |-> FALSE, strobe |-> FALSE]
  /\ stage = "cpu" /\ access = NoAccess /\ mdr = 0 /\ fault = "none"
  /\ hist = [given |-> 0, last |-> 0]

Program ==
  \E c \in AccessClocks, p \in Port :
    \/ Begin("read", p, 0, c) \/ DmaRead(p, c)
    \/ \E v \in Byte : Begin("write", p, v, c) \/ DmaWrite(p, v, c)

Next == Device \/ Program

Spec == Init /\ [][Next]_vars
-----------------------------------------------------------------------------
(* Properties.                                                             *)

Apus ==
  [in : [Port -> Byte], out : [Port -> Byte], ram : [Addr -> Byte],
   zone : {"program", "wait", "transfer"}, mode : {"wait", "receive", "done"},
   ptr : Addr, last : Byte, expected : Byte,
   halted : {"no", "Stop", "TestTrigger", "Sleep"}]

\* The shape of every variable.
TypeOK ==
  /\ lag \in Nat
  /\ clock \in [accum : 0..(Den - 1), debt : Nat]
  /\ loop \in [toRun : Nat, ran : Nat]
  /\ apu \in Apus
  /\ pending \in [kick : BOOLEAN, strobe : BOOLEAN]
  /\ stage \in {"cpu", "before", "at", "after", "line"}
  /\ access \in [op : {"none", "read", "write"}, port : Port, value : Byte, deferred : BOOLEAN]
  /\ mdr \in Byte
  /\ fault \in {"none", "Apu"}
  /\ hist \in [given : Int, last : Nat]

\* However accesses and line ends cut the time up, no cycle of the APU is lost or run
\* twice: what it was given less what it ran is the remainder, less the debt, and what
\* is still to run (advance_master_cycles).  A halt ends that: the rest is dropped.
TimeExact ==
  apu.halted = "no" =>
    hist.given = clock.accum + Den * (loop.toRun - loop.ran - clock.debt)

\* The APU is never ahead of the CPU by a whole instruction of its own, so that where
\* it stands after a catch-up is a function of the clock only.
OneStepAhead == clock.debt > 0 => clock.debt < hist.last

\* The two clocks keep together: nothing is lost, and the APU is ahead by less than an
\* instruction.
ClockKept == TimeExact /\ OneStepAhead
=============================================================================

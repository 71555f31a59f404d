------------------------------ MODULE VmProofs ------------------------------
(***************************************************************************)
(* Proofs about the two in-VM gates on one worker, for any number of       *)
(* processes, any command lines and any number of RPC failures.  Three     *)
(* invariants, each resting on the one before: the discipline of the       *)
(* calls, who holds which slot, and who answers for it.                    *)
(***************************************************************************)
EXTENDS VmGates, FiniteSetTheorems, NaturalsInduction,
        WellFoundedInduction, TLAPS

----
(* Induction in the form the provers can use: on a set of numbers instead *)
(* of a predicate, from the well-foundedness of <. *)

\* A set of naturals that is not empty has a least element.
LEMMA Least ==
  ASSUME NEW T \in SUBSET Nat, T # {}
  PROVE  \E x \in T : \A y \in T : x <= y
<1> DEFINE R == OpToRel(<, Nat)
<1>1. R = {ss \in Nat \X Nat : ss[1] < ss[2]} BY Zenon DEF OpToRel
<1>2. IsWellFoundedOn(R, Nat) BY NatLessThanWellFounded
<1> HIDE DEF R
<1>3. PICK x \in T : \A y \in T : <<y, x>> \notin R BY <1>2, WFMin
<1>4. ASSUME NEW y \in T, y < x PROVE FALSE
  <2>1. <<y, x>> \in Nat \X Nat OBVIOUS
  <2>2. QED BY <1>1, <1>3, <1>4, <2>1
<1>5. QED BY <1>4

\* A bounded set of naturals that is not empty has a greatest element.
LEMMA Greatest ==
  ASSUME NEW n \in Nat, NEW T \in SUBSET (0..n), T # {}
  PROVE  \E x \in T : \A y \in T : y <= x
<1> DEFINE U == {k \in Nat : \A y \in T : y <= k}
<1>1. U \in SUBSET Nat /\ n \in U OBVIOUS
<1>2. PICK x \in U : \A y \in U : x <= y
  <2> HIDE DEF U
  <2>1. QED BY <1>1, Least
<1>3. x \in T
  <2> SUFFICES ASSUME x \notin T PROVE FALSE OBVIOUS
  <2>1. PICK y \in T : TRUE OBVIOUS
  <2>2. y <= x /\ y # x /\ y \in Nat BY <1>2, <2>1
  <2>3. x - 1 \in U BY <1>2, <2>2
  <2>4. QED BY <1>2, <2>3
<1>4. QED BY <1>2, <1>3

\* A set with 0 in it, and with n + 1 whenever n is, holds every natural number.
LEMMA Up ==
  ASSUME NEW T, 0 \in T, \A n \in Nat : n \in T => n + 1 \in T
  PROVE  \A n \in Nat : n \in T
<1> SUFFICES ASSUME NEW k \in Nat, k \notin T PROVE FALSE OBVIOUS
<1> DEFINE U == {n \in Nat : n \notin T}
<1>1. PICK m \in U : \A y \in U : m <= y
  <2>1. U \in SUBSET Nat /\ U # {} OBVIOUS
  <2> HIDE DEF U
  <2>2. QED BY <2>1, Least
<1>2. m - 1 \in Nat /\ m - 1 \notin U BY <1>1
<1>3. QED BY <1>1, <1>2

----
(* The two kinds of process, seen alike. *)

\* The stage of a client's pending call, and the slot its calls are about.
Stage(c) == IF c \in Suites THEN pc[c] ELSE IF c \in Gates THEN gPc[c] ELSE "off"
Lease(c) == IF c \in Suites THEN lease[c] ELSE IF c \in Gates THEN gLease[c] ELSE 0

Fresh == {"start", "off"}
AtWork == {"ready-proof", "geometry", "inject", "run", "snapshot", "framebuffer"}
Leaving == {"destroy", "cleanup"}
Gone == {"done", "panicked"}

\* What is asked of the worker at a stage.
Asks(stage) ==
  IF stage = "ready-proof" THEN "read" ELSE IF stage = "geometry" THEN "framebuffer"
  ELSE IF stage = "cleanup" THEN "destroy" ELSE stage

\* Client c is at stage s with lease l; no other client has moved.
Moved(c, s, l) ==
  \A d \in Clients : /\ Stage(d)' = IF d = c THEN s ELSE Stage(d)
                     /\ Lease(d)' = IF d = c THEN l ELSE Lease(d)

\* A client takes its reply and makes the next call.
Goes(c, s, l, r) ==
  /\ Moved(c, s, l) /\ Issue(c, r) /\ r.op = Asks(s) /\ (r.op # "restore" => r.lease = l)
  /\ \/ Stage(c) = "start" /\ s = "restore" /\ l = Lease(c)
     \/ Stage(c) = "restore" /\ reply[c].status = "ok" /\ s \in AtWork /\ l = reply[c].lease
     \/ /\ Stage(c) \in AtWork /\ reply[c].status # "none" /\ l = Lease(c)
        /\ s \in AtWork \cup Leaving
        /\ s \in AtWork \/ c \in Suites => reply[c].status = "ok"
     \/ /\ Stage(c) = "destroy" /\ reply[c].status = "ok" /\ c \in Suites
        /\ s = "restore" /\ l = Lease(c)

\* A client makes no further call.
Stops(c, s) ==
  /\ Moved(c, s, Lease(c)) /\ s \in Gone
  /\ UNCHANGED <<corrupt, slots, snapshots, nextSlot, sealing, calls>>
  /\ \/ Stage(c) = "start" /\ UNCHANGED reply
     \/ /\ Stage(c) \notin Fresh \cup Gone /\ reply[c].status # "none"
        /\ reply' = [reply EXCEPT ![c] = NoReply]

\* The worker, or the connection: no client moves.
Still == \A d \in Clients : Stage(d)' = Stage(d) /\ Lease(d)' = Lease(d)

----
(* The discipline of the calls. *)

\* A given-up call may still reach the worker after its client has gone on: a suite is
\* over then, a gate is giving its slot back at least.
GaveUp(c) ==
  reply[c].status = "rpc" \/ Stage(c) \in Gone \/ (c \notin Suites /\ Stage(c) \in Leaving)

\* Each client has one awaited call, which is the one of its stage, and no reply before it
\* is answered; whatever calls of it are under way are about its own slot.
CallOK(k) ==
  /\ k = [client |-> k.client, awaited |-> k.awaited, req |-> k.req]
  /\ k.client \in Clients /\ k.awaited \in BOOLEAN /\ Stage(k.client) \notin Fresh
  /\ k.awaited => /\ reply[k.client].status = "none" /\ Stage(k.client) \notin Gone
                  /\ k.req.op = Asks(Stage(k.client))
  /\ ~k.awaited => GaveUp(k.client)
  /\ IF k.req.op = "restore" THEN Stage(k.client) \in {"restore"} \cup Gone
     ELSE Stage(k.client) # "restore" /\ k.req.lease = Lease(k.client)
  /\ k.req.op = "destroy" => Stage(k.client) \in Leaving \cup Gone

SealOK(k) ==
  /\ k = [client |-> k.client, awaited |-> k.awaited, guest |-> k.guest]
  /\ k.client \in Clients /\ k.awaited \in BOOLEAN /\ Stage(k.client) \notin Fresh
  /\ k.awaited => reply[k.client].status = "none" /\ Stage(k.client) = "snapshot"
  /\ ~k.awaited => GaveUp(k.client)

OneAwaited ==
  /\ \A k, l \in calls : k.awaited /\ l.awaited /\ k.client = l.client => k = l
  /\ \A k, l \in sealing : k.awaited /\ l.awaited /\ k.client = l.client => k = l
  /\ \A k \in calls, l \in sealing : ~(k.awaited /\ l.awaited /\ k.client = l.client)

ReplyOK(c) == Stage(c) \in Fresh \cup Gone => reply[c].status = "none"

Shapes ==
  /\ reply = [c \in Clients |-> reply[c]]
  /\ pc = [c \in Suites |-> pc[c]] /\ gPc = [c \in Gates |-> gPc[c]]
  /\ lease = [c \in Suites |-> lease[c]] /\ gLease = [c \in Gates |-> gLease[c]]

RpcInv ==
  /\ Shapes /\ OneAwaited
  /\ \A k \in calls : CallOK(k)
  /\ \A k \in sealing : SealOK(k)
  /\ \A c \in Clients : ReplyOK(c)

----
(* Who holds which slot. *)

\* own: the client each slot ever issued was issued to.
Owned(own) ==
  /\ nextSlot \in Nat /\ own \in [1..nextSlot -> Clients]
  /\ DOMAIN slots \subseteq 1..nextSlot
  /\ \A i, j \in DOMAIN slots : own[i] = own[j] => i = j
  /\ \A k \in calls :
       IF k.req.op = "restore"
       THEN /\ \A i \in DOMAIN slots : own[i] # k.client
            /\ \A l \in calls : l.req.op = "restore" /\ l.client = k.client => l = k
       ELSE k.req.lease \in 1..nextSlot /\ own[k.req.lease] = k.client

Holding(own, c) ==
  /\ Stage(c) \in Fresh => \A i \in DOMAIN slots : own[i] # c
  /\ Stage(c) = "restore" /\ reply[c].status = "ok" =>
       reply[c].lease \in DOMAIN slots /\ own[reply[c].lease] = c
  /\ Stage(c) \in AtWork \cup Leaving =>
       /\ Lease(c) \in 1..nextSlot /\ own[Lease(c)] = c
       /\ \A i \in DOMAIN slots : own[i] = c => i = Lease(c)
  /\ Stage(c) \in AtWork => Lease(c) \in DOMAIN slots
  /\ Stage(c) \in Leaving /\ reply[c].status \notin {"none", "rpc"} =>
       Lease(c) \notin DOMAIN slots

\* A process that took its lease keeps the number.
Kept(own, c) ==
  Lease(c) # 0 => Lease(c) \in 1..nextSlot /\ own[Lease(c)] = c

OwnInv(own) == Owned(own) /\ \A c \in Clients : Holding(own, c) /\ Kept(own, c)

----
(* Who answers for it. *)

\* The processes SlotsAccounted counts.
Answerable(c) ==
  \/ c \in Suites /\ \/ pc[c] \notin {"start", "done", "panicked", "off"}
                     \/ report[c].failure \notin {"none", "connect"}
  \/ c \in Gates /\ \/ gPc[c] \notin {"start", "done", "off"}
                    \/ gFailures[c] \cap {"restore", "destroy"} # {}
                    \/ faults.count >= 2

AnswerInv(own) ==
  /\ \A i \in DOMAIN slots : Answerable(own[i])
  /\ \A k \in calls : k.req.op = "restore" => Answerable(k.client)

\* What the worker keeps: guests whose frame counters are numbers.
GuestOK(g) ==
  /\ g.counter \in Nat
  /\ g = [counter |-> g.counter, room |-> g.room, nonzero |-> g.nonzero,
          lastPad |-> g.lastPad, metaFrame |-> g.metaFrame, running |-> g.running]

SlotsOK ==
  /\ slots = [i \in DOMAIN slots |->
                [state |-> slots[i].state, scheduled |-> slots[i].scheduled]]
  /\ \A i \in DOMAIN slots : GuestOK(slots[i].state)

StoreOK ==
  /\ SlotsOK
  /\ \A ref \in DOMAIN snapshots : GuestOK(snapshots[ref])
  /\ \A k \in sealing : GuestOK(k.guest)
  /\ \A k \in calls : k.req.op = "run" => k.req.budget \in Nat

ReportOK ==
  report = [c \in Suites |-> report[c]] /\ \A c \in Suites : "failure" \in DOMAIN report[c]

ReportShapes ==
  /\ ReportOK
  /\ gOpts \in [Gates -> GateOptions] /\ gBase \in [Gates -> Nat]
  /\ gStops \in [Gates -> SUBSET Nat] /\ gFramesRun \in [Gates -> Nat]
  /\ gFailures = [c \in Gates |-> gFailures[c]]
  /\ faults.count \in Nat /\ faults = [count |-> faults.count, bound |-> faults.bound]

\* A gate runs to the next of its stops.
GatePlan(c) ==
  /\ gPc[c] = "run" => gStops[c] # {}
  /\ gPc[c] = "framebuffer" => \A stop \in gStops[c] : gFramesRun[c] <= stop

\* A gate cleans up only after a failure on the clients' side: the mock refuses nothing
\* of what a gate asks of its slot.
GateFaults(c) ==
  /\ gPc[c] = "cleanup" => faults.count >= 1
  /\ gPc[c] = "cleanup" /\ reply[c].status = "rpc" => faults.count >= 2
  /\ gPc[c] \in {"ready-proof", "geometry", "inject", "run"} =>
       reply[c].status \in {"none", "ok", "rpc"}
  /\ gPc[c] \in Fresh \cup {"restore"} => gLease[c] = 0 /\ gFailures[c] = {}
  /\ "restore" \in gFailures[c] => gLease[c] = 0

\* The events of a gate are in the future of its guest until they are injected.
GateCounts(c) ==
  /\ gPc[c] = "restore" /\ reply[c].status = "ok" =>
       reply[c].guest.counter = slots[reply[c].lease].state.counter
  /\ gPc[c] \in {"ready-proof", "geometry", "inject"} /\ reply[c].status \in {"none", "ok"} =>
       slots[gLease[c]].state.counter = gBase[c]
  /\ \A k \in calls : k.client = c /\ k.req.op = "inject" =>
       \A at \in DOMAIN k.req.events : at \in Nat /\ at > gBase[c]

GateOK(c) == GatePlan(c) /\ GateFaults(c) /\ GateCounts(c)

FaultsSeen == \A c \in Clients : reply[c].status = "rpc" => faults.count >= 1

WorkInv == StoreOK /\ ReportShapes /\ FaultsSeen /\ \A c \in Gates : GateOK(c)

VmInv == RpcInv /\ WorkInv /\ \E own : OwnInv(own) /\ AnswerInv(own)

----
(* Every action is one of these. *)

LEMMA Kinds == Gates \subseteq Clients /\ Suites \subseteq Clients /\ Gates \cap Suites = {}
  BY GatesAssumption, SuitesAssumption

LEMMA SuiteMoved ==
  ASSUME Shapes, NEW c \in Suites, NEW s, NEW l, pc' = [pc EXCEPT ![c] = s],
         lease' = [lease EXCEPT ![c] = l], UNCHANGED <<gPc, gLease>>
  PROVE  Moved(c, s, l)
  BY Kinds DEF Shapes, Moved, Stage, Lease

LEMMA SuiteMovedOn ==
  ASSUME Shapes, NEW c \in Suites, NEW s, pc' = [pc EXCEPT ![c] = s],
         UNCHANGED <<lease, gPc, gLease>>
  PROVE  Moved(c, s, Lease(c))
  BY Kinds DEF Shapes, Moved, Stage, Lease

LEMMA GateMoved ==
  ASSUME Shapes, NEW c \in Gates, NEW s, NEW l, gPc' = [gPc EXCEPT ![c] = s],
         gLease' = [gLease EXCEPT ![c] = l], UNCHANGED <<pc, lease>>
  PROVE  Moved(c, s, l)
  BY Kinds DEF Shapes, Moved, Stage, Lease

LEMMA GateMovedOn ==
  ASSUME Shapes, NEW c \in Gates, NEW s, gPc' = [gPc EXCEPT ![c] = s],
         UNCHANGED <<gLease, pc, lease>>
  PROVE  Moved(c, s, Lease(c))
  BY Kinds DEF Shapes, Moved, Stage, Lease

LEMMA Requests ==
  /\ \A ref : RestoreRequest(ref).op = "restore"
  /\ \A l, e : InjectRequest(l, e).op = "inject" /\ InjectRequest(l, e).lease = l
  /\ \A l, b : RunRequest(l, b).op = "run" /\ RunRequest(l, b).lease = l
  /\ \A o, l : SlotRequest(o, l).op = o /\ SlotRequest(o, l).lease = l
  BY DEF RestoreRequest, InjectRequest, RunRequest, SlotRequest

LEMMA GateRequests ==
  /\ \A ref : G!RestoreRequest(ref).op = "restore"
  /\ \A l, e : G!InjectRequest(l, e).op = "inject" /\ G!InjectRequest(l, e).lease = l
  /\ \A l, b : G!RunRequest(l, b).op = "run" /\ G!RunRequest(l, b).lease = l
  /\ \A o, l : G!SlotRequest(o, l).op = o /\ G!SlotRequest(o, l).lease = l
  BY DEF G!RestoreRequest, G!InjectRequest, G!RunRequest, G!SlotRequest

LEMMA RequestOf ==
  ASSUME NEW l
  PROVE  /\ \A n : RunRequest(l, n).op = Asks("run") /\ RunRequest(l, n).lease = l
         /\ \A e : InjectRequest(l, e).op = Asks("inject") /\ InjectRequest(l, e).lease = l
         /\ \A st \in {"snapshot", "destroy"} :
              SlotRequest(st, l).op = Asks(st) /\ SlotRequest(st, l).lease = l
         /\ {"run", "inject", "snapshot"} \subseteq AtWork /\ "destroy" \in Leaving
  BY Requests DEF Asks, AtWork, Leaving

Client(c) == (\E s, l, r : Goes(c, s, l, r)) \/ (\E s : Stops(c, s))

LEMMA InjectThenRunGoes ==
  ASSUME NEW c, NEW l, NEW e, InjectThenRun(c, l, e)
  PROVE  \E s, r : /\ pc' = [pc EXCEPT ![c] = s] /\ Issue(c, r) /\ s \in AtWork
                   /\ r.op = Asks(s) /\ r.lease = l
<1>1. CASE DOMAIN e = {}
  <2>1. pc' = [pc EXCEPT ![c] = "run"] /\ Issue(c, RunRequest(l, 1))
    BY <1>1 DEF InjectThenRun, Goto, Call
  <2>2. "run" \in AtWork /\ RunRequest(l, 1).op = Asks("run") /\ RunRequest(l, 1).lease = l
    BY RequestOf
  <2>3. QED BY <2>1, <2>2, Zenon
<1>2. CASE DOMAIN e # {}
  <2>1. pc' = [pc EXCEPT ![c] = "inject"] /\ Issue(c, InjectRequest(l, e))
    BY <1>2 DEF InjectThenRun, Goto, Call
  <2>2. "inject" \in AtWork /\ InjectRequest(l, e).op = Asks("inject") /\ InjectRequest(l, e).lease = l
    BY RequestOf
  <2>3. QED BY <2>1, <2>2, Zenon
<1>3. QED BY <1>1, <1>2

LEMMA SuiteClient ==
  ASSUME RpcInv, NEW c \in Suites, SuiteSteps(c)
  PROVE  Client(c)
<1>0. Shapes /\ UNCHANGED <<gPc, gLease>> /\ Stage(c) = pc[c] /\ Lease(c) = lease[c]
  BY DEF RpcInv, SuiteSteps, gateVars, Stage, Lease
<1>1. CASE Connect(c)
  <2>1. CASE opts[c].nondet /\ opts[c].script = << >>
    <3>1. Stops(c, "panicked")
      BY <1>0, <1>1, <2>1, SuiteMovedOn DEF Connect, Goto, workerVars, Stops, Gone
    <3>2. QED BY <3>1 DEF Client
  <2>2. CASE ~(opts[c].nondet /\ opts[c].script = << >>)
    <3>1. Goes(c, "restore", Lease(c), RestoreRequest(READY))
      BY <1>0, <1>1, <2>2, SuiteMovedOn, Requests DEF Connect, Goto, Call, Goes, Asks
    <3>2. QED BY <3>1 DEF Client
  <2>3. QED BY <2>1, <2>2
<1>2. CASE ConnectFails(c)
  <2>1. Stops(c, "done") BY <1>0, <1>2, SuiteMovedOn DEF ConnectFails, Goto, Stops, Gone
  <2>2. QED BY <2>1 DEF Client
<1>3. CASE Restored(c)
  <2>1. PICK e : InjectThenRun(c, reply[c].lease, e) BY <1>3, Zenon DEF Restored
  <2>2. PICK s, r : /\ pc' = [pc EXCEPT ![c] = s] /\ Issue(c, r) /\ s \in AtWork
                    /\ r.op = Asks(s) /\ r.lease = reply[c].lease
    BY <2>1, InjectThenRunGoes
  <2>3. lease' = [lease EXCEPT ![c] = reply[c].lease] /\ Answered(c, "restore") BY <1>3 DEF Restored
  <2>4. Moved(c, s, reply[c].lease) BY <1>0, <2>2, <2>3, SuiteMoved
  <2>5. Goes(c, s, reply[c].lease, r) BY <1>0, <2>2, <2>3, <2>4 DEF Goes, Answered
  <2>6. QED BY <2>5 DEF Client
<1>4. CASE Injected(c)
  <2>1. Moved(c, "run", Lease(c)) /\ Issue(c, RunRequest(lease[c], 1))
    BY <1>0, <1>4, SuiteMovedOn DEF Injected, Goto, Call
  <2>2. "run" \in AtWork /\ RunRequest(lease[c], 1).op = Asks("run")
        /\ RunRequest(lease[c], 1).lease = Lease(c)
    BY <1>0, RequestOf
  <2>3. Stage(c) \in AtWork /\ reply[c].status = "ok" BY <1>0, <1>4 DEF Injected, Answered, AtWork
  <2>4. Goes(c, "run", Lease(c), RunRequest(lease[c], 1)) BY <2>1, <2>2, <2>3 DEF Goes
  <2>5. QED BY <2>4 DEF Client
<1>5. CASE Ran(c)
  <2>1. PICK s, r : /\ pc' = [pc EXCEPT ![c] = s] /\ Issue(c, r) /\ s \in AtWork \cup Leaving
                    /\ r.op = Asks(s) /\ r.lease = lease[c]
    <3>1. \/ Goto(c, "snapshot") /\ Call(c, SlotRequest("snapshot", lease[c]))
          \/ Goto(c, "destroy") /\ Call(c, SlotRequest("destroy", lease[c]))
          \/ Goto(c, "run") /\ Call(c, RunRequest(lease[c], 1))
      BY <1>5, Zenon DEF Ran
    <3>2. \/ pc' = [pc EXCEPT ![c] = "snapshot"] /\ Issue(c, SlotRequest("snapshot", lease[c]))
          \/ pc' = [pc EXCEPT ![c] = "destroy"] /\ Issue(c, SlotRequest("destroy", lease[c]))
          \/ pc' = [pc EXCEPT ![c] = "run"] /\ Issue(c, RunRequest(lease[c], 1))
      BY <3>1 DEF Goto, Call
    <3>3. QED BY <3>2, RequestOf
  <2>2. UNCHANGED lease /\ Answered(c, "run") BY <1>5 DEF Ran
  <2>3. Moved(c, s, Lease(c)) BY <1>0, <2>1, <2>2, SuiteMovedOn
  <2>4. Goes(c, s, Lease(c), r) BY <1>0, <2>1, <2>2, <2>3 DEF Goes, Answered, AtWork
  <2>5. QED BY <2>4 DEF Client
<1>6. CASE Snapshotted(c)
  <2>1. PICK e : InjectThenRun(c, lease[c], e) BY <1>6, Zenon DEF Snapshotted
  <2>2. PICK s, r : /\ pc' = [pc EXCEPT ![c] = s] /\ Issue(c, r) /\ s \in AtWork
                    /\ r.op = Asks(s) /\ r.lease = lease[c]
    BY <2>1, InjectThenRunGoes
  <2>3. UNCHANGED lease /\ Answered(c, "snapshot") BY <1>6 DEF Snapshotted
  <2>4. Moved(c, s, Lease(c)) BY <1>0, <2>2, <2>3, SuiteMovedOn
  <2>5. Goes(c, s, Lease(c), r) BY <1>0, <2>2, <2>3, <2>4 DEF Goes, Answered, AtWork
  <2>6. QED BY <2>5 DEF Client
<1>7. CASE ReferenceDone(c) \/ SecondDone(c)
           \/ (ContinuedDone(c) /\ iteration[c] < opts[c].iterations)
  <2>1. PICK ref : Goto(c, "restore") /\ Call(c, RestoreRequest(ref))
    BY <1>7, Zenon DEF ReferenceDone, SecondDone, ContinuedDone
  <2>2. Answered(c, "destroy") /\ UNCHANGED lease
    BY <1>7 DEF ReferenceDone, SecondDone, ContinuedDone
  <2>3. Goes(c, "restore", Lease(c), RestoreRequest(ref))
    BY <1>0, <2>1, <2>2, SuiteMovedOn, Requests DEF Goto, Call, Goes, Asks, Answered
  <2>4. QED BY <2>3 DEF Client
<1>8. CASE (ContinuedDone(c) /\ ~(iteration[c] < opts[c].iterations)) \/ Fails(c)
  <2>1. Goto(c, "done") /\ HangUp(c) BY <1>8, Zenon DEF ContinuedDone, Fails
  <2>2. /\ UNCHANGED lease /\ reply[c].status # "none"
        /\ pc[c] \in {"restore", "inject", "run", "snapshot", "destroy"}
    BY <1>8 DEF ContinuedDone, Fails, Answered
  <2>3. Stops(c, "done") BY <1>0, <2>1, <2>2, SuiteMovedOn DEF Goto, HangUp, Stops, Gone, Fresh
  <2>4. QED BY <2>3 DEF Client
<1>9. QED BY <1>1, <1>2, <1>3, <1>4, <1>5, <1>6, <1>7, <1>8 DEF SuiteSteps, Step, DriverStep

LEMMA GateRequestOf ==
  ASSUME NEW l
  PROVE  /\ \A n : G!RunRequest(l, n).op = Asks("run") /\ G!RunRequest(l, n).lease = l
         /\ \A e : G!InjectRequest(l, e).op = Asks("inject") /\ G!InjectRequest(l, e).lease = l
         /\ \A st \in {"framebuffer", "destroy"} :
              G!SlotRequest(st, l).op = Asks(st) /\ G!SlotRequest(st, l).lease = l
         /\ G!SlotRequest("read", l).op = Asks("ready-proof")
         /\ G!SlotRequest("read", l).lease = l
         /\ G!SlotRequest("framebuffer", l).op = Asks("geometry")
         /\ G!SlotRequest("destroy", l).op = Asks("cleanup")
         /\ {"run", "inject", "framebuffer", "ready-proof", "geometry"} \subseteq AtWork
         /\ {"destroy", "cleanup"} \subseteq Leaving
  BY GateRequests DEF Asks, AtWork, Leaving

LEMMA GateIssue == \A c, r : G!Issue(c, r) => Issue(c, r)
  BY DEF G!Issue, Issue, G!NoReply, NoReply

\* What a gate's step with lease l asks for at its next stage.
Asked(c, l, stages) ==
  \E s, r : /\ gPc' = [gPc EXCEPT ![c] = s] /\ Issue(c, r) /\ s \in stages
            /\ r.op = Asks(s) /\ r.lease = l

LEMMA AskedFor ==
  ASSUME NEW c, NEW l, NEW s, NEW r, NEW stages, gPc' = [gPc EXCEPT ![c] = s], Issue(c, r),
         s \in stages, r.op = Asks(s), r.lease = l
  PROVE  Asked(c, l, stages)
  BY Zenon DEF Asked

LEMMA DestroyAsked ==
  ASSUME NEW c, G!Destroy(c)
  PROVE  Asked(c, gLease[c], AtWork \cup Leaving)
<1>1. /\ gPc' = [gPc EXCEPT ![c] = "destroy"]
      /\ Issue(c, G!SlotRequest("destroy", gLease[c]))
  BY GateIssue DEF G!Destroy, G!Goto, G!Call
<1>2. QED BY <1>1, GateRequestOf, AskedFor

LEMMA ProceedAsked ==
  ASSUME NEW c, NEW stop, NEW left, NEW seen, NEW results,
         G!Proceed(c, stop, left, seen, results)
  PROVE  Asked(c, gLease[c], AtWork \cup Leaving)
<1> DEFINE r == G!RunRequest(gLease[c], G!Least(left) - stop)
<1>1. CASE G!Destroy(c) BY <1>1, DestroyAsked
<1>2. CASE ~G!Destroy(c)
  <2>1. gPc' = [gPc EXCEPT ![c] = "run"] /\ Issue(c, r)
    BY <1>2, GateIssue DEF G!Proceed, G!Goto, G!Call
  <2>2. "run" \in AtWork \cup Leaving /\ r.op = Asks("run") /\ r.lease = gLease[c] BY GateRequestOf
  <2> HIDE DEF r
  <2>3. QED BY <2>1, <2>2, AskedFor
<1>3. QED BY <1>1, <1>2

LEMMA GateClient ==
  ASSUME RpcInv, NEW c \in Gates, GateSteps(c)
  PROVE  Client(c)
<1>0. /\ Shapes /\ UNCHANGED <<pc, lease>> /\ Stage(c) = gPc[c] /\ Lease(c) = gLease[c]
      /\ c \notin Suites
  BY Kinds DEF RpcInv, GateSteps, driverVars, Stage, Lease
\* At its slot, the gate goes on or leaves.
<1>w. ASSUME NEW stages \in SUBSET (AtWork \cup Leaving), Asked(c, gLease[c], stages),
             UNCHANGED gLease, gPc[c] \in AtWork, reply[c].status # "none",
             reply[c].status = "ok" \/ stages = Leaving
      PROVE  Client(c)
  <2>1. PICK s, r : /\ gPc' = [gPc EXCEPT ![c] = s] /\ Issue(c, r) /\ s \in stages
                    /\ r.op = Asks(s) /\ r.lease = gLease[c]
    BY <1>w DEF Asked
  <2>2. Moved(c, s, Lease(c)) BY <1>0, <1>w, <2>1, GateMovedOn
  <2>3. s \in AtWork => reply[c].status = "ok" BY <1>w, <2>1 DEF AtWork, Leaving
  <2>4. Goes(c, s, Lease(c), r) BY <1>0, <1>w, <2>1, <2>2, <2>3 DEF Goes
  <2>5. QED BY <2>4 DEF Client
\* Its process is over.
<1>s. ASSUME NEW s \in Gone, gPc' = [gPc EXCEPT ![c] = s], HangUp(c), UNCHANGED gLease,
             gPc[c] \notin Fresh \cup Gone, reply[c].status # "none"
      PROVE  Client(c)
  <2>1. Stops(c, s) BY <1>0, <1>s, GateMovedOn DEF Stops, HangUp
  <2>2. QED BY <2>1 DEF Client
<1>h. G!HangUp(c) => HangUp(c) BY DEF G!HangUp, HangUp, G!NoReply, NoReply
<1>1. CASE G!Connect(c)
  <2>1. /\ gPc' = [gPc EXCEPT ![c] = "restore"] /\ UNCHANGED gLease /\ gPc[c] = "start"
        /\ Issue(c, G!RestoreRequest(gOpts[c].ref))
    BY <1>1, GateIssue DEF G!Connect, G!Goto, G!Call
  <2>2. Moved(c, "restore", Lease(c)) BY <1>0, <2>1, GateMovedOn
  <2>3. Goes(c, "restore", Lease(c), G!RestoreRequest(gOpts[c].ref))
    BY <1>0, <2>1, <2>2, GateRequests DEF Goes, Asks
  <2>4. QED BY <2>3 DEF Client
<1>2. CASE G!ConnectFails(c)
  <2>1. Stops(c, "done") BY <1>0, <1>2, GateMovedOn DEF G!ConnectFails, G!Goto, Stops, Gone
  <2>2. QED BY <2>1 DEF Client
<1>3. CASE G!Restored(c)
  <2> DEFINE r == G!SlotRequest("read", reply[c].lease)
  <2>1. /\ gPc' = [gPc EXCEPT ![c] = "ready-proof"] /\ Issue(c, r)
        /\ gLease' = [gLease EXCEPT ![c] = reply[c].lease]
        /\ gPc[c] = "restore" /\ reply[c].status = "ok"
    BY <1>3, GateIssue DEF G!Restored, G!Goto, G!Call, G!Answered
  <2>2. Moved(c, "ready-proof", reply[c].lease) BY <1>0, <2>1, GateMoved
  <2>3. r.op = Asks("ready-proof") /\ r.lease = reply[c].lease /\ "ready-proof" \in AtWork
    BY GateRequestOf
  <2> HIDE DEF r
  <2>4. Goes(c, "ready-proof", reply[c].lease, r) BY <1>0, <2>1, <2>2, <2>3 DEF Goes
  <2>5. QED BY <2>4 DEF Client
<1>4. CASE G!ReadyRead(c)
  <2> DEFINE r == G!SlotRequest("framebuffer", gLease[c])
  <2>1. /\ gPc' = [gPc EXCEPT ![c] = "geometry"] /\ Issue(c, r) /\ UNCHANGED gLease
        /\ gPc[c] \in AtWork /\ reply[c].status = "ok"
    BY <1>4, GateIssue DEF G!ReadyRead, G!Goto, G!Call, G!Answered, AtWork
  <2>2. r.op = Asks("geometry") /\ r.lease = gLease[c] /\ "geometry" \in AtWork BY GateRequestOf
  <2> HIDE DEF r
  <2>3. Asked(c, gLease[c], AtWork) BY <2>1, <2>2, AskedFor
  <2>4. QED BY <2>1, <2>3, <1>w
<1>5. CASE G!Inject(c)
  <2>1. PICK e : Issue(c, G!InjectRequest(gLease[c], e)) BY <1>5, GateIssue DEF G!Inject, G!Call
  <2> DEFINE r == G!InjectRequest(gLease[c], e)
  <2>2. /\ gPc' = [gPc EXCEPT ![c] = "inject"] /\ UNCHANGED gLease
        /\ gPc[c] \in AtWork /\ reply[c].status = "ok"
    BY <1>5 DEF G!Inject, G!Goto, G!Answered, AtWork
  <2>3. r.op = Asks("inject") /\ r.lease = gLease[c] /\ "inject" \in AtWork BY GateRequestOf
  <2> HIDE DEF r
  <2>4. Asked(c, gLease[c], AtWork) BY <2>1, <2>2, <2>3, AskedFor DEF r
  <2>5. QED BY <2>2, <2>4, <1>w
<1>6. CASE G!Injected(c)
  <2>1. UNCHANGED gLease /\ gPc[c] = "inject" /\ reply[c].status = "ok"
    BY <1>6 DEF G!Injected, G!Answered
  <2>2. CASE gOpts[c].step = 0
    <3>1. gPc' = [gPc EXCEPT ![c] = "panicked"] /\ HangUp(c)
      BY <1>6, <2>2, <1>h DEF G!Injected, G!Goto
    <3>2. QED BY <2>1, <3>1, <1>s DEF Gone, Fresh
  <2>3. CASE gOpts[c].step # 0
    <3> DEFINE r == G!RunRequest(gLease[c], G!Least(G!Stops(gOpts[c])))
    <3>1. gPc' = [gPc EXCEPT ![c] = "run"] /\ Issue(c, r)
      BY <1>6, <2>3, GateIssue DEF G!Injected, G!Goto, G!Call
    <3>2. r.op = Asks("run") /\ r.lease = gLease[c] /\ "run" \in AtWork BY GateRequestOf
    <3> HIDE DEF r
    <3>3. Asked(c, gLease[c], AtWork) BY <3>1, <3>2, AskedFor
    <3>4. QED BY <2>1, <3>3, <1>w DEF AtWork
  <2>4. QED BY <2>2, <2>3
<1>7. CASE G!Ran(c)
  <2>1. UNCHANGED gLease /\ gPc[c] \in AtWork /\ reply[c].status = "ok"
    BY <1>7 DEF G!Ran, G!Answered, AtWork
  <2>2. \/ G!Goto(c, "framebuffer") /\ G!Call(c, G!SlotRequest("framebuffer", gLease[c]))
        \/ \E stop, left, seen, results : G!Proceed(c, stop, left, seen, results)
    BY <1>7, Zenon DEF G!Ran
  <2>3. CASE \E stop, left, seen, results : G!Proceed(c, stop, left, seen, results)
    BY <2>1, <2>3, ProceedAsked, <1>w
  <2>4. CASE G!Goto(c, "framebuffer") /\ G!Call(c, G!SlotRequest("framebuffer", gLease[c]))
    <3> DEFINE r == G!SlotRequest("framebuffer", gLease[c])
    <3>1. gPc' = [gPc EXCEPT ![c] = "framebuffer"] /\ Issue(c, r)
      BY <2>4, GateIssue DEF G!Goto, G!Call
    <3>2. r.op = Asks("framebuffer") /\ r.lease = gLease[c] /\ "framebuffer" \in AtWork
      BY GateRequestOf
    <3> HIDE DEF r
    <3>3. Asked(c, gLease[c], AtWork) BY <3>1, <3>2, AskedFor
    <3>4. QED BY <2>1, <3>3, <1>w
  <2>5. QED BY <2>2, <2>3, <2>4
<1>8. CASE G!Captured(c)
  <2>1. UNCHANGED gLease /\ gPc[c] \in AtWork /\ reply[c].status = "ok"
    BY <1>8 DEF G!Captured, G!Answered, AtWork
  <2>2. \E stop, left, seen, results : G!Proceed(c, stop, left, seen, results)
    BY <1>8, Zenon DEF G!Captured
  <2>3. QED BY <2>1, <2>2, ProceedAsked, <1>w
<1>9. CASE G!RanAtZeroPanics(c)
  BY <1>9, <1>s, <1>h DEF G!RanAtZeroPanics, G!Goto, G!Answered, Gone, Fresh
<1>10. CASE G!RestoreFails(c) BY <1>10, <1>s, <1>h DEF G!RestoreFails, G!Goto, G!Failed, Gone, Fresh
<1>11. CASE G!CleanedUp(c) \/ G!Judge(c)
  BY <1>11, <1>s, <1>h DEF G!CleanedUp, G!Judge, G!Goto, Gone, Fresh
<1>12. CASE G!CallFails(c) \/ G!GeometryMismatch(c) \/ G!UnexpectedStop(c) \/ G!CaptureFails(c)
  <2>1. UNCHANGED gLease /\ gPc[c] \in AtWork /\ reply[c].status # "none"
    BY <1>12 DEF G!CallFails, G!CleanUp, G!GeometryMismatch, G!UnexpectedStop, G!CaptureFails,
       G!Failed, G!Answered, AtWork
  <2>2. PICK s \in {"destroy", "cleanup"} :
          /\ gPc' = [gPc EXCEPT ![c] = s]
          /\ Issue(c, G!SlotRequest("destroy", gLease[c]))
    BY <1>12, GateIssue DEF G!CallFails, G!CleanUp, G!GeometryMismatch, G!UnexpectedStop,
       G!CaptureFails, G!Destroy, G!Goto, G!Call
  <2> DEFINE r == G!SlotRequest("destroy", gLease[c])
  <2>3. r.op = Asks(s) /\ r.lease = gLease[c] /\ s \in Leaving BY <2>2, GateRequestOf
  <2> HIDE DEF r
  <2>4. Asked(c, gLease[c], Leaving) BY <2>2, <2>3, AskedFor DEF r
  <2>5. QED BY <2>1, <2>4, <1>w
<1>13. QED BY <1>1, <1>2, <1>3, <1>4, <1>5, <1>6, <1>7, <1>8, <1>9, <1>10, <1>11, <1>12
     DEF GateSteps, G!Step, G!DriverStep

----
(* The discipline is kept. *)

LEMMA HandleShape ==
  ASSUME NEW k, Handle(k)
  PROVE  /\ calls' = calls \ {k}
         /\ \/ sealing' = sealing /\ \E answer : Deliver(k, answer)
            \/ /\ k.req.op = "snapshot" /\ UNCHANGED reply
               /\ sealing' = sealing \cup {[client |-> k.client, awaited |-> k.awaited,
                                            guest |-> slots[k.req.lease].state]}
<1>1. CASE RestoreSnapshot(k) BY <1>1, Zenon DEF Handle, RestoreSnapshot
<1>2. CASE SlotGone(k) \/ Run(k) \/ Read(k) \/ DestroyVm(k)
  BY <1>2, Zenon DEF Handle, SlotGone, Run, Read, DestroyVm
<1>3. CASE InjectInputs(k) BY <1>3, Zenon DEF Handle, InjectInputs
<1>4. CASE TakeSnapshot(k) BY <1>4, Zenon DEF Handle, TakeSnapshot, WithSlot
<1>5. QED BY <1>1, <1>2, <1>3, <1>4 DEF Handle
LEMMA ShapesKept == Shapes /\ [Next]_allVars => Shapes'
<1> SUFFICES ASSUME Shapes, [Next]_allVars PROVE Shapes' OBVIOUS
<1>1. ASSUME NEW c \in Suites, SuiteSteps(c) PROVE Shapes'
  BY <1>1 DEF Shapes, SuiteSteps, gateVars, Step, DriverStep, Connect, ConnectFails, Restored,
     Injected, Ran, Snapshotted, ReferenceDone, SecondDone, ContinuedDone, Fails,
     InjectThenRun, Goto, Call, Issue, HangUp, workerVars
<1>2. ASSUME NEW c \in Gates, GateSteps(c) PROVE Shapes'
  BY <1>2 DEF Shapes, GateSteps, driverVars, G!Step, G!DriverStep, G!Connect, G!ConnectFails,
     G!Restored, G!ReadyRead, G!Inject, G!Injected, G!Ran, G!RanAtZeroPanics, G!Captured,
     G!RestoreFails, G!CallFails, G!CaptureFails, G!CleanedUp, G!Judge, G!GeometryMismatch,
     G!UnexpectedStop, G!CleanUp, G!Proceed, G!Destroy, G!Goto, G!Call, G!Issue, G!HangUp
<1>3. CASE WorkerSteps
  <2>1. UNCHANGED reply \/ (\E c, a : reply' = [reply EXCEPT ![c] = a])
    <3>1. CASE \E c \in Clients : RpcFails(c) BY <3>1, Zenon DEF RpcFails
    <3>2. CASE Store BY <3>2, Zenon DEF Store, StoreSnapshot, Deliver
    <3>3. ASSUME NEW k, Handle(k)
          PROVE  UNCHANGED reply \/ (\E c, a : reply' = [reply EXCEPT ![c] = a])
      BY <3>3, HandleShape, Zenon DEF Deliver
    <3>4. QED BY <1>3, <3>1, <3>2, <3>3 DEF WorkerSteps, WorkerNext, Serve, ServeGivenUp
  <2>2. QED BY <1>3, <2>1 DEF WorkerSteps, driverVars, gateVars, Shapes
<1>4. CASE UNCHANGED allVars BY <1>4 DEF allVars, workerVars, driverVars, gateVars, Shapes
<1>5. QED BY <1>1, <1>2, <1>3, <1>4 DEF Next, Ended

LEMMA AsksWhat ==
  ASSUME NEW s
  PROVE  /\ s \in AtWork => Asks(s) \notin {"restore", "destroy"}
         /\ s \in Leaving => Asks(s) = "destroy"
         /\ s = "restore" => Asks(s) = "restore"
  BY DEF AtWork, Leaving, Asks

\* A client that goes on has no other call awaited, and given-up ones only to leave.
LEMMA NothingAwaited ==
  ASSUME RpcInv, NEW c \in Clients, Stage(c) = "start" \/ reply[c].status # "none"
  PROVE  /\ \A k \in calls \cup sealing : k.client = c => ~k.awaited
         /\ Stage(c) = "start" \/ (reply[c].status # "rpc" /\ Stage(c) \notin Leaving \cup Gone) =>
              \A k \in calls \cup sealing : k.client # c
         /\ c \in Suites /\ reply[c].status = "ok" /\ Stage(c) \notin Gone =>
              \A k \in calls \cup sealing : k.client # c
  BY DEF RpcInv, CallOK, SealOK, GaveUp, Fresh

LEMMA RpcGoes ==
  ASSUME RpcInv, Shapes', NEW c \in Clients, NEW s, NEW l, NEW r, Goes(c, s, l, r)
  PROVE  RpcInv'
<1> DEFINE new == [client |-> c, awaited |-> TRUE, req |-> r]
<1>1. /\ calls' = calls \cup {new} /\ sealing' = sealing
      /\ \A d \in Clients : reply'[d] = IF d = c THEN NoReply ELSE reply[d]
      /\ NoReply.status = "none"
  BY DEF Goes, Issue, RpcInv, Shapes, NoReply
<1>2. /\ new = [client |-> new.client, awaited |-> new.awaited, req |-> new.req]
      /\ new.client = c /\ new.awaited = TRUE /\ new.req = r
  OBVIOUS
<1> HIDE DEF new
<1>3. /\ r.op = Asks(s) /\ (r.op # "restore" => r.lease = l) /\ s \notin Fresh \cup Gone
      /\ \A d \in Clients : /\ Stage(d)' = IF d = c THEN s ELSE Stage(d)
                            /\ Lease(d)' = IF d = c THEN l ELSE Lease(d)
  BY DEF Goes, Moved, Fresh, Gone, AtWork, Leaving
<1>4. \A k \in calls \cup sealing : k.client = c => ~k.awaited BY NothingAwaited DEF Goes
<1>5. \/ \A k \in calls \cup sealing : k.client # c
      \/ c \notin Suites /\ s \in Leaving /\ l = Lease(c) /\ Stage(c) \in AtWork
  BY NothingAwaited DEF Goes, AtWork, Leaving, Gone
<1>6. CallOK(new)'
  <2>1. s \in {"restore"} \cup AtWork \cup Leaving /\ Asks(s) = r.op BY DEF Goes
  <2>2. r.op = "restore" <=> s = "restore" BY <2>1, AsksWhat DEF AtWork, Leaving
  <2>3. r.op = "destroy" => s \in Leaving BY <2>1, AsksWhat
  <2>4. Stage(c)' = s /\ Lease(c)' = l /\ reply'[c].status = "none" BY <1>1, <1>3
  <2>5. QED BY <1>2, <1>3, <2>2, <2>3, <2>4 DEF CallOK
<1>7. ASSUME NEW k \in calls PROVE CallOK(k)'
  <2>1. CallOK(k) BY DEF RpcInv
  <2>2. CASE k.client # c
    <3>1. /\ Stage(k.client)' = Stage(k.client) /\ Lease(k.client)' = Lease(k.client)
          /\ reply'[k.client] = reply[k.client]
      BY <1>1, <1>3, <2>1, <2>2 DEF CallOK
    <3>2. QED BY <2>1, <3>1 DEF CallOK, GaveUp
  <2>3. CASE k.client = c
    <3>1. ~k.awaited /\ c \notin Suites /\ s \in Leaving /\ l = Lease(c) /\ Stage(c) \in AtWork
      BY <1>4, <1>5, <2>3
    <3>2. Stage(c)' = s /\ Lease(c)' = Lease(c) BY <1>3, <3>1
    <3>3. QED BY <2>1, <2>3, <3>1, <3>2 DEF CallOK, GaveUp, Leaving, AtWork, Fresh, Gone
  <2>4. QED BY <2>2, <2>3
<1>8. ASSUME NEW k \in sealing PROVE SealOK(k)'
  <2>1. SealOK(k) BY DEF RpcInv
  <2>2. CASE k.client # c
    <3>1. /\ Stage(k.client)' = Stage(k.client)
          /\ reply'[k.client] = reply[k.client]
      BY <1>1, <1>3, <2>1, <2>2 DEF SealOK
    <3>2. QED BY <2>1, <3>1 DEF SealOK, GaveUp
  <2>3. CASE k.client = c
    <3>1. ~k.awaited /\ c \notin Suites /\ s \in Leaving BY <1>4, <1>5, <2>3
    <3>2. Stage(c)' = s BY <1>3
    <3>3. QED BY <2>1, <2>3, <3>1, <3>2 DEF SealOK, GaveUp, Leaving, Fresh
  <2>4. QED BY <2>2, <2>3
<1>9. OneAwaited' BY <1>1, <1>2, <1>4 DEF RpcInv, OneAwaited
<1>10. \A d \in Clients : ReplyOK(d)' BY <1>1, <1>3 DEF RpcInv, ReplyOK
<1>11. QED BY <1>1, <1>6, <1>7, <1>8, <1>9, <1>10 DEF RpcInv

LEMMA RpcStops ==
  ASSUME RpcInv, Shapes', NEW c \in Clients, NEW s, Stops(c, s)
  PROVE  RpcInv'
<1>1. /\ calls' = calls /\ sealing' = sealing
      /\ \A d \in Clients : reply'[d].status = IF d = c THEN "none" ELSE reply[d].status
  BY DEF Stops, RpcInv, Shapes, ReplyOK, NoReply, Fresh
<1>2. /\ s \in Gone
      /\ \A d \in Clients : /\ Stage(d)' = IF d = c THEN s ELSE Stage(d)
                            /\ Lease(d)' = Lease(d)
  BY DEF Stops, Moved
<1>3. \A k \in calls \cup sealing : k.client = c => ~k.awaited BY NothingAwaited DEF Stops
<1>4. ASSUME NEW k \in calls PROVE CallOK(k)'
  BY <1>1, <1>2, <1>3 DEF RpcInv, CallOK, GaveUp, Gone, Fresh
<1>5. ASSUME NEW k \in sealing PROVE SealOK(k)'
  BY <1>1, <1>2, <1>3 DEF RpcInv, SealOK, GaveUp, Gone, Fresh
<1>6. OneAwaited' /\ \A d \in Clients : ReplyOK(d)' BY <1>1, <1>2 DEF RpcInv, OneAwaited, ReplyOK
<1>7. QED BY <1>1, <1>4, <1>5, <1>6 DEF RpcInv

\* An answer reaches the client that waits for it.
LEMMA Answers ==
  ASSUME RpcInv, NEW k, k.client \in Clients, k.awaited \in BOOLEAN, NEW answer,
         Deliver(k, answer), NEW d \in Clients
  PROVE  reply'[d] = IF k.awaited /\ d = k.client THEN answer ELSE reply[d]
  BY DEF Deliver, RpcInv, Shapes

\* One awaited call the less.
LEMMA OthersWait ==
  ASSUME RpcInv, NEW k \in calls \cup sealing, k.awaited
  PROVE  /\ k.client \in Clients /\ Stage(k.client) \notin Fresh \cup Gone
         /\ \A l \in calls \cup sealing : l.awaited /\ l.client = k.client => l = k
  BY DEF RpcInv, CallOK, SealOK, OneAwaited, Fresh, Gone

LEMMA RpcServes ==
  ASSUME RpcInv, Shapes', Still, NEW k \in calls, Handle(k)
  PROVE  RpcInv'
<1>1. CallOK(k) /\ calls' = calls \ {k} /\ \A c \in Clients : Stage(c)' = Stage(c) /\ Lease(c)' = Lease(c)
  BY HandleShape DEF RpcInv, Still
<1>2. CASE sealing' = sealing /\ \E answer : Deliver(k, answer)
  <2>1. PICK answer : Deliver(k, answer) BY <1>2
  <2>2. \A d \in Clients : reply'[d] = IF k.awaited /\ d = k.client THEN answer ELSE reply[d]
    BY <1>1, <2>1, Answers DEF CallOK
  <2>3. \A j \in calls' \cup sealing' : j \in calls \cup sealing /\ (j.awaited /\ k.awaited => j.client # k.client)
    <3>1. \A j \in calls', l \in calls : j # k /\ j \in calls BY <1>1
    <3>2. k \notin sealing' BY <1>1, <1>2 DEF RpcInv, OneAwaited, CallOK, SealOK
    <3>3. QED BY <1>1, <1>2, <3>1, <3>2, OthersWait
  <2>4. ASSUME NEW j \in calls' PROVE CallOK(j)'
    <3>1. CallOK(j) /\ j \in calls BY <2>3, <1>1 DEF RpcInv
    <3>2. j.awaited => reply'[j.client] = reply[j.client] BY <2>2, <2>3, <3>1 DEF CallOK
    <3>3. ~j.awaited => GaveUp(j.client)'
      <4>1. ASSUME reply[j.client].status = "rpc" PROVE ~k.awaited \/ j.client # k.client
        BY <1>1, <4>1 DEF CallOK
      <4>2. QED BY <1>1, <2>2, <3>1, <4>1 DEF CallOK, GaveUp
    <3>4. QED BY <1>1, <3>1, <3>2, <3>3 DEF CallOK
  <2>5. ASSUME NEW j \in sealing' PROVE SealOK(j)'
    <3>1. SealOK(j) /\ j \in sealing BY <1>2 DEF RpcInv
    <3>2. j.awaited => reply'[j.client] = reply[j.client] BY <2>2, <2>3, <3>1 DEF SealOK
    <3>3. ~j.awaited => GaveUp(j.client)'
      <4>1. ASSUME reply[j.client].status = "rpc" PROVE ~k.awaited \/ j.client # k.client
        BY <1>1, <4>1 DEF CallOK
      <4>2. QED BY <1>1, <2>2, <3>1, <4>1 DEF SealOK, GaveUp
    <3>4. QED BY <1>1, <3>1, <3>2, <3>3 DEF SealOK
  <2>6. OneAwaited' BY <1>1, <1>2 DEF RpcInv, OneAwaited
  <2>7. \A d \in Clients : ReplyOK(d)' BY <1>1, <2>2 DEF RpcInv, ReplyOK, CallOK
  <2>8. QED BY <2>4, <2>5, <2>6, <2>7 DEF RpcInv
<1>3. ASSUME NEW new, new = [client |-> k.client, awaited |-> k.awaited,
                             guest |-> slots[k.req.lease].state],
             k.req.op = "snapshot", UNCHANGED reply, sealing' = sealing \cup {new}
      PROVE  RpcInv'
  <2>1. /\ new.client = k.client /\ new.awaited = k.awaited
        /\ new = [client |-> new.client, awaited |-> new.awaited, guest |-> new.guest]
    BY <1>3
  <2>2. k.awaited => Stage(k.client) = "snapshot" BY <1>1, <1>3 DEF CallOK, Asks
  <2>3. ASSUME NEW j \in calls' PROVE CallOK(j)' BY <1>1, <1>3 DEF RpcInv, CallOK, GaveUp
  <2>4. ASSUME NEW j \in sealing PROVE SealOK(j)' BY <1>1, <1>3 DEF RpcInv, SealOK, GaveUp
  <2>5. SealOK(new)' BY <1>1, <1>3, <2>1, <2>2 DEF CallOK, SealOK, GaveUp
  <2>6. OneAwaited'
    <3>1. ASSUME new.awaited
          PROVE  \A j \in calls' \cup sealing : j.awaited => j.client # new.client
      <4>1. \A j \in calls' \cup sealing : j # k BY <1>1 DEF RpcInv, OneAwaited, CallOK, SealOK
      <4>2. QED BY <1>1, <2>1, <3>1, <4>1, OthersWait
    <3>2. QED BY <1>1, <1>3, <3>1 DEF RpcInv, OneAwaited
  <2>7. \A d \in Clients : ReplyOK(d)' BY <1>1, <1>3 DEF RpcInv, ReplyOK
  <2>8. QED BY <1>3, <2>3, <2>4, <2>5, <2>6, <2>7 DEF RpcInv
<1>4. QED BY <1>2, <1>3, HandleShape

LEMMA RpcStores ==
  ASSUME RpcInv, Shapes', Still, NEW k \in sealing, StoreSnapshot(k)
  PROVE  RpcInv'
<1>1. /\ SealOK(k) /\ calls' = calls /\ sealing' = sealing \ {k}
      /\ \A c \in Clients : Stage(c)' = Stage(c) /\ Lease(c)' = Lease(c)
  BY DEF RpcInv, Still, StoreSnapshot
<1> DEFINE answer == [status |-> "ok", ref |-> SnapshotRef(k.guest)]
<1>2. \A d \in Clients : reply'[d] = IF k.awaited /\ d = k.client THEN answer ELSE reply[d]
  <2>1. Deliver(k, answer) BY DEF StoreSnapshot
  <2> HIDE DEF answer
  <2>2. QED BY <1>1, <2>1, Answers DEF SealOK
<1> HIDE DEF answer
<1>3. \A j \in calls' \cup sealing' : j \in calls \cup sealing /\ (j.awaited /\ k.awaited => j.client # k.client)
  <2>1. k \in sealing /\ (k.awaited => k \notin calls) BY DEF RpcInv, OneAwaited
  <2>2. QED BY <1>1, <2>1, OthersWait
<1>4. ASSUME reply[k.client].status = "rpc" PROVE ~k.awaited BY <1>1, <1>4 DEF SealOK
<1>5. ASSUME NEW j \in calls' PROVE CallOK(j)'
  <2>1. CallOK(j) /\ j \in calls BY <1>1 DEF RpcInv
  <2>2. j.awaited => reply'[j.client] = reply[j.client] BY <1>2, <1>3, <2>1 DEF CallOK
  <2>3. ~j.awaited => GaveUp(j.client)' BY <1>1, <1>2, <1>4, <2>1 DEF CallOK, GaveUp
  <2>4. QED BY <1>1, <2>1, <2>2, <2>3 DEF CallOK
<1>6. ASSUME NEW j \in sealing' PROVE SealOK(j)'
  <2>1. SealOK(j) /\ j \in sealing BY <1>1 DEF RpcInv
  <2>2. j.awaited => reply'[j.client] = reply[j.client] BY <1>2, <1>3, <2>1 DEF SealOK
  <2>3. ~j.awaited => GaveUp(j.client)' BY <1>1, <1>2, <1>4, <2>1 DEF SealOK, GaveUp
  <2>4. QED BY <1>1, <2>1, <2>2, <2>3 DEF SealOK
<1>7. OneAwaited' BY <1>1 DEF RpcInv, OneAwaited
<1>8. \A d \in Clients : ReplyOK(d)' BY <1>1, <1>2 DEF RpcInv, ReplyOK, SealOK, Fresh, Gone
<1>9. QED BY <1>5, <1>6, <1>7, <1>8 DEF RpcInv

\* k is j, given up if it is client c's.
LeftOver(k, j, c) == IF j.client = c THEN k = [j EXCEPT !.awaited = FALSE] ELSE k = j

LEMMA GivenUp ==
  ASSUME NEW pending, NEW c, NEW k \in GiveUp(pending, c)
  PROVE  \E j \in pending : LeftOver(k, j, c)
  BY DEF GiveUp, LeftOver

LEMMA LeftCall ==
  ASSUME NEW c, NEW k, NEW j, CallOK(j), LeftOver(k, j, c)
  PROVE  /\ k.client = j.client /\ k.req = j.req
         /\ k = [client |-> k.client, awaited |-> k.awaited, req |-> k.req]
         /\ k.awaited = (j.client # c /\ j.awaited)
         /\ j.client # c => k = j
<1>1. CASE j.client = c
  <2>1. k = [[client |-> j.client, awaited |-> j.awaited, req |-> j.req] EXCEPT !.awaited = FALSE]
    BY <1>1 DEF CallOK, LeftOver
  <2>2. k = [client |-> j.client, awaited |-> FALSE, req |-> j.req] BY <2>1
  <2>3. QED BY <1>1, <2>2
<1>2. CASE j.client # c BY <1>2 DEF CallOK, LeftOver
<1>3. QED BY <1>1, <1>2

LEMMA LeftSeal ==
  ASSUME NEW c, NEW k, NEW j, SealOK(j), LeftOver(k, j, c)
  PROVE  /\ k.client = j.client /\ k.guest = j.guest
         /\ k = [client |-> k.client, awaited |-> k.awaited, guest |-> k.guest]
         /\ k.awaited = (j.client # c /\ j.awaited)
         /\ j.client # c => k = j
<1>1. CASE j.client = c
  <2>1. k = [[client |-> j.client, awaited |-> j.awaited, guest |-> j.guest] EXCEPT !.awaited = FALSE]
    BY <1>1 DEF SealOK, LeftOver
  <2>2. k = [client |-> j.client, awaited |-> FALSE, guest |-> j.guest] BY <2>1
  <2>3. QED BY <1>1, <2>2
<1>2. CASE j.client # c BY <1>2 DEF SealOK, LeftOver
<1>3. QED BY <1>1, <1>2

LEMMA RpcGivesUp ==
  ASSUME RpcInv, Shapes', Still, NEW c \in Clients, RpcFails(c)
  PROVE  RpcInv'
<1>1. /\ \A d \in Clients : Stage(d)' = Stage(d) /\ Lease(d)' = Lease(d)
      /\ \A d \in Clients : reply'[d] = IF d = c THEN RpcError ELSE reply[d]
      /\ RpcError.status = "rpc"
      /\ calls' = GiveUp(calls, c) /\ sealing' = GiveUp(sealing, c)
  BY DEF RpcInv, Shapes, Still, RpcFails, RpcError
<1>2. Stage(c) \notin Fresh \cup Gone BY OthersWait DEF RpcFails, Waiting, RpcInv, ReplyOK
<1>3. \A k \in calls' : \E j \in calls : LeftOver(k, j, c) BY <1>1, GivenUp
<1>4. \A k \in sealing' : \E j \in sealing : LeftOver(k, j, c) BY <1>1, GivenUp
<1>5. ASSUME NEW k \in calls' PROVE CallOK(k)' /\ (k.awaited => k \in calls)
  <2>1. PICK j \in calls : LeftOver(k, j, c) BY <1>3
  <2>2. CallOK(j) BY DEF RpcInv
  <2>3. /\ k.client = j.client /\ k.req = j.req
        /\ k = [client |-> k.client, awaited |-> k.awaited, req |-> k.req]
        /\ k.awaited = (j.client # c /\ j.awaited)
        /\ j.client # c => k = j
    BY <2>1, <2>2, LeftCall
  <2>4. QED BY <1>1, <2>2, <2>3 DEF CallOK, GaveUp
<1>6. ASSUME NEW k \in sealing' PROVE SealOK(k)' /\ (k.awaited => k \in sealing)
  <2>1. PICK j \in sealing : LeftOver(k, j, c) BY <1>4
  <2>2. SealOK(j) BY DEF RpcInv
  <2>3. /\ k.client = j.client
        /\ k = [client |-> k.client, awaited |-> k.awaited, guest |-> k.guest]
        /\ k.awaited = (j.client # c /\ j.awaited)
        /\ j.client # c => k = j
    BY <2>1, <2>2, LeftSeal
  <2>4. QED BY <1>1, <2>2, <2>3 DEF SealOK, GaveUp
<1>7. OneAwaited' BY <1>5, <1>6 DEF RpcInv, OneAwaited
<1>8. \A d \in Clients : ReplyOK(d)' BY <1>1, <1>2 DEF RpcInv, ReplyOK
<1>9. QED BY <1>5, <1>6, <1>7, <1>8 DEF RpcInv

LEMMA StillWhen ==
  UNCHANGED driverVars /\ UNCHANGED gateVars => Still
  BY DEF Still, Stage, Lease, driverVars, gateVars

LEMMA RpcKept == RpcInv /\ [Next]_allVars => RpcInv'
<1> SUFFICES ASSUME RpcInv, [Next]_allVars PROVE RpcInv' OBVIOUS
<1>0. Shapes' BY ShapesKept DEF RpcInv
<1>1. ASSUME NEW c \in Clients, Client(c) PROVE RpcInv' BY <1>0, <1>1, RpcGoes, RpcStops DEF Client
<1>2. ASSUME NEW c \in Suites, SuiteSteps(c) PROVE RpcInv' BY <1>1, <1>2, SuiteClient, Kinds
<1>3. ASSUME NEW c \in Gates, GateSteps(c) PROVE RpcInv' BY <1>1, <1>3, GateClient, Kinds
<1>4. CASE WorkerSteps BY <1>0, <1>4, StillWhen, RpcServes, RpcStores, RpcGivesUp
     DEF WorkerSteps, WorkerNext, Serve, ServeGivenUp, Store
<1>5. CASE UNCHANGED allVars
  BY <1>0, <1>5 DEF allVars, workerVars, driverVars, gateVars, RpcInv, OneAwaited, CallOK,
     SealOK, ReplyOK, GaveUp, Stage, Lease
<1>6. QED BY <1>2, <1>3, <1>4, <1>5 DEF Next, Ended

LEMMA RpcStarts == BothInit => RpcInv
  BY Kinds DEF BothInit, Init, G!Init, WorkerInit, RpcInv, Shapes, OneAwaited, ReplyOK, NoReply

----
(* Slots keep their holders. *)

LEMMA OwnGoes ==
  ASSUME RpcInv, NEW own, OwnInv(own), NEW c \in Clients, NEW s, NEW l, NEW r, Goes(c, s, l, r)
  PROVE  OwnInv(own)'
<1> DEFINE new == [client |-> c, awaited |-> TRUE, req |-> r]
<1>1. /\ calls' = calls \cup {new} /\ UNCHANGED <<slots, nextSlot>>
      /\ \A d \in Clients : reply'[d] = IF d = c THEN NoReply ELSE reply[d]
      /\ NoReply.status = "none"
  BY DEF Goes, Issue, RpcInv, Shapes, NoReply
<1>2. new.client = c /\ new.req = r OBVIOUS
<1> HIDE DEF new
<1>3. /\ r.op = Asks(s) /\ (r.op # "restore" => r.lease = l)
      /\ \A d \in Clients : /\ Stage(d)' = IF d = c THEN s ELSE Stage(d)
                            /\ Lease(d)' = IF d = c THEN l ELSE Lease(d)
      /\ s \in {"restore"} \cup AtWork \cup Leaving
  BY DEF Goes, Moved
<1>4. (r.op = "restore") = (s = "restore") BY <1>3, AsksWhat DEF AtWork, Leaving
<1>5. CASE s = "restore"
  <2>1. l = Lease(c) /\ (Stage(c) = "start" \/ (Stage(c) \in Leaving /\ reply[c].status = "ok" /\ c \in Suites))
    BY <1>5 DEF Goes, AtWork, Leaving
  <2>2. \A i \in DOMAIN slots : own[i] # c BY <2>1 DEF OwnInv, Holding, Fresh
  <2>3. \A k \in calls : k.client # c BY <2>1, NothingAwaited DEF Gone, Leaving
  <2>4. Owned(own)' BY <1>1, <1>2, <1>4, <1>5, <2>2, <2>3 DEF OwnInv, Owned
  <2>5. ASSUME NEW d \in Clients PROVE Holding(own, d)' /\ Kept(own, d)'
    BY <1>1, <1>3, <1>5, <2>1 DEF OwnInv, Holding, Kept, Fresh, AtWork, Leaving
  <2>6. QED BY <2>4, <2>5 DEF OwnInv
<1>6. CASE s # "restore"
  <2>1. /\ l \in 1..nextSlot /\ own[l] = c /\ (s \in AtWork => l \in DOMAIN slots)
        /\ \A i \in DOMAIN slots : own[i] = c => i = l
    <3>1. CASE Stage(c) = "restore" /\ reply[c].status = "ok" /\ l = reply[c].lease
      BY <3>1 DEF OwnInv, Owned, Holding
    <3>2. CASE Stage(c) \in AtWork /\ l = Lease(c) BY <3>2 DEF OwnInv, Holding
    <3>3. QED BY <1>6, <3>1, <3>2 DEF Goes
  <2>2. Owned(own)' BY <1>1, <1>2, <1>3, <1>4, <1>6, <2>1 DEF OwnInv, Owned
  <2>3. ASSUME NEW d \in Clients PROVE Holding(own, d)' /\ Kept(own, d)'
    <3>1. CASE d = c BY <1>1, <1>3, <1>6, <2>1, <3>1 DEF Holding, Kept, Fresh, AtWork, Leaving
    <3>2. CASE d # c BY <1>1, <1>3, <3>2 DEF OwnInv, Holding, Kept
    <3>3. QED BY <3>1, <3>2
  <2>4. QED BY <2>2, <2>3 DEF OwnInv
<1>7. QED BY <1>5, <1>6

LEMMA OwnStops ==
  ASSUME RpcInv, NEW own, OwnInv(own), NEW c \in Clients, NEW s, Stops(c, s)
  PROVE  OwnInv(own)'
<1>1. /\ UNCHANGED <<slots, nextSlot, calls>> /\ s \in Gone
      /\ \A d \in Clients \ {c} : reply'[d] = reply[d]
  BY DEF Stops, RpcInv, Shapes
<1>2. \A d \in Clients : Stage(d)' = (IF d = c THEN s ELSE Stage(d)) /\ Lease(d)' = Lease(d)
  BY DEF Stops, Moved
<1>3. Owned(own)' BY <1>1 DEF OwnInv, Owned
<1>4. ASSUME NEW d \in Clients PROVE Holding(own, d)' /\ Kept(own, d)'
  BY <1>1, <1>2 DEF OwnInv, Holding, Kept, Gone, Fresh, AtWork, Leaving
<1>5. QED BY <1>3, <1>4 DEF OwnInv

LEMMA OwnGivesUp ==
  ASSUME RpcInv, NEW own, OwnInv(own), Still, NEW c \in Clients, RpcFails(c)
  PROVE  OwnInv(own)'
<1>1. /\ UNCHANGED <<slots, nextSlot>>
      /\ \A d \in Clients : reply'[d] = IF d = c THEN RpcError ELSE reply[d]
      /\ RpcError.status = "rpc" /\ calls' = GiveUp(calls, c)
      /\ \A d \in Clients : Stage(d)' = Stage(d) /\ Lease(d)' = Lease(d)
  BY DEF RpcInv, Shapes, RpcFails, RpcError, Still
<1>2. ASSUME NEW k \in calls'
      PROVE  \E j \in calls : /\ k.client = j.client /\ k.req = j.req /\ LeftOver(k, j, c)
  BY <1>1, GivenUp, LeftCall DEF RpcInv
<1>3. Owned(own)'
  <2>1. ASSUME NEW k \in calls', NEW l \in calls', k.req.op = "restore", l.req.op = "restore",
               k.client = l.client
        PROVE  k = l
    <3>1. PICK j \in calls : k.client = j.client /\ k.req = j.req /\ LeftOver(k, j, c) BY <1>2
    <3>2. PICK i \in calls : l.client = i.client /\ l.req = i.req /\ LeftOver(l, i, c) BY <1>2
    <3>3. i = j BY <2>1, <3>1, <3>2 DEF OwnInv, Owned
    <3>4. LeftOver(l, j, c) BY <3>2, <3>3
    <3>5. QED
      <4>1. CASE j.client = c BY <3>1, <3>4, <4>1, Zenon DEF LeftOver
      <4>2. CASE j.client # c BY <3>1, <3>4, <4>2, Zenon DEF LeftOver
      <4>3. QED BY <4>1, <4>2
  <2>2. ASSUME NEW k \in calls'
        PROVE  IF k.req.op = "restore" THEN \A i \in DOMAIN slots : own[i] # k.client
               ELSE k.req.lease \in 1..nextSlot /\ own[k.req.lease] = k.client
    <3>1. PICK j \in calls : k.client = j.client /\ k.req = j.req /\ LeftOver(k, j, c) BY <1>2
    <3>2. QED BY <3>1 DEF OwnInv, Owned
  <2>3. QED BY <1>1, <2>1, <2>2 DEF OwnInv, Owned
<1>4. ASSUME NEW d \in Clients PROVE Holding(own, d)' /\ Kept(own, d)'
  BY <1>1 DEF OwnInv, Holding, Kept, Fresh, AtWork, Leaving
<1>5. QED BY <1>3, <1>4 DEF OwnInv

LEMMA OwnStores ==
  ASSUME RpcInv, NEW own, OwnInv(own), Still, NEW k \in sealing, StoreSnapshot(k)
  PROVE  OwnInv(own)'
<1>1. /\ UNCHANGED <<slots, nextSlot, calls>> /\ SealOK(k)
      /\ \A d \in Clients : Stage(d)' = Stage(d) /\ Lease(d)' = Lease(d)
  BY DEF StoreSnapshot, Still, RpcInv
<1>2. \A d \in Clients : d # k.client \/ ~k.awaited => reply'[d] = reply[d]
  BY <1>1, Answers DEF StoreSnapshot, SealOK
<1>3. Owned(own)' BY <1>1 DEF OwnInv, Owned
<1>4. ASSUME NEW d \in Clients PROVE Holding(own, d)' /\ Kept(own, d)'
  BY <1>1, <1>2 DEF OwnInv, Holding, Kept, SealOK, Fresh, AtWork, Leaving
<1>5. QED BY <1>3, <1>4 DEF OwnInv

\* The handlers that neither make a slot nor drop one.
LEMMA HandleKeeps ==
  ASSUME NEW k, Handle(k), ~RestoreSnapshot(k), ~DestroyVm(k)
  PROVE  /\ DOMAIN slots' = DOMAIN slots /\ nextSlot' = nextSlot /\ k.req.op # "restore"
         /\ k.req.op = "destroy" => k.req.lease \notin DOMAIN slots
<1>1. CASE SlotGone(k) BY <1>1 DEF SlotGone
<1>2. CASE InjectInputs(k) BY <1>2 DEF InjectInputs, WithSlot
<1>3. CASE Run(k) BY <1>3 DEF Run, WithSlot
<1>4. CASE Read(k) BY <1>4 DEF Read, WithSlot
<1>5. CASE TakeSnapshot(k) BY <1>5 DEF TakeSnapshot, WithSlot
<1>6. QED BY <1>1, <1>2, <1>3, <1>4, <1>5 DEF Handle

LEMMA Answered1 ==
  ASSUME RpcInv, NEW k \in calls, Handle(k), NEW d \in Clients, d # k.client \/ ~k.awaited
  PROVE  reply'[d] = reply[d]
<1>1. k.client \in Clients /\ k.awaited \in BOOLEAN BY DEF RpcInv, CallOK
<1>2. CASE UNCHANGED reply BY <1>2
<1>3. ASSUME NEW answer, Deliver(k, answer) PROVE reply'[d] = reply[d] BY <1>1, <1>3, Answers
<1>4. QED BY <1>2, <1>3, HandleShape

LEMMA OwnServesOther ==
  ASSUME RpcInv, NEW own, OwnInv(own), Still, NEW k \in calls, Handle(k),
         ~RestoreSnapshot(k), ~DestroyVm(k)
  PROVE  OwnInv(own)'
<1>1. /\ DOMAIN slots' = DOMAIN slots /\ nextSlot' = nextSlot /\ calls' = calls \ {k}
      /\ CallOK(k) /\ k.req.op # "restore"
      /\ k.req.op = "destroy" => k.req.lease \notin DOMAIN slots
      /\ \A d \in Clients : Stage(d)' = Stage(d) /\ Lease(d)' = Lease(d)
  BY HandleKeeps, HandleShape DEF RpcInv, Still
<1>2. \A d \in Clients : d # k.client \/ ~k.awaited => reply'[d] = reply[d] BY Answered1
<1>3. Owned(own)' BY <1>1 DEF OwnInv, Owned
<1>4. ASSUME NEW d \in Clients PROVE Holding(own, d)' /\ Kept(own, d)'
  <2>1. CASE d # k.client \/ ~k.awaited BY <1>1, <1>2, <2>1 DEF OwnInv, Holding, Kept
  <2>2. CASE d = k.client /\ k.awaited
    <3>1. Stage(d) # "restore" /\ (Stage(d) \in Leaving => Lease(d) \notin DOMAIN slots)
      BY <1>1, <2>2, AsksWhat DEF CallOK
    <3>2. QED BY <1>1, <2>2, <3>1 DEF OwnInv, Holding, Kept
  <2>3. QED BY <2>1, <2>2, <1>1 DEF CallOK
<1>5. QED BY <1>3, <1>4 DEF OwnInv

LEMMA OwnServesDestroy ==
  ASSUME RpcInv, NEW own, OwnInv(own), Still, NEW k \in calls, Handle(k), DestroyVm(k)
  PROVE  OwnInv(own)'
<1>1. /\ DOMAIN slots' = DOMAIN slots \ {k.req.lease} /\ nextSlot' = nextSlot
      /\ calls' = calls \ {k} /\ CallOK(k) /\ k.req.op = "destroy"
      /\ \A d \in Clients : Stage(d)' = Stage(d) /\ Lease(d)' = Lease(d)
  BY HandleShape DEF RpcInv, Still, DestroyVm, Restrict, WithSlot
<1>2. \A d \in Clients : d # k.client \/ ~k.awaited => reply'[d] = reply[d] BY Answered1
<1>3. k.req.lease \in 1..nextSlot /\ own[k.req.lease] = k.client
      /\ k.req.lease = Lease(k.client) /\ Stage(k.client) \in Leaving \cup Gone
  BY <1>1 DEF OwnInv, Owned, CallOK
<1>4. Owned(own)' BY <1>1 DEF OwnInv, Owned
<1>5. ASSUME NEW d \in Clients PROVE Holding(own, d)' /\ Kept(own, d)'
  <2>1. CASE d # k.client BY <1>1, <1>2, <1>3, <2>1 DEF OwnInv, Holding, Kept
  <2>2. CASE d = k.client
    BY <1>1, <1>3, <2>2 DEF OwnInv, Holding, Kept, Leaving, Gone, Fresh, AtWork
  <2>3. QED BY <2>1, <2>2
<1>6. QED BY <1>4, <1>5 DEF OwnInv

LEMMA MapOver ==
  ASSUME NEW key, NEW value, NEW old
  PROVE  /\ DOMAIN Over(Entry(key, value), old) = DOMAIN old \cup {key}
         /\ Over(Entry(key, value), old)[key] = value
         /\ \A k \in DOMAIN old : k # key => Over(Entry(key, value), old)[k] = old[k]
  BY DEF Over, Entry

\* A slot is made for the client that asked for it.
LEMMA OwnServesRestore ==
  ASSUME RpcInv, NEW own, OwnInv(own), Still, NEW k \in calls, Handle(k), RestoreSnapshot(k)
  PROVE  \E new : /\ OwnInv(new)'
                  /\ \A i \in DOMAIN slots' : \/ i \in DOMAIN slots /\ new[i] = own[i]
                                              \/ new[i] = k.client
<1>1. /\ calls' = calls \ {k} /\ CallOK(k) /\ k.req.op = "restore"
      /\ \A d \in Clients : Stage(d)' = Stage(d) /\ Lease(d)' = Lease(d)
  BY HandleShape DEF RpcInv, Still, RestoreSnapshot
<1>2. \A d \in Clients : d # k.client \/ ~k.awaited => reply'[d] = reply[d] BY Answered1
<1>3. k.client \in Clients /\ k.awaited \in BOOLEAN BY <1>1 DEF CallOK
<1>4. CASE UNCHANGED <<slots, nextSlot>> /\ Deliver(k, Refused("not_found"))
  <2>1. reply'[k.client].status # "ok" \/ ~k.awaited BY <1>3, <1>4, Answers DEF Refused
  <2>2. Owned(own)' BY <1>1, <1>4 DEF OwnInv, Owned
  <2>3. ASSUME NEW d \in Clients PROVE Holding(own, d)' /\ Kept(own, d)'
    BY <1>1, <1>2, <1>3, <1>4, <2>1 DEF OwnInv, Holding, Kept, CallOK, Fresh, Gone, Leaving, AtWork
  <2>4. OwnInv(own)' BY <2>2, <2>3 DEF OwnInv
  <2>5. QED BY <1>4, <2>4
<1>i. PICK id : id = nextSlot + 1 OBVIOUS
<1>5. ASSUME NEW guest, nextSlot' = id,
             slots' = Over(Entry(id, [state |-> guest, scheduled |-> << >>]), slots),
             Deliver(k, [status |-> "ok", lease |-> id, guest |-> guest])
      PROVE  \E new : /\ OwnInv(new)'
                      /\ \A i \in DOMAIN slots' : \/ i \in DOMAIN slots /\ new[i] = own[i]
                                                  \/ new[i] = k.client
  <2>0. PICK new : new = [i \in 1..id |-> IF i = id THEN k.client ELSE own[i]] OBVIOUS
  <2>1. /\ nextSlot \in Nat /\ own \in [1..nextSlot -> Clients] /\ DOMAIN slots \subseteq 1..nextSlot
        /\ \A i, j \in DOMAIN slots : own[i] = own[j] => i = j
        /\ \A i \in DOMAIN slots : own[i] # k.client
        /\ \A l \in calls : l.req.op = "restore" /\ l.client = k.client => l = k
    BY <1>1 DEF OwnInv, Owned
  <2>2. DOMAIN slots' = DOMAIN slots \cup {id} BY <1>5, MapOver
  <2>3. /\ new \in [1..id -> Clients] /\ new[id] = k.client /\ id \notin 1..nextSlot
        /\ \A i \in 1..nextSlot : new[i] = own[i] /\ i \in 1..id
        /\ id \in Nat /\ id # 0
    BY <1>3, <1>i, <2>0, <2>1
  <2>4. k.awaited => reply'[k.client].status = "ok" /\ reply'[k.client].lease = id
    <3> DEFINE answer == [status |-> "ok", lease |-> id, guest |-> guest]
    <3>1. answer.status = "ok" /\ answer.lease = id /\ Deliver(k, answer) BY <1>5
    <3> HIDE DEF answer
    <3>2. QED BY <1>3, <3>1, Answers
  <2>5. Owned(new)'
    <3>1. \A i, j \in DOMAIN slots' : new[i] = new[j] => i = j BY <2>1, <2>2, <2>3
    <3>2. \A j \in calls' :
            IF j.req.op = "restore"
            THEN /\ \A i \in DOMAIN slots' : new[i] # j.client
                 /\ \A l \in calls' : l.req.op = "restore" /\ l.client = j.client => l = j
            ELSE j.req.lease \in 1..id /\ new[j.req.lease] = j.client
      BY <1>1, <2>1, <2>2, <2>3 DEF OwnInv, Owned
    <3>3. DOMAIN slots' \subseteq 1..id BY <2>1, <2>2, <2>3
    <3>4. QED BY <1>5, <2>3, <3>1, <3>2, <3>3 DEF Owned
  <2>6. ASSUME NEW d \in Clients PROVE Holding(new, d)' /\ Kept(new, d)'
    <3>1. Kept(new, d)' BY <1>1, <1>5, <2>3 DEF OwnInv, Kept
    <3>2. CASE d # k.client
      <4>1. \A i \in DOMAIN slots' : new[i] = d => i \in DOMAIN slots /\ own[i] = d
        BY <2>1, <2>2, <2>3, <3>2
      <4>2. reply'[d] = reply[d] BY <1>2, <3>2
      <4>3. Holding(own, d) BY DEF OwnInv
      <4>4. Stage(d) \in Fresh => \A i \in DOMAIN slots' : new[i] # d BY <4>1, <4>3 DEF Holding
      <4>5. Stage(d) = "restore" /\ reply[d].status = "ok" =>
              reply[d].lease \in DOMAIN slots' /\ new[reply[d].lease] = d
        <5>1. SUFFICES ASSUME Stage(d) = "restore" /\ reply[d].status = "ok"
                       PROVE  reply[d].lease \in DOMAIN slots' /\ new[reply[d].lease] = d OBVIOUS
        <5>2. reply[d].lease \in DOMAIN slots /\ own[reply[d].lease] = d BY <4>3, <5>1 DEF Holding
        <5>3. QED BY <2>1, <2>2, <2>3, <5>2
      <4>6. Stage(d) \in AtWork \cup Leaving =>
              /\ Lease(d) \in 1..nextSlot' /\ new[Lease(d)] = d
              /\ \A i \in DOMAIN slots' : new[i] = d => i = Lease(d)
        <5>1. SUFFICES ASSUME Stage(d) \in AtWork \cup Leaving
                       PROVE  /\ Lease(d) \in 1..nextSlot' /\ new[Lease(d)] = d
                              /\ \A i \in DOMAIN slots' : new[i] = d => i = Lease(d)
          OBVIOUS
        <5>2. /\ Lease(d) \in 1..nextSlot /\ own[Lease(d)] = d
              /\ \A i \in DOMAIN slots : own[i] = d => i = Lease(d)
          BY <4>3, <5>1 DEF Holding
        <5>3. QED BY <1>5, <2>3, <4>1, <5>2
      <4>7. Stage(d) \in AtWork => Lease(d) \in DOMAIN slots' BY <2>2, <4>3 DEF Holding
      <4>8. Stage(d) \in Leaving /\ reply[d].status \notin {"none", "rpc"} =>
              Lease(d) \notin DOMAIN slots'
        <5>1. SUFFICES ASSUME Stage(d) \in Leaving, reply[d].status \notin {"none", "rpc"}
                       PROVE  Lease(d) \notin DOMAIN slots' OBVIOUS
        <5>2. Lease(d) \notin DOMAIN slots /\ Lease(d) \in 1..nextSlot BY <4>3, <5>1 DEF Holding
        <5>3. QED BY <2>2, <2>3, <5>2
      <4>9. Stage(d)' = Stage(d) /\ Lease(d)' = Lease(d) BY <1>1
      <4>10. QED BY <3>1, <4>2, <4>4, <4>5, <4>6, <4>7, <4>8, <4>9 DEF Holding
    <3>3. CASE d = k.client
      <4>1. Stage(d)' = Stage(d) /\ Stage(d) \notin Fresh \cup AtWork \cup Leaving
        BY <1>1, <3>3 DEF CallOK, Fresh, Gone, AtWork, Leaving
      <4>2. Stage(d) = "restore" /\ reply'[d].status = "ok" =>
              reply'[d].lease \in DOMAIN slots' /\ new[reply'[d].lease] = d
        <5>1. CASE k.awaited BY <2>2, <2>3, <2>4, <3>3, <5>1
        <5>2. CASE ~k.awaited
          <6>1. Stage(d) = "restore" => reply'[d].status = "rpc"
            BY <1>1, <1>2, <3>3, <5>2 DEF CallOK, GaveUp, Gone, Leaving
          <6>2. QED BY <6>1
        <5>3. QED BY <1>3, <5>1, <5>2
      <4>3. QED BY <3>1, <4>1, <4>2 DEF Holding
    <3>4. QED BY <3>1, <3>2, <3>3
  <2>7. OwnInv(new)' BY <2>5, <2>6 DEF OwnInv
  <2>8. \A i \in DOMAIN slots' : \/ i \in DOMAIN slots /\ new[i] = own[i]
                                 \/ new[i] = k.client
    BY <2>1, <2>2, <2>3
  <2>9. QED BY <2>7, <2>8
<1>6. QED
  <2>1. \/ UNCHANGED <<slots, nextSlot>> /\ Deliver(k, Refused("not_found"))
        \/ \E guest :
             /\ nextSlot' = nextSlot + 1
             /\ slots' = Over(Entry(nextSlot + 1, [state |-> guest, scheduled |-> << >>]), slots)
             /\ Deliver(k, [status |-> "ok", lease |-> nextSlot + 1, guest |-> guest])
    BY Zenon DEF RestoreSnapshot, NextSlotId
  <2>2. QED BY <1>4, <1>5, <1>i, <2>1

\* Slots stay with their holders, or are made for a client whose restore was under way.
Inherits(own, new) ==
  /\ OwnInv(new)'
  /\ \A i \in DOMAIN slots' :
       \/ i \in DOMAIN slots /\ new[i] = own[i]
       \/ \E k \in calls : k.req.op = "restore" /\ k.client = new[i]

LEMMA OwnKept ==
  ASSUME RpcInv, NEW own, OwnInv(own), [Next]_allVars
  PROVE  \E new : Inherits(own, new)
<1>1. ASSUME OwnInv(own)', DOMAIN slots' \subseteq DOMAIN slots PROVE \E new : Inherits(own, new)
  BY <1>1 DEF Inherits
<1>2. ASSUME NEW c \in Clients, Client(c) PROVE \E new : Inherits(own, new)
  <2>1. OwnInv(own)' BY <1>2, OwnGoes, OwnStops DEF Client
  <2>2. UNCHANGED slots BY <1>2 DEF Client, Goes, Stops, Issue
  <2>3. QED BY <1>1, <2>1, <2>2
<1>3. ASSUME NEW c \in Suites, SuiteSteps(c) PROVE \E new : Inherits(own, new)
  BY <1>2, <1>3, SuiteClient, Kinds
<1>4. ASSUME NEW c \in Gates, GateSteps(c) PROVE \E new : Inherits(own, new)
  BY <1>2, <1>4, GateClient, Kinds
<1>5. ASSUME Still, NEW k \in calls, Handle(k) PROVE \E new : Inherits(own, new)
  <2>1. CASE RestoreSnapshot(k)
    <3>1. PICK new : /\ OwnInv(new)'
                     /\ \A i \in DOMAIN slots' : \/ i \in DOMAIN slots /\ new[i] = own[i]
                                                 \/ new[i] = k.client
      BY <1>5, <2>1, OwnServesRestore
    <3>2. k.req.op = "restore" BY <2>1 DEF RestoreSnapshot
    <3>3. Inherits(own, new) BY <1>5, <3>1, <3>2 DEF Inherits
    <3>4. QED BY <3>3
  <2>2. CASE DestroyVm(k)
    <3>1. OwnInv(own)' BY <1>5, <2>2, OwnServesDestroy
    <3>2. DOMAIN slots' \subseteq DOMAIN slots BY <2>2 DEF DestroyVm, Restrict
    <3>3. QED BY <1>1, <3>1, <3>2
  <2>3. CASE ~RestoreSnapshot(k) /\ ~DestroyVm(k)
    <3>1. OwnInv(own)' BY <1>5, <2>3, OwnServesOther
    <3>2. DOMAIN slots' \subseteq DOMAIN slots BY <1>5, <2>3, HandleKeeps
    <3>3. QED BY <1>1, <3>1, <3>2
  <2>4. QED BY <2>1, <2>2, <2>3
<1>6. CASE WorkerSteps
  <2>1. Still BY <1>6, StillWhen DEF WorkerSteps
  <2>2. ASSUME NEW k \in sealing, StoreSnapshot(k) PROVE \E new : Inherits(own, new)
    <3>1. OwnInv(own)' BY <2>1, <2>2, OwnStores
    <3>2. QED BY <1>1, <2>2, <3>1 DEF StoreSnapshot
  <2>3. ASSUME NEW c \in Clients, RpcFails(c) PROVE \E new : Inherits(own, new)
    <3>1. OwnInv(own)' BY <2>1, <2>3, OwnGivesUp
    <3>2. QED BY <1>1, <2>3, <3>1 DEF RpcFails
  <2>4. QED BY <1>5, <1>6, <2>1, <2>2, <2>3 DEF WorkerSteps, WorkerNext, Serve, ServeGivenUp, Store
<1>7. CASE UNCHANGED allVars
  <2>1. OwnInv(own)'
    BY <1>7 DEF allVars, workerVars, driverVars, gateVars, OwnInv, Owned, Holding, Kept, Stage, Lease
  <2>2. QED BY <1>1, <1>7, <2>1 DEF allVars, workerVars
<1>8. QED BY <1>3, <1>4, <1>6, <1>7 DEF Next, Ended

LEMMA OwnStarts == BothInit => \E own : OwnInv(own)
<1> SUFFICES ASSUME BothInit PROVE OwnInv(<< >>) OBVIOUS
<1>1. /\ slots = << >> /\ nextSlot = 0 /\ calls = {}
      /\ \A c \in Clients : Stage(c) \in Fresh /\ Lease(c) = 0
  BY Kinds DEF BothInit, Init, G!Init, WorkerInit, Stage, Lease, Fresh
<1>2. DOMAIN slots = {} /\ 1..nextSlot = {} /\ << >> \in [1..nextSlot -> Clients] BY <1>1
<1>3. Owned(<< >>) BY <1>1, <1>2 DEF Owned
<1>4. \A c \in Clients : Holding(<< >>, c) /\ Kept(<< >>, c)
  BY <1>1, <1>2 DEF Holding, Kept, Fresh, AtWork, Leaving
<1>5. QED BY <1>3, <1>4 DEF OwnInv

----
(* The guests' frame counters. *)

LEMMA FrameCounts ==
  ASSUME NEW guest, guest.counter \in Nat, NEW scheduled
  PROVE  GuestOK(FrameMark(guest, scheduled))
  BY DEF FrameMark, GuestOK

\* f is the run of n frames from a guest.
IsRun(f, guest, scheduled, n) ==
  f = [i \in 0..n |-> IF i = 0 THEN guest ELSE FrameMark(f[i-1], scheduled)]

LEMMA RunExists ==
  ASSUME NEW guest, NEW scheduled
  PROVE  \A n \in Nat : \E f : IsRun(f, guest, scheduled, n)
<1> DEFINE T == {n \in Nat : \E f : IsRun(f, guest, scheduled, n)}
<1>1. 0 \in T
  <2>1. IsRun([i \in 0..0 |-> guest], guest, scheduled, 0) BY DEF IsRun
  <2>2. QED BY <2>1
<1>2. ASSUME NEW n \in Nat, n \in T PROVE n + 1 \in T
  <2>1. PICK f : IsRun(f, guest, scheduled, n) BY <1>2
  <2> DEFINE g == [i \in 0..(n+1) |-> IF i = n + 1 THEN FrameMark(f[n], scheduled) ELSE f[i]]
  <2>2. IsRun(g, guest, scheduled, n + 1) BY <2>1 DEF IsRun
  <2>3. QED BY <2>2
<1> HIDE DEF T
<1>3. \A n \in Nat : n \in T BY <1>1, <1>2, Up
<1>4. QED BY <1>3 DEF T

LEMMA RunCounts ==
  ASSUME NEW guest, GuestOK(guest), NEW scheduled, NEW budget \in Nat
  PROVE  GuestOK(RunFrames(guest, scheduled, budget))
<1> DEFINE f == CHOOSE f : IsRun(f, guest, scheduled, budget)
<1>1. IsRun(f, guest, scheduled, budget) BY RunExists
<1>2. RunFrames(guest, scheduled, budget) = f[budget] BY DEF RunFrames, IsRun
<1> HIDE DEF f
<1> DEFINE T == {n \in Nat : n <= budget => GuestOK(f[n])}
<1>3. 0 \in T BY <1>1 DEF IsRun
<1>4. ASSUME NEW n \in Nat, n \in T PROVE n + 1 \in T
  <2>1. CASE n + 1 <= budget
    <3>1. n + 1 \in 0..budget /\ n + 1 # 0 /\ (n + 1) - 1 = n BY <2>1
    <3>2. f[n + 1] = FrameMark(f[n], scheduled) BY <1>1, <3>1 DEF IsRun
    <3>3. GuestOK(f[n]) BY <1>4, <2>1
    <3>4. GuestOK(f[n + 1]) BY <3>2, <3>3, FrameCounts DEF GuestOK
    <3>5. QED BY <3>4
  <2>2. QED BY <2>1
<1> HIDE DEF T
<1>5. \A n \in Nat : n \in T BY <1>3, <1>4, Up
<1>6. QED BY <1>2, <1>5 DEF T

LEMMA SlotFields ==
  ASSUME NEW r, r = [state |-> r.state, scheduled |-> r.scheduled], NEW x
  PROVE  /\ [r EXCEPT !.scheduled = x] = [state |-> r.state, scheduled |-> x]
         /\ [r EXCEPT !.state = x] = [state |-> x, scheduled |-> r.scheduled]
  OBVIOUS

\* One slot is replaced by s.
Replaced(l, s) ==
  /\ slots' = [i \in DOMAIN slots |-> IF i = l THEN s ELSE slots[i]]
  /\ s = [state |-> s.state, scheduled |-> s.scheduled]

LEMMA SlotReplaced ==
  ASSUME SlotsOK, NEW l \in DOMAIN slots, NEW s, Replaced(l, s), GuestOK(s.state)
  PROVE  /\ SlotsOK'
         /\ \A i \in DOMAIN slots' : i \in DOMAIN slots /\ (i = l \/ slots'[i] = slots[i])
         /\ slots'[l].state = s.state
  BY DEF SlotsOK, Replaced

LEMMA SlotScheduled ==
  ASSUME SlotsOK, NEW l \in DOMAIN slots, NEW x, slots' = [slots EXCEPT ![l].scheduled = x]
  PROVE  \E s : Replaced(l, s) /\ s.state = slots[l].state
<1>1. /\ slots = [i \in DOMAIN slots |-> slots[i]]
      /\ slots[l] = [state |-> slots[l].state, scheduled |-> slots[l].scheduled]
  BY DEF SlotsOK
<1>2. PICK s : s = [slots[l] EXCEPT !.scheduled = x] OBVIOUS
<1>3. s = [state |-> slots[l].state, scheduled |-> x] BY <1>1, <1>2, SlotFields
<1>4. slots' = [slots EXCEPT ![l] = s] BY <1>1, <1>2
<1>5. Replaced(l, s) /\ s.state = slots[l].state BY <1>1, <1>3, <1>4 DEF Replaced
<1>6. QED BY <1>5

LEMMA SlotStated ==
  ASSUME SlotsOK, NEW l \in DOMAIN slots, NEW x, slots' = [slots EXCEPT ![l].state = x]
  PROVE  \E s : Replaced(l, s) /\ s.state = x
<1>1. /\ slots = [i \in DOMAIN slots |-> slots[i]]
      /\ slots[l] = [state |-> slots[l].state, scheduled |-> slots[l].scheduled]
  BY DEF SlotsOK
<1>2. PICK s : s = [slots[l] EXCEPT !.state = x] OBVIOUS
<1>3. s = [state |-> x, scheduled |-> slots[l].scheduled] BY <1>1, <1>2, SlotFields
<1>4. slots' = [slots EXCEPT ![l] = s] BY <1>1, <1>2
<1>5. Replaced(l, s) /\ s.state = x BY <1>1, <1>3, <1>4 DEF Replaced
<1>6. QED BY <1>5

\* What the worker stores at a served call.
LEMMA StoreServes ==
  ASSUME StoreOK, NEW own, OwnInv(own), NEW k \in calls, Handle(k)
  PROVE  /\ StoreOK'
         /\ \A i \in DOMAIN slots \cap DOMAIN slots' :
              \/ slots'[i].state.counter = slots[i].state.counter
              \/ k.req.op = "run" /\ k.req.lease = i
<1> DEFINE Kept1 == \A i \in DOMAIN slots \cap DOMAIN slots' :
                      \/ slots'[i].state.counter = slots[i].state.counter
                      \/ k.req.op = "run" /\ k.req.lease = i
<1>0. SlotsOK BY DEF StoreOK
<1>1. /\ \A j \in calls' : j.req.op = "run" => j.req.budget \in Nat BY DEF StoreOK, Handle
<1>2. ASSUME SlotsOK', Kept1, UNCHANGED <<snapshots, sealing>> PROVE StoreOK' /\ Kept1
  BY <1>1, <1>2 DEF StoreOK
<1>3. CASE UNCHANGED slots
  <2>1. SlotsOK' /\ Kept1 BY <1>0, <1>3 DEF SlotsOK
  <2>2. CASE UNCHANGED <<snapshots, sealing>> BY <1>2, <2>1, <2>2
  <2>3. CASE TakeSnapshot(k)
    <3>1. UNCHANGED snapshots /\ k.req.lease \in DOMAIN slots BY <2>3 DEF TakeSnapshot, WithSlot
    <3>2. \A j \in sealing' : j \in sealing \/ j.guest = slots[k.req.lease].state
      BY <2>3 DEF TakeSnapshot
    <3>3. \A j \in sealing' : GuestOK(j.guest) BY <1>0, <3>1, <3>2 DEF StoreOK, SlotsOK
    <3>4. QED BY <1>1, <2>1, <3>1, <3>3 DEF StoreOK
  <2>4. QED BY <2>2, <2>3 DEF Handle, RestoreSnapshot, SlotGone, InjectInputs, Run, Read, DestroyVm
<1>4. ASSUME NEW id, NEW guest, GuestOK(guest), UNCHANGED <<snapshots, sealing>>,
             slots' = Over(Entry(id, [state |-> guest, scheduled |-> << >>]), slots),
             id \notin DOMAIN slots
      PROVE  StoreOK' /\ Kept1
  <2> DEFINE slot == [state |-> guest, scheduled |-> << >>]
  <2>1. slot = [state |-> slot.state, scheduled |-> slot.scheduled] /\ slot.state = guest OBVIOUS
  <2> HIDE DEF slot
  <2>2. slots' = [i \in DOMAIN slots \cup {id} |-> IF i = id THEN slot ELSE slots[i]]
    BY <1>4 DEF Over, Entry, slot
  <2>3. SlotsOK' /\ Kept1 BY <1>0, <1>4, <2>1, <2>2 DEF SlotsOK
  <2>4. QED BY <1>2, <1>4, <2>3
<1>5. CASE RestoreSnapshot(k) /\ ~UNCHANGED slots
  <2> DEFINE saved == snapshots[k.req.ref]
             guest == CASE k.req.ref = READY -> ReadyGuest
                        [] k.req.ref # READY /\ corrupt -> [saved EXCEPT !.nonzero = @ + 1]
                        [] OTHER -> saved
  <2>1. /\ slots' = Over(Entry(nextSlot + 1, [state |-> guest, scheduled |-> << >>]), slots)
        /\ UNCHANGED <<snapshots, sealing>>
        /\ k.req.ref = READY \/ k.req.ref \in DOMAIN snapshots
    BY <1>5 DEF RestoreSnapshot, NextSlotId
  <2>2. GuestOK(guest)
    <3>1. GuestOK(ReadyGuest) BY FixtureAssumption DEF ReadyGuest, GuestOK
    <3>2. ASSUME k.req.ref # READY
          PROVE  GuestOK(saved) /\ GuestOK([saved EXCEPT !.nonzero = @ + 1])
      <4>1. GuestOK(saved) BY <2>1, <3>2 DEF StoreOK
      <4> HIDE DEF saved
      <4>2. QED BY <4>1 DEF GuestOK
    <3> HIDE DEF saved
    <3>3. QED BY <3>1, <3>2
  <2> HIDE DEF guest
  <2>3. nextSlot + 1 \notin DOMAIN slots BY DEF Owned, OwnInv
  <2>4. QED BY <1>4, <2>1, <2>2, <2>3
<1>6. CASE InjectInputs(k) /\ ~UNCHANGED slots
  <2>1. PICK l, sch : /\ slots' = [slots EXCEPT ![l].scheduled = sch]
                      /\ l \in DOMAIN slots /\ UNCHANGED <<snapshots, sealing>>
    BY <1>6, Zenon DEF InjectInputs, WithSlot
  <2>2. PICK s : Replaced(l, s) /\ s.state = slots[l].state BY <1>0, <2>1, SlotScheduled
  <2>3. GuestOK(s.state) BY <1>0, <2>1, <2>2 DEF SlotsOK
  <2>4. /\ SlotsOK' /\ slots'[l].state = slots[l].state
        /\ \A i \in DOMAIN slots' : i \in DOMAIN slots /\ (i = l \/ slots'[i] = slots[i])
    BY <1>0, <2>1, <2>2, <2>3, SlotReplaced
  <2>5. Kept1 BY <2>4
  <2>6. QED BY <1>2, <2>1, <2>4, <2>5
<1>7. CASE Run(k)
  <2> DEFINE l == k.req.lease
             guest == RunFrames(slots[l].state, slots[l].scheduled, k.req.budget)
  <2>1. /\ slots' = [slots EXCEPT ![l].state = guest]
        /\ l \in DOMAIN slots /\ k.req.op = "run" /\ UNCHANGED <<snapshots, sealing>>
    BY <1>7 DEF Run, WithSlot
  <2>2. GuestOK(guest) BY <1>0, <2>1, RunCounts DEF StoreOK, SlotsOK
  <2> HIDE DEF guest
  <2>3. PICK s : Replaced(l, s) /\ s.state = guest BY <1>0, <2>1, SlotStated
  <2>4. /\ SlotsOK'
        /\ \A i \in DOMAIN slots' : i \in DOMAIN slots /\ (i = l \/ slots'[i] = slots[i])
    BY <1>0, <2>1, <2>2, <2>3, SlotReplaced
  <2>5. Kept1 BY <2>1, <2>4
  <2>6. QED BY <1>2, <2>1, <2>4, <2>5
<1>8. CASE DestroyVm(k)
  <2>1. SlotsOK' /\ Kept1 BY <1>0, <1>8 DEF DestroyVm, Restrict, SlotsOK
  <2>2. QED BY <1>2, <1>8, <2>1 DEF DestroyVm
<1>9. QED BY <1>3, <1>5, <1>6, <1>7, <1>8 DEF Handle, SlotGone, Read, TakeSnapshot

LEMMA StoreStores ==
  ASSUME StoreOK, NEW k \in sealing, StoreSnapshot(k)
  PROVE  StoreOK'
<1>1. /\ snapshots' = Over(Entry(SnapshotRef(k.guest), k.guest), snapshots)
      /\ sealing' \subseteq sealing /\ UNCHANGED <<slots, calls>> /\ GuestOK(k.guest)
  BY DEF StoreSnapshot, StoreOK
<1>2. PICK key : key = SnapshotRef(k.guest) OBVIOUS
<1>3. /\ DOMAIN snapshots' = DOMAIN snapshots \cup {key} /\ snapshots'[key] = k.guest
      /\ \A ref \in DOMAIN snapshots : ref # key => snapshots'[ref] = snapshots[ref]
  <2>1. snapshots' = Over(Entry(key, k.guest), snapshots) BY <1>1, <1>2
  <2> HIDE <1>1, <1>2
  <2>2. QED BY <2>1 DEF Over, Entry
<1>4. \A ref \in DOMAIN snapshots' : GuestOK(snapshots'[ref]) BY <1>1, <1>3 DEF StoreOK
<1>5. QED BY <1>1, <1>4 DEF StoreOK, SlotsOK

LEMMA StoreGivesUp ==
  ASSUME RpcInv, StoreOK, NEW c \in Clients, RpcFails(c)
  PROVE  StoreOK'
<1>1. /\ UNCHANGED <<slots, snapshots>>
      /\ calls' = GiveUp(calls, c) /\ sealing' = GiveUp(sealing, c)
  BY DEF RpcFails
<1>2. ASSUME NEW k \in calls' PROVE k.req.op = "run" => k.req.budget \in Nat
  <2>1. PICK j \in calls : k.req = j.req BY <1>1, GivenUp, LeftCall DEF RpcInv
  <2>2. QED BY <2>1 DEF StoreOK
<1>3. ASSUME NEW k \in sealing' PROVE GuestOK(k.guest)
  <2>1. PICK j \in sealing : k.guest = j.guest BY <1>1, GivenUp, LeftSeal DEF RpcInv
  <2>2. QED BY <2>1 DEF StoreOK
<1>4. QED BY <1>1, <1>2, <1>3 DEF StoreOK, SlotsOK

\* A process asks for a number of frames.
AsksRuns(c) ==
  /\ UNCHANGED <<slots, snapshots, sealing>>
  /\ \/ UNCHANGED calls
     \/ \E r : Issue(c, r) /\ (r.op = "run" => r.budget \in Nat)

LEMMA StoreClient ==
  ASSUME StoreOK, NEW c, AsksRuns(c)
  PROVE  StoreOK'
<1>1. \A k \in calls' : k.req.op = "run" => k.req.budget \in Nat
  <2>1. CASE UNCHANGED calls BY <2>1 DEF StoreOK
  <2>2. ASSUME NEW r, Issue(c, r), r.op = "run" => r.budget \in Nat
        PROVE  \A k \in calls' : k.req.op = "run" => k.req.budget \in Nat
    <3> DEFINE new == [client |-> c, awaited |-> TRUE, req |-> r]
    <3>1. calls' = calls \cup {new} /\ new.req = r BY <2>2 DEF Issue
    <3> HIDE DEF new
    <3>2. QED BY <2>2, <3>1 DEF StoreOK
  <2>3. QED BY <2>1, <2>2 DEF AsksRuns
<1>2. QED BY <1>1 DEF StoreOK, SlotsOK, AsksRuns

LEMMA RunRequests ==
  /\ \A l, n : RunRequest(l, n).op = "run" /\ RunRequest(l, n).budget = n
  /\ \A l, e : InjectRequest(l, e).op # "run"
  /\ \A l : SlotRequest("snapshot", l).op # "run" /\ SlotRequest("destroy", l).op # "run"
  /\ \A ref : RestoreRequest(ref).op # "run"
  BY DEF RunRequest, InjectRequest, SlotRequest, RestoreRequest

LEMMA SuiteAsksRuns ==
  ASSUME NEW c \in Suites, SuiteSteps(c)
  PROVE  AsksRuns(c)
<1>1. ASSUME NEW r, Issue(c, r), r.op = "run" => r.budget \in Nat PROVE AsksRuns(c)
  BY <1>1 DEF AsksRuns, Issue
<1>2. ASSUME NEW l, NEW e, InjectThenRun(c, l, e) PROVE AsksRuns(c)
  BY <1>1, <1>2, RunRequests DEF InjectThenRun, Call
<1>3. ASSUME NEW ref, Call(c, RestoreRequest(ref)) PROVE AsksRuns(c)
  BY <1>1, <1>3, RunRequests DEF Call
<1>4. CASE Connect(c) BY <1>3, <1>4 DEF Connect, AsksRuns, workerVars
<1>5. CASE ConnectFails(c) \/ Fails(c) BY <1>5 DEF ConnectFails, Fails, HangUp, AsksRuns
<1>6. CASE Restored(c) \/ Snapshotted(c)
  <2>1. \E l, e : InjectThenRun(c, l, e) BY <1>6, Zenon DEF Restored, Snapshotted
  <2>2. QED BY <1>2, <2>1
<1>7. CASE Injected(c) BY <1>1, <1>7, RunRequests DEF Injected, Call
<1>8. CASE Ran(c)
  <2>1. \/ Call(c, SlotRequest("snapshot", lease[c])) \/ Call(c, SlotRequest("destroy", lease[c]))
        \/ Call(c, RunRequest(lease[c], 1))
    BY <1>8, Zenon DEF Ran
  <2>2. QED BY <1>1, <2>1, RunRequests DEF Call
<1>9. CASE ReferenceDone(c) \/ SecondDone(c) \/ ContinuedDone(c)
  <2>1. (\E ref : Call(c, RestoreRequest(ref))) \/ HangUp(c)
    BY <1>9, Zenon DEF ReferenceDone, SecondDone, ContinuedDone
  <2>2. QED BY <1>3, <2>1 DEF HangUp, AsksRuns
<1>10. QED BY <1>4, <1>5, <1>6, <1>7, <1>8, <1>9 DEF SuiteSteps, Step, DriverStep

----
(* A gate's own records. *)

LEMMA LeastStop ==
  ASSUME NEW T \in SUBSET Nat, T # {}
  PROVE  G!Least(T) \in T /\ \A y \in T : G!Least(T) <= y
  BY Least DEF G!Least

LEMMA CheckpointFrames ==
  ASSUME NEW o, G!ValidOptions(o)
  PROVE  \A i \in DOMAIN o.checkpoints : o.checkpoints[i].frame \in Nat
<1>1. PICK listed, R : listed = o.checkpoints /\ R = [frame : Nat, expected : Seq(Nat)] OBVIOUS
<1>2. listed \in Seq(R) BY <1>1 DEF G!ValidOptions
<1>3. \A i \in DOMAIN listed : listed[i] \in R BY <1>2
<1>4. \A x \in R : x.frame \in Nat BY <1>1
<1>5. QED BY <1>1, <1>3, <1>4

LEMMA StopsNat ==
  ASSUME NEW o, G!ValidOptions(o), o.step # 0
  PROVE  G!Stops(o) \in SUBSET Nat /\ G!Stops(o) # {}
<1>1. o.step \in Nat \ {0} /\ o.budget \in Nat BY DEF G!ValidOptions
<1>2. \A i \in DOMAIN o.checkpoints : o.checkpoints[i].frame \in Nat BY CheckpointFrames
<1>3. {k * o.step : k \in 1..(o.budget \div o.step)} \subseteq Nat
  <2>1. ASSUME NEW k \in 1..(o.budget \div o.step) PROVE k * o.step \in Nat
    <3>1. k \in Nat BY <1>1
    <3>2. QED BY <1>1, <3>1
  <2>2. QED BY <2>1
<1>4. {o.checkpoints[i].frame : i \in {j \in DOMAIN o.checkpoints :
                                         o.checkpoints[j].frame <= o.budget}} \subseteq Nat
  BY <1>2
<1>5. QED BY <1>1, <1>3, <1>4 DEF G!Stops

LEMMA GateRunRequests ==
  /\ \A l, n : G!RunRequest(l, n).op = "run" /\ G!RunRequest(l, n).budget = n
  /\ \A l, e : G!InjectRequest(l, e).op # "run"
  /\ \A op \in {"read", "framebuffer", "destroy"} : \A l : G!SlotRequest(op, l).op # "run"
  /\ \A ref : G!RestoreRequest(ref).op # "run"
  BY DEF G!RunRequest, G!InjectRequest, G!SlotRequest, G!RestoreRequest

\* A gate at a stop goes on to the next one, or gives its slot back.
LEMMA Proceeds ==
  ASSUME NEW c, NEW stop \in Nat, NEW left \in SUBSET Nat, \A s \in left : stop <= s,
         NEW seen, NEW results, G!Proceed(c, stop, left, seen, results)
  PROVE  /\ \E r : Issue(c, r) /\ (r.op = "run" => r.budget \in Nat)
         /\ \/ gPc' = [gPc EXCEPT ![c] = "run"] /\ left # {}
            \/ gPc' = [gPc EXCEPT ![c] = "destroy"]
<1>1. CASE G!Destroy(c) BY <1>1, GateIssue, GateRunRequests DEF G!Destroy, G!Goto, G!Call
<1>2. CASE left # {} /\ G!Goto(c, "run") /\ G!Call(c, G!RunRequest(gLease[c], G!Least(left) - stop))
  <2>0. PICK m : m = G!Least(left) OBVIOUS
  <2>1. m \in left /\ m - stop \in Nat
    <3>1. m \in left BY <1>2, <2>0, LeastStop
    <3>2. QED BY <3>1
  <2>2. QED BY <1>2, <2>0, <2>1, GateIssue, GateRunRequests DEF G!Goto, G!Call
<1>3. QED BY <1>1, <1>2 DEF G!Proceed

\* No other gate's records change.
Alone(c) ==
  \A d \in Gates \ {c} :
    /\ gPc'[d] = gPc[d] /\ gLease'[d] = gLease[d] /\ gBase'[d] = gBase[d]
    /\ gStops'[d] = gStops[d] /\ gFramesRun'[d] = gFramesRun[d]
    /\ gFailures'[d] = gFailures[d]

RecordShapes ==
  /\ gOpts \in [Gates -> GateOptions] /\ gBase \in [Gates -> Nat]
  /\ gStops \in [Gates -> SUBSET Nat] /\ gFramesRun \in [Gates -> Nat]
  /\ gFailures = [c \in Gates |-> gFailures[c]]

\* Only the stage of the gate changes, and the failures it has recorded.
Turns(c, s) ==
  /\ gPc' = [gPc EXCEPT ![c] = s] /\ s \notin {"run", "framebuffer"}
  /\ UNCHANGED <<gOpts, gLease, gBase, gStops, gFramesRun>>
  /\ gFailures' = gFailures \/ \E f : gFailures' = [gFailures EXCEPT ![c] = f]

LEMMA GatePlanned ==
  ASSUME RpcInv, WorkInv, NEW own, OwnInv(own), NEW c \in Gates, GateSteps(c)
  PROVE  RecordShapes' /\ Alone(c) /\ GatePlan(c)' /\ AsksRuns(c)
<1>0. /\ RecordShapes /\ GatePlan(c) /\ GateCounts(c) /\ G!ValidOptions(gOpts[c])
      /\ gPc = [d \in Gates |-> gPc[d]] /\ gLease = [d \in Gates |-> gLease[d]]
      /\ c \in Clients
  BY Kinds, GatesAssumption DEF WorkInv, ReportShapes, RecordShapes, GateOK, RpcInv, Shapes
<1>1. ASSUME NEW r, Issue(c, r), r.op = "run" => r.budget \in Nat PROVE AsksRuns(c)
  BY <1>1 DEF AsksRuns, Issue
\* The stage and the failures.
<1>2. ASSUME NEW s, Turns(c, s) PROVE RecordShapes' /\ Alone(c) /\ GatePlan(c)'
  BY <1>0, <1>2 DEF Turns, RecordShapes, Alone, GatePlan
<1>3. CASE G!Connect(c)
  <2>1. AsksRuns(c) BY <1>1, <1>3, GateIssue, GateRunRequests DEF G!Connect, G!Call
  <2>2. Turns(c, "restore") BY <1>3 DEF G!Connect, G!Goto, Turns
  <2>3. QED BY <1>2, <2>1, <2>2
<1>4. CASE G!ConnectFails(c)
  <2>1. Turns(c, "done") /\ AsksRuns(c)
    BY <1>4 DEF G!ConnectFails, G!Goto, G!Record, AsksRuns, Turns
  <2>2. QED BY <1>2, <2>1
<1>5. CASE G!Restored(c)
  <2>1. gBase' = [gBase EXCEPT ![c] = reply[c].guest.counter]
        /\ gLease' = [gLease EXCEPT ![c] = reply[c].lease]
        /\ gPc' = [gPc EXCEPT ![c] = "ready-proof"]
        /\ UNCHANGED <<gOpts, gStops, gFramesRun, gFailures>>
        /\ gPc[c] = "restore" /\ reply[c].status = "ok"
    BY <1>5 DEF G!Restored, G!Goto, G!Answered
  <2>2. reply[c].guest.counter \in Nat
    <3>1. reply[c].lease \in DOMAIN slots BY <1>0, <2>1, Kinds DEF OwnInv, Holding, Stage
    <3>2. QED BY <1>0, <2>1, <3>1 DEF GateCounts, WorkInv, StoreOK, SlotsOK, GuestOK
  <2>3. RecordShapes' /\ Alone(c) /\ GatePlan(c)'
    BY <1>0, <2>1, <2>2 DEF RecordShapes, Alone, GatePlan
  <2>4. AsksRuns(c) BY <1>1, <1>5, GateIssue, GateRunRequests DEF G!Restored, G!Call
  <2>5. QED BY <2>3, <2>4
<1>6. CASE G!ReadyRead(c) \/ G!Inject(c)
  <2>1. AsksRuns(c) BY <1>1, <1>6, GateIssue, GateRunRequests DEF G!ReadyRead, G!Inject, G!Call
  <2>2. \E s : Turns(c, s) BY <1>6 DEF G!ReadyRead, G!Inject, G!Goto, Turns
  <2>3. QED BY <1>2, <2>1, <2>2
<1>7. CASE G!Injected(c)
  <2>1. CASE gOpts[c].step = 0
    <3>1. Turns(c, "panicked") /\ AsksRuns(c)
      BY <1>7, <2>1 DEF G!Injected, G!Goto, G!HangUp, AsksRuns, Turns
    <3>2. QED BY <1>2, <3>1
  <2>2. CASE gOpts[c].step # 0
    <3> DEFINE st == G!Stops(gOpts[c])
    <3>1. st \in SUBSET Nat /\ st # {} /\ G!Least(st) \in Nat BY <1>0, <2>2, StopsNat, LeastStop
    <3>2. /\ gStops' = [gStops EXCEPT ![c] = st] /\ gPc' = [gPc EXCEPT ![c] = "run"]
          /\ UNCHANGED <<gOpts, gLease, gBase, gFramesRun, gFailures>>
          /\ Issue(c, G!RunRequest(gLease[c], G!Least(st)))
      BY <1>7, <2>2, GateIssue DEF G!Injected, G!Goto, G!Call
    <3> HIDE DEF st
    <3>3. RecordShapes' /\ Alone(c) /\ GatePlan(c)'
      BY <1>0, <3>1, <3>2 DEF RecordShapes, Alone, GatePlan
    <3>4. QED BY <1>1, <3>1, <3>2, <3>3, GateRunRequests
  <2>3. QED BY <2>1, <2>2
<1>8. CASE G!Ran(c)
  <2> DEFINE stop == G!Least(gStops[c])
             left == gStops[c] \ {stop}
  <2>1. /\ gStops' = [gStops EXCEPT ![c] = left] /\ gFramesRun' = [gFramesRun EXCEPT ![c] = stop]
        /\ UNCHANGED <<gOpts, gLease, gBase, gFailures>> /\ gPc[c] = "run"
        /\ \/ G!Goto(c, "framebuffer") /\ G!Call(c, G!SlotRequest("framebuffer", gLease[c]))
           \/ \E seen : G!Proceed(c, stop, left, seen, gCaptured[c])
    BY <1>8 DEF G!Ran, G!Answered
  <2>2. /\ stop \in Nat /\ left \in SUBSET Nat /\ \A s \in left : stop <= s
    BY <1>0, <2>1, LeastStop DEF RecordShapes, GatePlan
  <2> HIDE DEF stop, left
  <2>3. CASE G!Goto(c, "framebuffer") /\ G!Call(c, G!SlotRequest("framebuffer", gLease[c]))
    <3>1. AsksRuns(c) BY <1>1, <2>3, GateIssue, GateRunRequests DEF G!Call
    <3>2. RecordShapes' /\ Alone(c) /\ GatePlan(c)'
      BY <1>0, <2>1, <2>2, <2>3 DEF RecordShapes, Alone, GatePlan, G!Goto
    <3>3. QED BY <3>1, <3>2
  <2>4. ASSUME NEW seen, G!Proceed(c, stop, left, seen, gCaptured[c])
        PROVE  RecordShapes' /\ Alone(c) /\ GatePlan(c)' /\ AsksRuns(c)
    <3>1. /\ \E r : Issue(c, r) /\ (r.op = "run" => r.budget \in Nat)
          /\ \/ gPc' = [gPc EXCEPT ![c] = "run"] /\ left # {}
             \/ gPc' = [gPc EXCEPT ![c] = "destroy"]
      BY <2>2, <2>4, Proceeds
    <3>2. RecordShapes' /\ Alone(c) /\ GatePlan(c)'
      BY <1>0, <2>1, <2>2, <3>1 DEF RecordShapes, Alone, GatePlan
    <3>3. QED BY <1>1, <3>1, <3>2
  <2>5. QED BY <2>1, <2>3, <2>4
<1>9. CASE G!RanAtZeroPanics(c)
  <2>1. Turns(c, "panicked") /\ AsksRuns(c)
    BY <1>9 DEF G!RanAtZeroPanics, G!Goto, G!HangUp, AsksRuns, Turns
  <2>2. QED BY <1>2, <2>1
<1>10. CASE G!Captured(c)
  <2>1. /\ UNCHANGED <<gOpts, gLease, gBase, gStops, gFramesRun, gFailures>>
        /\ gPc[c] = "framebuffer"
        /\ \E results : G!Proceed(c, gFramesRun[c], gStops[c], gTransition[c], results)
    BY <1>10, Zenon DEF G!Captured, G!Answered
  <2>2. /\ gFramesRun[c] \in Nat /\ gStops[c] \in SUBSET Nat
        /\ \A s \in gStops[c] : gFramesRun[c] <= s
    BY <1>0, <2>1 DEF RecordShapes, GatePlan
  <2>3. /\ \E r : Issue(c, r) /\ (r.op = "run" => r.budget \in Nat)
        /\ \/ gPc' = [gPc EXCEPT ![c] = "run"] /\ gStops[c] # {}
           \/ gPc' = [gPc EXCEPT ![c] = "destroy"]
    BY <2>1, <2>2, Proceeds
  <2>4. RecordShapes' /\ Alone(c) /\ GatePlan(c)'
    BY <1>0, <2>1, <2>3 DEF RecordShapes, Alone, GatePlan
  <2>5. QED BY <1>1, <2>3, <2>4
<1>11. CASE G!RestoreFails(c) \/ G!CleanedUp(c) \/ G!Judge(c)
  <2>1. Turns(c, "done") /\ AsksRuns(c)
    BY <1>11 DEF G!RestoreFails, G!CleanedUp, G!Judge, G!Goto, G!Record, G!HangUp, AsksRuns, Turns
  <2>2. QED BY <1>2, <2>1
<1>12. CASE G!CallFails(c) \/ G!GeometryMismatch(c) \/ G!CaptureFails(c)
  <2>1. /\ Issue(c, G!SlotRequest("destroy", gLease[c]))
        /\ \E s : Turns(c, s)
    BY <1>12, GateIssue
       DEF G!CallFails, G!GeometryMismatch, G!CaptureFails, G!CleanUp, G!Destroy, G!Goto, G!Record,
           G!Call, Turns
  <2>2. QED BY <1>1, <1>2, <2>1, GateRunRequests
<1>13. CASE G!UnexpectedStop(c)
  <2>1. /\ Issue(c, G!SlotRequest("destroy", gLease[c]))
        /\ gPc' = [gPc EXCEPT ![c] = "destroy"] /\ gPc[c] = "run"
        /\ \E f : gFailures' = [gFailures EXCEPT ![c] = f]
        /\ gFramesRun' = [gFramesRun EXCEPT ![c] = G!Least(gStops[c])]
        /\ UNCHANGED <<gOpts, gLease, gBase, gStops>>
    BY <1>13, GateIssue DEF G!UnexpectedStop, G!Goto, G!Record, G!Answered
  <2>2. G!Least(gStops[c]) \in Nat BY <1>0, <2>1, LeastStop DEF RecordShapes, GatePlan
  <2>3. RecordShapes' /\ Alone(c) /\ GatePlan(c)'
    BY <1>0, <2>1, <2>2 DEF RecordShapes, Alone, GatePlan
  <2>4. QED BY <1>1, <2>1, <2>3, GateRunRequests
<1>14. QED BY <1>3, <1>4, <1>5, <1>6, <1>7, <1>8, <1>9, <1>10, <1>11, <1>12, <1>13
     DEF GateSteps, G!Step, G!DriverStep

----
(* What has failed. *)

\* Failures are counted and never forgotten.
LEMMA FaultsGrow ==
  ASSUME ReportShapes, [Next]_allVars
  PROVE  /\ faults'.count \in Nat /\ faults' = [count |-> faults'.count, bound |-> faults'.bound]
         /\ faults.count <= faults'.count
<1>1. ASSUME UNCHANGED faults \/ CountFault
      PROVE  /\ faults'.count \in Nat /\ faults' = [count |-> faults'.count, bound |-> faults'.bound]
             /\ faults.count <= faults'.count
  <2>1. faults.count \in Nat /\ faults = [count |-> faults.count, bound |-> faults.bound]
    BY DEF ReportShapes
  <2>2. QED BY <1>1, <2>1 DEF CountFault
<1>2. ASSUME NEW c, SuiteSteps(c) PROVE UNCHANGED faults \/ CountFault
  <2>1. \A l, e : InjectThenRun(c, l, e) => UNCHANGED faults BY DEF InjectThenRun, Call
  <2>2. CASE Connect(c) \/ ConnectFails(c) \/ Fails(c) \/ Injected(c)
    BY <2>2 DEF Connect, ConnectFails, Fails, Injected, Call, HangUp, workerVars
  <2>3. CASE Restored(c) \/ Snapshotted(c)
    <3>1. \E l, e : InjectThenRun(c, l, e) BY <2>3, Zenon DEF Restored, Snapshotted
    <3>2. QED BY <2>1, <3>1
  <2>4. CASE Ran(c) \/ ReferenceDone(c) \/ SecondDone(c) \/ ContinuedDone(c)
    <3>1. (\E r : Call(c, r)) \/ HangUp(c)
      BY <2>4, Zenon DEF Ran, ReferenceDone, SecondDone, ContinuedDone
    <3>2. QED BY <3>1 DEF Call, HangUp
  <2>5. QED BY <1>2, <2>2, <2>3, <2>4 DEF SuiteSteps, Step, DriverStep
<1>3. ASSUME NEW c, GateSteps(c) PROVE UNCHANGED faults \/ CountFault
  <2>1. CASE \/ G!Connect(c) \/ G!Restored(c) \/ G!ReadyRead(c) \/ G!Inject(c) \/ G!Injected(c)
             \/ G!RanAtZeroPanics(c) \/ G!RestoreFails(c) \/ G!CleanedUp(c) \/ G!Judge(c)
    BY <2>1, Zenon DEF G!Connect, G!Restored, G!ReadyRead, G!Inject, G!Injected, G!RanAtZeroPanics,
       G!RestoreFails, G!CleanedUp, G!Judge, G!Call, G!HangUp
  <2>2. CASE G!Ran(c) \/ G!Captured(c) \/ G!CallFails(c) \/ G!CaptureFails(c)
    BY <2>2, Zenon DEF G!Ran, G!Captured, G!CallFails, G!CaptureFails, G!CleanUp, G!Proceed,
       G!Destroy, G!Call
  <2>3. CASE G!ConnectFails(c) \/ G!GeometryMismatch(c) \/ G!UnexpectedStop(c)
    BY <2>3, Zenon DEF G!ConnectFails, G!GeometryMismatch, G!UnexpectedStop, G!CountFault, CountFault
  <2>4. QED BY <1>3, <2>1, <2>2, <2>3 DEF GateSteps, G!Step, G!DriverStep
<1>4. ASSUME WorkerSteps PROVE UNCHANGED faults \/ CountFault
  BY <1>4, Zenon DEF WorkerSteps, WorkerNext, Serve, ServeGivenUp, Store, Handle, StoreSnapshot, RpcFails
<1>5. QED BY <1>1, <1>2, <1>3, <1>4 DEF Next, Ended, allVars, workerVars

\* The answers of the worker: a restore's slot is as it says; a call on a slot that exists,
\* whose events are in the future, is accepted, a snapshot excepted.
LEMMA HandleAnswers ==
  ASSUME NEW k, Handle(k)
  PROVE  \/ UNCHANGED reply
         \/ \E answer :
              /\ Deliver(k, answer) /\ answer.status \notin {"none", "rpc"}
              /\ answer.status # "ok" /\ k.req.op \in {"read", "framebuffer", "inject", "run"} =>
                   \/ k.req.lease \notin DOMAIN slots
                   \/ /\ k.req.op = "inject"
                      /\ \E at \in DOMAIN k.req.events : at <= slots[k.req.lease].state.counter
              /\ answer.status = "ok" /\ k.req.op = "restore" =>
                   answer.guest = slots'[answer.lease].state
<1>0. /\ \A code : Refused(code).status = code
      /\ \A guest : Answer(guest).status = "ok"
  BY DEF Refused, Answer
<1>1. CASE RestoreSnapshot(k)
  <2>1. CASE Deliver(k, Refused("not_found"))
    <3>1. Refused("not_found").status \notin {"none", "rpc", "ok"} BY <1>0
    <3>2. k.req.op = "restore" BY <1>1 DEF RestoreSnapshot
    <3>3. QED BY <2>1, <3>1, <3>2
  <2>2. ASSUME NEW guest, NEW id,
               slots' = Over(Entry(id, [state |-> guest, scheduled |-> << >>]), slots),
               Deliver(k, [status |-> "ok", lease |-> id, guest |-> guest])
        PROVE  \E answer : /\ Deliver(k, answer) /\ answer.status = "ok"
                           /\ answer.guest = slots'[answer.lease].state
    <3> DEFINE answer == [status |-> "ok", lease |-> id, guest |-> guest]
               slot == [state |-> guest, scheduled |-> << >>]
    <3>1. answer.status = "ok" /\ answer.lease = id /\ answer.guest = guest /\ slot.state = guest
      OBVIOUS
    <3>2. Deliver(k, answer) /\ slots' = Over(Entry(id, slot), slots) BY <2>2
    <3> HIDE DEF answer, slot
    <3>3. slots'[id] = slot BY <3>2 DEF Over, Entry
    <3>4. answer.guest = slots'[answer.lease].state BY <3>1, <3>3
    <3>5. QED BY <3>1, <3>2, <3>4
  <2>3. \/ Deliver(k, Refused("not_found"))
        \/ \E guest, id :
             /\ slots' = Over(Entry(id, [state |-> guest, scheduled |-> << >>]), slots)
             /\ Deliver(k, [status |-> "ok", lease |-> id, guest |-> guest])
    BY <1>1, Zenon DEF RestoreSnapshot
  <2>4. k.req.op = "restore" BY <1>1 DEF RestoreSnapshot
  <2>5. CASE \E answer : /\ Deliver(k, answer) /\ answer.status = "ok"
                         /\ answer.guest = slots'[answer.lease].state
    BY <2>4, <2>5
  <2>6. QED BY <2>1, <2>2, <2>3, <2>5
<1>2. CASE SlotGone(k)
  <2>1. /\ Deliver(k, Refused("slot_empty")) /\ Refused("slot_empty").status = "slot_empty"
        /\ k.req.op # "restore" /\ k.req.lease \notin DOMAIN slots
    BY <1>0, <1>2 DEF SlotGone
  <2>2. QED BY <2>1
<1>3. CASE InjectInputs(k)
  <2>1. k.req.op = "inject" BY <1>3 DEF InjectInputs, WithSlot
  <2>2. \/ Deliver(k, Answer(slots[k.req.lease].state))
        \/ /\ Deliver(k, Refused("not_in_future"))
           /\ \E at \in DOMAIN k.req.events : at <= slots[k.req.lease].state.counter
    BY <1>3, Zenon DEF InjectInputs
  <2>3. CASE Deliver(k, Answer(slots[k.req.lease].state)) BY <1>0, <2>1, <2>3
  <2>4. CASE /\ Deliver(k, Refused("not_in_future"))
             /\ \E at \in DOMAIN k.req.events : at <= slots[k.req.lease].state.counter
    <3>1. Refused("not_in_future").status = "not_in_future" BY <1>0
    <3>2. QED BY <2>1, <2>4, <3>1
  <2>5. QED BY <2>2, <2>3, <2>4
<1>4. CASE Run(k) \/ Read(k)
  <2>1. k.req.op # "restore" /\ \E guest : Deliver(k, Answer(guest))
    BY <1>4, Zenon DEF Run, Read, WithSlot
  <2>2. QED BY <1>0, <2>1
<1>5. CASE TakeSnapshot(k)
  <2>1. k.req.op = "snapshot" /\ (UNCHANGED reply \/ Deliver(k, Refused("agenda_not_empty")))
    BY <1>5, Zenon DEF TakeSnapshot, WithSlot
  <2>2. Refused("agenda_not_empty").status = "agenda_not_empty" BY <1>0
  <2>3. QED BY <2>1, <2>2
<1>6. CASE DestroyVm(k)
  <2>1. k.req.op = "destroy" /\ Deliver(k, [status |-> "ok"]) BY <1>6 DEF DestroyVm, WithSlot
  <2> DEFINE answer == [status |-> "ok"]
  <2>2. answer.status = "ok" /\ Deliver(k, answer) BY <2>1
  <2> HIDE DEF answer
  <2>3. QED BY <2>1, <2>2
<1>7. QED BY <1>1, <1>2, <1>3, <1>4, <1>5, <1>6 DEF Handle

\* The gate is at stage s of its own accord: what it knows of its guest and its failures
\* carries over.
TurnsTo(c, s) ==
  /\ gPc'[c] = s /\ gLease'[c] = gLease[c] /\ gBase'[c] = gBase[c]
  /\ \A stage \in gFailures'[c] : stage \in gFailures[c] \/ stage # "restore"
  /\ reply'[c].status = "none" \/ s = "done"
  /\ s \in {"start", "off", "restore"} => gPc[c] = "start" /\ gFailures'[c] = gFailures[c]
  /\ s = "cleanup" => faults'.count >= 1
  /\ s # "ready-proof"
  /\ s \in {"geometry", "inject"} =>
       gPc[c] \in {"ready-proof", "geometry"} /\ reply[c].status = "ok"
  /\ UNCHANGED slots

LEMMA TurnedTo ==
  ASSUME NEW c \in Gates, NEW s, TurnsTo(c, s), GateFaults(c), GateCounts(c),
         \A k \in calls' : k \in calls \/ (k.client = c /\ k.req.op = "inject" =>
             \A at \in DOMAIN k.req.events : at \in Nat /\ at > gBase[c])
  PROVE  GateFaults(c)' /\ GateCounts(c)'
<1>1. GateFaults(c)' BY DEF TurnsTo, GateFaults, Fresh
<1>2. GateCounts(c)' BY DEF TurnsTo, GateCounts
<1>3. QED BY <1>1, <1>2

LEMMA NewCall ==
  ASSUME NEW c, NEW r, Issue(c, r), NEW k \in calls', k \notin calls
  PROVE  k.client = c /\ k.req = r
  BY DEF Issue

\* The events of the whole script are in the future.
LEMMA EventsAhead ==
  ASSUME NEW script \in Seq(Pads), NEW start \in Nat
  PROVE  \A at \in DOMAIN G!ChangeEvents(script, start) : at \in Nat /\ at > start
<1> DEFINE changed == {i \in DOMAIN script : i = 1 \/ script[i] # script[i-1]}
<1>1. DOMAIN G!ChangeEvents(script, start) = {start + i : i \in changed} BY DEF G!ChangeEvents
<1>2. \A i \in changed : i \in Nat /\ i >= 1 OBVIOUS
<1>3. QED BY <1>1, <1>2

LEMMA GateRecorded ==
  ASSUME RpcInv, WorkInv, NEW own, OwnInv(own), NEW c \in Gates, GateSteps(c),
         [Next]_allVars
  PROVE  GateFaults(c)' /\ GateCounts(c)'
<1>0. /\ GateFaults(c) /\ GateCounts(c) /\ RecordShapes
      /\ gPc = [d \in Gates |-> gPc[d]] /\ gLease = [d \in Gates |-> gLease[d]]
      /\ reply = [d \in Clients |-> reply[d]] /\ c \in Clients
      /\ faults'.count \in Nat /\ faults.count <= faults'.count /\ faults.count \in Nat
  BY Kinds, FaultsGrow DEF WorkInv, ReportShapes, RecordShapes, GateOK, RpcInv, Shapes
\* Whatever is asked but an injection.
<1>1. ASSUME NEW s, TurnsTo(c, s),
             UNCHANGED calls \/ \E r : Issue(c, r) /\ r.op # "inject"
      PROVE  GateFaults(c)' /\ GateCounts(c)'
  <2>1. \A k \in calls' : k \in calls \/ k.req.op # "inject" BY <1>1, NewCall
  <2>2. QED BY <1>0, <1>1, <2>1, TurnedTo
<1>2. ASSUME NEW r, Issue(c, r) PROVE reply'[c].status = "none" /\ UNCHANGED slots
  BY <1>0, <1>2 DEF Issue, NoReply
<1>3. ASSUME G!HangUp(c) PROVE reply'[c].status = "none" /\ UNCHANGED <<slots, calls>>
  BY <1>0, <1>3 DEF G!HangUp, G!NoReply
<1>5. CASE G!Connect(c)
  <2>1. Issue(c, G!RestoreRequest(gOpts[c].ref)) BY <1>5, GateIssue DEF G!Connect, G!Call
  <2>2. TurnsTo(c, "restore") BY <1>0, <1>2, <1>5, <2>1 DEF G!Connect, G!Goto, TurnsTo
  <2>3. QED BY <1>1, <2>1, <2>2, GateRequests
<1>6. CASE G!ConnectFails(c)
  <2>1. TurnsTo(c, "done") BY <1>0, <1>6 DEF G!ConnectFails, G!Goto, G!Record, TurnsTo, RecordShapes
  <2>2. QED BY <1>1, <1>6, <2>1 DEF G!ConnectFails
<1>7. CASE G!Restored(c)
  <2>1. /\ gPc[c] = "restore" /\ reply[c].status = "ok" /\ UNCHANGED gFailures
        /\ gLease'[c] = reply[c].lease /\ gBase'[c] = reply[c].guest.counter
        /\ gPc'[c] = "ready-proof" /\ Issue(c, G!SlotRequest("read", reply[c].lease))
    BY <1>0, <1>7, GateIssue DEF G!Restored, G!Goto, G!Answered, G!Call, RecordShapes
  <2>2. reply'[c].status = "none" /\ UNCHANGED slots BY <1>2, <2>1
  <2>3. \A k \in calls' : k.client = c => k.req.op # "inject"
    <3>1. \A k \in calls : k.client # c
      BY <1>0, <2>1, Kinds, NothingAwaited DEF Stage, Leaving, Gone
    <3>2. G!SlotRequest("read", reply[c].lease).op # "inject" BY GateRequests
    <3>3. QED BY <2>1, <3>1, <3>2, NewCall
  <2>4. GateFaults(c)' BY <1>0, <2>1, <2>2 DEF GateFaults, Fresh
  <2>5. GateCounts(c)' BY <1>0, <2>1, <2>2, <2>3 DEF GateCounts
  <2>6. QED BY <2>4, <2>5
<1>8. CASE G!ReadyRead(c)
  <2>1. Issue(c, G!SlotRequest("framebuffer", gLease[c])) BY <1>8, GateIssue DEF G!ReadyRead, G!Call
  <2>2. TurnsTo(c, "geometry")
    BY <1>0, <1>2, <1>8, <2>1 DEF G!ReadyRead, G!Goto, G!Answered, TurnsTo
  <2>3. QED BY <1>1, <2>1, <2>2, GateRequests
<1>9. CASE G!Inject(c)
  <2> DEFINE e == G!ChangeEvents(gOpts[c].script, gBase[c])
  <2>1. Issue(c, G!InjectRequest(gLease[c], e)) BY <1>9, GateIssue DEF G!Inject, G!Call
  <2>2. TurnsTo(c, "inject") BY <1>0, <1>2, <1>9, <2>1 DEF G!Inject, G!Goto, G!Answered, TurnsTo
  <2>3. \A at \in DOMAIN e : at \in Nat /\ at > gBase[c]
    <3>1. gOpts[c].script \in Seq(Pads) /\ gBase[c] \in Nat
      BY <1>0, GatesAssumption DEF RecordShapes, G!ValidOptions
    <3>2. QED BY <3>1, EventsAhead
  <2>4. G!InjectRequest(gLease[c], e).events = e BY DEF G!InjectRequest
  <2> HIDE DEF e
  <2>5. \A k \in calls' : k \in calls \/ (k.client = c /\ k.req.op = "inject" =>
            \A at \in DOMAIN k.req.events : at \in Nat /\ at > gBase[c])
    BY <2>1, <2>3, <2>4, NewCall
  <2>6. QED BY <1>0, <2>2, <2>5, TurnedTo
<1>10. CASE G!Injected(c)
  <2>1. CASE gOpts[c].step = 0
    <3>1. TurnsTo(c, "panicked")
      BY <1>0, <1>3, <1>10, <2>1 DEF G!Injected, G!Goto, G!Answered, TurnsTo
    <3>2. QED BY <1>1, <1>3, <1>10, <2>1, <3>1 DEF G!Injected
  <2>2. CASE gOpts[c].step # 0
    <3> DEFINE r == G!RunRequest(gLease[c], G!Least(G!Stops(gOpts[c])))
    <3>1. Issue(c, r) BY <1>10, <2>2, GateIssue DEF G!Injected, G!Call
    <3>2. TurnsTo(c, "run")
      BY <1>0, <1>2, <1>10, <2>2, <3>1 DEF G!Injected, G!Goto, G!Answered, TurnsTo
    <3>3. r.op # "inject" BY GateRequests
    <3> HIDE DEF r
    <3>4. QED BY <1>1, <3>1, <3>2, <3>3
  <2>3. QED BY <2>1, <2>2
\* The run loop.
<1>11. ASSUME gPc[c] \in {"run", "framebuffer"}, UNCHANGED <<gLease, gBase, gFailures>>,
              \E s \in {"run", "framebuffer", "destroy"} : \E r :
                gPc' = [gPc EXCEPT ![c] = s] /\ Issue(c, r) /\ r.op # "inject"
       PROVE  GateFaults(c)' /\ GateCounts(c)'
  <2>1. PICK s \in {"run", "framebuffer", "destroy"} : \E r :
          gPc' = [gPc EXCEPT ![c] = s] /\ Issue(c, r) /\ r.op # "inject"
    BY <1>11
  <2>2. TurnsTo(c, s) BY <1>0, <1>2, <1>11, <2>1 DEF TurnsTo
  <2>3. QED BY <1>1, <2>1, <2>2
<1>12. ASSUME NEW stop, NEW left, NEW seen, NEW results, G!Proceed(c, stop, left, seen, results)
       PROVE  \E s \in {"run", "framebuffer", "destroy"} : \E r :
                gPc' = [gPc EXCEPT ![c] = s] /\ Issue(c, r) /\ r.op # "inject"
  <2> DEFINE r == G!RunRequest(gLease[c], G!Least(left) - stop)
             d == G!SlotRequest("destroy", gLease[c])
  <2>1. r.op # "inject" /\ d.op # "inject" BY GateRequests
  <2>2. \/ gPc' = [gPc EXCEPT ![c] = "run"] /\ Issue(c, r)
        \/ gPc' = [gPc EXCEPT ![c] = "destroy"] /\ Issue(c, d)
    BY <1>12, GateIssue DEF G!Proceed, G!Destroy, G!Goto, G!Call
  <2> HIDE DEF r, d
  <2>3. QED BY <2>1, <2>2
<1>13. CASE G!Ran(c)
  <2>1. /\ UNCHANGED <<gLease, gBase, gFailures>> /\ gPc[c] = "run"
        /\ \/ G!Goto(c, "framebuffer") /\ G!Call(c, G!SlotRequest("framebuffer", gLease[c]))
           \/ \E stop, left, seen, results : G!Proceed(c, stop, left, seen, results)
    BY <1>13, Zenon DEF G!Ran, G!Answered
  <2>2. CASE G!Goto(c, "framebuffer") /\ G!Call(c, G!SlotRequest("framebuffer", gLease[c]))
    <3> DEFINE r == G!SlotRequest("framebuffer", gLease[c])
    <3>1. gPc' = [gPc EXCEPT ![c] = "framebuffer"] /\ Issue(c, r) /\ r.op # "inject"
      BY <2>2, GateIssue, GateRequests DEF G!Goto, G!Call
    <3> HIDE DEF r
    <3>2. QED BY <1>11, <2>1, <3>1
  <2>3. QED BY <1>11, <1>12, <2>1, <2>2
<1>14. CASE G!Captured(c)
  <2>1. /\ UNCHANGED <<gLease, gBase, gFailures>> /\ gPc[c] = "framebuffer"
        /\ \E stop, left, seen, results : G!Proceed(c, stop, left, seen, results)
    BY <1>14, Zenon DEF G!Captured, G!Answered
  <2>2. QED BY <1>11, <1>12, <2>1
<1>15. CASE G!RanAtZeroPanics(c) \/ G!RestoreFails(c) \/ G!CleanedUp(c) \/ G!Judge(c)
  <2>1. G!HangUp(c) BY <1>15 DEF G!RanAtZeroPanics, G!RestoreFails, G!CleanedUp, G!Judge
  <2>2. CASE G!RestoreFails(c)
    <3>1. gLease'[c] = 0 /\ gPc'[c] = "done" /\ reply'[c].status = "none" /\ UNCHANGED <<gBase, calls>>
      BY <1>0, <1>3, <2>1, <2>2 DEF G!RestoreFails, G!Failed, G!Goto, GateFaults
    <3>2. QED BY <1>0, <3>1 DEF GateFaults, GateCounts, Fresh
  <2>3. CASE G!RanAtZeroPanics(c) \/ G!CleanedUp(c) \/ G!Judge(c)
    <3>1. \E s \in {"panicked", "done"} : TurnsTo(c, s) BY <1>0, <1>3, <2>1, <2>3
         DEF G!RanAtZeroPanics, G!CleanedUp, G!Judge, G!Goto, TurnsTo, RecordShapes
    <3>2. QED BY <1>1, <1>3, <2>1, <3>1
  <2>4. QED BY <1>15, <2>2, <2>3
<1>16. CASE G!CallFails(c) \/ G!GeometryMismatch(c) \/ G!CaptureFails(c) \/ G!UnexpectedStop(c)
  <2> DEFINE d == G!SlotRequest("destroy", gLease[c])
  <2>1. Issue(c, d) /\ d.op # "inject" BY <1>16, GateIssue, GateRequests
       DEF G!CallFails, G!GeometryMismatch, G!CaptureFails, G!UnexpectedStop, G!CleanUp, G!Destroy, G!Call
  <2> HIDE DEF d
  <2>2. reply'[c].status = "none" /\ UNCHANGED slots BY <1>2, <2>1
  <2>3. faults.count >= 1 \/ faults'.count = faults.count + 1
        \/ G!CaptureFails(c)
    <3>1. CASE G!CallFails(c)
      <4>1. reply[c].status = "rpc" BY <1>0, <3>1 DEF G!CallFails, G!Failed, GateFaults
      <4>2. QED BY <1>0, <4>1 DEF WorkInv, FaultsSeen
    <3>2. CASE G!GeometryMismatch(c) \/ G!UnexpectedStop(c)
      BY <3>2 DEF G!GeometryMismatch, G!UnexpectedStop, G!CountFault, WorkInv, ReportShapes
    <3>3. QED BY <1>16, <3>1, <3>2
  <2>4. \E s \in {"cleanup", "destroy"} : TurnsTo(c, s)
    <3>1. /\ UNCHANGED <<gLease, gBase>>
          /\ \E s \in {"cleanup", "destroy"} : /\ gPc' = [gPc EXCEPT ![c] = s]
                                               /\ s = "cleanup" => ~G!CaptureFails(c)
      BY <1>16 DEF G!CallFails, G!GeometryMismatch, G!CaptureFails, G!UnexpectedStop, G!CleanUp,
         G!Destroy, G!Goto, G!Failed, G!Answered
    <3>2. \E f : gFailures' = [gFailures EXCEPT ![c] = gFailures[c] \cup {f}] /\ f # "restore"
      <4>1. CASE G!CallFails(c)
        <5>1. PICK f : f = IF gPc[c] = "geometry" THEN "framebuffer" ELSE gPc[c] OBVIOUS
        <5>2. gFailures' = [gFailures EXCEPT ![c] = gFailures[c] \cup {f}]
          BY <4>1, <5>1 DEF G!CallFails, G!Record
        <5>3. f # "restore" BY <4>1, <5>1 DEF G!CallFails, G!Failed
        <5>4. QED BY <5>2, <5>3
      <4>2. CASE G!GeometryMismatch(c) \/ G!CaptureFails(c)
        <5>1. PICK f : f = "framebuffer" OBVIOUS
        <5>2. gFailures' = [gFailures EXCEPT ![c] = gFailures[c] \cup {f}] /\ f # "restore"
          BY <4>2, <5>1 DEF G!GeometryMismatch, G!CaptureFails, G!Record
        <5>3. QED BY <5>2
      <4>3. CASE G!UnexpectedStop(c)
        <5>1. PICK f : f = "run" OBVIOUS
        <5>2. gFailures' = [gFailures EXCEPT ![c] = gFailures[c] \cup {f}] /\ f # "restore"
          BY <4>3, <5>1 DEF G!UnexpectedStop, G!Record
        <5>3. QED BY <5>2
      <4>4. QED BY <1>16, <4>1, <4>2, <4>3
    <3>3. QED BY <1>0, <2>2, <2>3, <3>1, <3>2 DEF TurnsTo, RecordShapes
  <2>5. QED BY <1>1, <2>1, <2>4
<1>17. QED BY <1>5, <1>6, <1>7, <1>8, <1>9, <1>10, <1>13, <1>14, <1>15, <1>16
     DEF GateSteps, G!Step, G!DriverStep

LEMMA ClientEffect ==
  ASSUME RpcInv, NEW c \in Clients, Client(c)
  PROVE  /\ UNCHANGED <<slots, snapshots, sealing>>
         /\ \A d \in Clients : reply'[d] = reply[d] \/ (d = c /\ reply'[d].status = "none")
         /\ \A k \in calls' : k \in calls \/ k.client = c
<1>1. ASSUME NEW s, NEW l, NEW r, Goes(c, s, l, r)
      PROVE  /\ UNCHANGED <<slots, snapshots, sealing>>
             /\ \A d \in Clients : reply'[d] = reply[d] \/ (d = c /\ reply'[d].status = "none")
             /\ \A k \in calls' : k \in calls \/ k.client = c
  <2>1. Issue(c, r) BY <1>1 DEF Goes
  <2>2. \A k \in calls' : k \in calls \/ k.client = c BY <2>1, NewCall
  <2>3. \A d \in Clients : reply'[d] = reply[d] \/ (d = c /\ reply'[d].status = "none")
    BY <2>1 DEF Issue, RpcInv, Shapes, NoReply
  <2>4. QED BY <2>1, <2>2, <2>3 DEF Issue
<1>2. ASSUME NEW s, Stops(c, s)
      PROVE  /\ UNCHANGED <<slots, snapshots, sealing>>
             /\ \A d \in Clients : reply'[d] = reply[d] \/ (d = c /\ reply'[d].status = "none")
             /\ \A k \in calls' : k \in calls \/ k.client = c
  BY <1>2 DEF Stops, RpcInv, Shapes, NoReply
<1>3. QED BY <1>1, <1>2 DEF Client

\* Nothing a gate knows is changed by a step of another process.
Untouched(d) ==
  /\ gPc'[d] = gPc[d] /\ gLease'[d] = gLease[d] /\ gBase'[d] = gBase[d]
  /\ gStops'[d] = gStops[d] /\ gFramesRun'[d] = gFramesRun[d] /\ gFailures'[d] = gFailures[d]

LEMMA OtherGates ==
  ASSUME RpcInv, ReportShapes, [Next]_allVars, NEW c \in Clients, Client(c),
         NEW d \in Gates, d # c, Untouched(d), GateOK(d)
  PROVE  GateOK(d)'
<1>1. /\ UNCHANGED slots /\ reply'[d] = reply[d]
      /\ \A k \in calls' : k.client = d => k \in calls
  BY ClientEffect, Kinds
<1>2. faults.count \in Nat /\ faults'.count \in Nat /\ faults.count <= faults'.count
  BY FaultsGrow DEF ReportShapes
<1>3. GatePlan(d)' BY DEF GateOK, GatePlan, Untouched
<1>4. GateFaults(d)' BY <1>1, <1>2 DEF GateOK, GateFaults, Untouched
<1>5. GateCounts(d)' BY <1>1 DEF GateOK, GateCounts, Untouched
<1>6. QED BY <1>3, <1>4, <1>5 DEF GateOK

LEMMA ReportFields ==
  ASSUME NEW r, "failure" \in DOMAIN r, NEW x, NEW y
  PROVE  /\ [r EXCEPT !.failure = x].failure = x
         /\ "failure" \in DOMAIN [r EXCEPT !.failure = x]
         /\ [r EXCEPT !.iterations = x].failure = r.failure
         /\ "failure" \in DOMAIN [r EXCEPT !.iterations = x]
         /\ [r EXCEPT !.iterations = x, !.result = y].failure = r.failure
         /\ "failure" \in DOMAIN [r EXCEPT !.iterations = x, !.result = y]
  OBVIOUS

\* A suite's report keeps the failure unless it records one.
LEMMA ReportKept ==
  ASSUME ReportOK, NEW c \in Suites, SuiteSteps(c)
  PROVE  /\ ReportOK'
         /\ \A d \in Suites \ {c} : report'[d] = report[d]
         /\ \/ report'[c].failure = report[c].failure
            \/ ConnectFails(c)
            \/ Fails(c) /\ report'[c].failure = pc[c]
<1>0. report = [d \in Suites |-> report[d]] /\ "failure" \in DOMAIN report[c] BY DEF ReportOK
<1>1. CASE UNCHANGED report BY <1>1 DEF ReportOK
<1>2. ASSUME NEW r, "failure" \in DOMAIN r, report' = [report EXCEPT ![c] = r]
      PROVE  ReportOK' /\ report'[c] = r /\ \A d \in Suites \ {c} : report'[d] = report[d]
  BY <1>2 DEF ReportOK
<1>3. ASSUME NEW x, report' = [report EXCEPT ![c].failure = x]
      PROVE  ReportOK' /\ report'[c].failure = x /\ \A d \in Suites \ {c} : report'[d] = report[d]
  <2>1. PICK r : r = [report[c] EXCEPT !.failure = x] OBVIOUS
  <2>2. "failure" \in DOMAIN r /\ r.failure = x BY <1>0, <2>1, ReportFields
  <2>3. report' = [report EXCEPT ![c] = r] BY <1>0, <1>3, <2>1
  <2>4. QED BY <1>2, <2>2, <2>3
<1>4. ASSUME ContinuedDone(c)
      PROVE  /\ ReportOK' /\ report'[c].failure = report[c].failure
             /\ \A d \in Suites \ {c} : report'[d] = report[d]
  <2>1. PICK x, y : \/ report' = [report EXCEPT ![c].iterations = x]
                    \/ report' = [report EXCEPT ![c].iterations = x, ![c].result = y]
    BY <1>4, Zenon DEF ContinuedDone
  <2>2. CASE report' = [report EXCEPT ![c].iterations = x]
    <3>1. PICK r : r = [report[c] EXCEPT !.iterations = x] OBVIOUS
    <3>2. "failure" \in DOMAIN r /\ r.failure = report[c].failure BY <1>0, <3>1, ReportFields
    <3>3. report' = [report EXCEPT ![c] = r] BY <1>0, <2>2, <3>1
    <3>4. QED BY <1>2, <3>2, <3>3
  <2>3. CASE report' = [report EXCEPT ![c].iterations = x, ![c].result = y]
    <3>1. PICK r : r = [report[c] EXCEPT !.iterations = x, !.result = y] OBVIOUS
    <3>2. "failure" \in DOMAIN r /\ r.failure = report[c].failure BY <1>0, <3>1, ReportFields
    <3>3. report' = [report EXCEPT ![c] = r] BY <1>0, <2>3, <3>1
    <3>4. QED BY <1>2, <3>2, <3>3
  <2>4. QED BY <2>1, <2>2, <2>3
<1>5. CASE ConnectFails(c) BY <1>3, <1>5 DEF ConnectFails
<1>6. CASE Fails(c) BY <1>3, <1>6 DEF Fails
<1>7. QED
  BY <1>1, <1>4, <1>5, <1>6, Zenon DEF SuiteSteps, Step, DriverStep, Connect, Restored, Injected,
     Ran, Snapshotted, ReferenceDone, SecondDone

\* At a slot, a client's call under way is the one of its stage, or one it gave up.
LEMMA SlotCall ==
  ASSUME RpcInv, NEW own, OwnInv(own), NEW k \in calls, k.req.op # "restore",
         NEW c \in Clients, own[k.req.lease] = c
  PROVE  /\ k.client = c /\ Stage(c) # "restore"
         /\ k.awaited => k.req.op = Asks(Stage(c)) /\ reply[c].status = "none"
         /\ ~k.awaited => GaveUp(c)
  BY DEF RpcInv, CallOK, OwnInv, Owned

LEMMA GateServed ==
  ASSUME RpcInv, WorkInv, NEW own, OwnInv(own), NEW new, OwnInv(new)', Still,
         UNCHANGED gateVars, UNCHANGED faults, NEW k \in calls, Handle(k), NEW c \in Gates
  PROVE  GateOK(c)'
<1>0. /\ GatePlan(c) /\ GateFaults(c) /\ GateCounts(c) /\ CallOK(k) /\ c \in Clients
      /\ c \notin Suites /\ Stage(c) = gPc[c] /\ Lease(c) = gLease[c]
      /\ gPc'[c] = gPc[c] /\ gLease'[c] = gLease[c] /\ gBase'[c] = gBase[c]
      /\ UNCHANGED <<gPc, gLease, gBase, gStops, gFramesRun, gFailures, faults>>
      /\ Stage(c)' = Stage(c) /\ Lease(c)' = Lease(c)
      /\ k.client \in Clients /\ k.awaited \in BOOLEAN
  BY Kinds DEF WorkInv, GateOK, RpcInv, CallOK, Stage, Lease, gateVars, Still
<1>1. Holding(own, c) /\ Holding(new, c)' BY <1>0 DEF OwnInv
<1>2. \A i \in DOMAIN slots \cap DOMAIN slots' :
        \/ slots'[i].state.counter = slots[i].state.counter
        \/ k.req.op = "run" /\ k.req.lease = i
  BY StoreServes DEF WorkInv
<1>3. calls' \subseteq calls BY DEF Handle
<1>4. ~(k.client = c /\ k.awaited) => reply'[c] = reply[c] BY <1>0, Answered1
\* The gate's own call is answered.
<1>5. ASSUME k.client = c, k.awaited
      PROVE  /\ reply[c].status = "none" /\ k.req.op = Asks(gPc[c])
             /\ reply'[c].status # "rpc"
             /\ gPc[c] \in {"ready-proof", "geometry", "inject", "run"} =>
                  reply'[c].status \in {"none", "ok"}
             /\ gPc[c] = "restore" /\ reply'[c].status = "ok" =>
                  reply'[c].guest = slots'[reply'[c].lease].state
  <2>1. reply[c].status = "none" /\ k.req.op = Asks(gPc[c]) BY <1>0, <1>5 DEF CallOK
  <2>2. CASE UNCHANGED reply BY <2>1, <2>2
  <2>3. ASSUME NEW answer, Deliver(k, answer), answer.status \notin {"none", "rpc"},
               answer.status # "ok" /\ k.req.op \in {"read", "framebuffer", "inject", "run"} =>
                 \/ k.req.lease \notin DOMAIN slots
                 \/ /\ k.req.op = "inject"
                    /\ \E at \in DOMAIN k.req.events : at <= slots[k.req.lease].state.counter,
               answer.status = "ok" /\ k.req.op = "restore" =>
                 answer.guest = slots'[answer.lease].state
        PROVE  /\ reply'[c].status # "rpc"
               /\ gPc[c] \in {"ready-proof", "geometry", "inject", "run"} =>
                    reply'[c].status \in {"none", "ok"}
               /\ gPc[c] = "restore" /\ reply'[c].status = "ok" =>
                    reply'[c].guest = slots'[reply'[c].lease].state
    <3>1. reply'[c] = answer BY <1>0, <1>5, <2>3, Answers
    <3>2. ASSUME gPc[c] \in {"ready-proof", "geometry", "inject", "run"} PROVE answer.status = "ok"
      <4>1. /\ k.req.op \in {"read", "framebuffer", "inject", "run"}
            /\ k.req.op = "inject" => gPc[c] = "inject"
        BY <2>1, <3>2 DEF Asks
      <4>2. k.req.lease = gLease[c] /\ gLease[c] \in DOMAIN slots
        BY <1>0, <1>1, <1>5, <3>2, <4>1 DEF CallOK, Holding, AtWork
      <4>3. k.req.op = "inject" => ~\E at \in DOMAIN k.req.events :
                                       at <= slots[k.req.lease].state.counter
        <5>1. SUFFICES ASSUME k.req.op = "inject", NEW at \in DOMAIN k.req.events,
                              at <= slots[k.req.lease].state.counter
                       PROVE  FALSE OBVIOUS
        <5>2. slots[k.req.lease].state.counter = gBase[c] /\ gBase[c] \in Nat
          BY <1>0, <2>1, <4>1, <4>2, <5>1 DEF GateCounts, WorkInv, ReportShapes
        <5>3. at \in Nat /\ at > gBase[c] BY <1>0, <1>5, <5>1 DEF GateCounts
        <5>4. QED BY <5>1, <5>2, <5>3
      <4>4. QED BY <2>3, <4>1, <4>2, <4>3
    <3>3. gPc[c] = "restore" => k.req.op = "restore" BY <2>1 DEF Asks
    <3>4. QED BY <2>3, <3>1, <3>2, <3>3
  <2>4. QED BY <2>1, <2>2, <2>3, HandleAnswers
<1>6. GatePlan(c)' BY <1>0 DEF GatePlan
<1>7. GateFaults(c)' BY <1>0, <1>4, <1>5 DEF GateFaults
<1>8. GateCounts(c)'
  <2>1. ASSUME gPc[c] = "restore", reply'[c].status = "ok"
        PROVE  reply'[c].guest.counter = slots'[reply'[c].lease].state.counter
    <3>1. CASE k.client = c /\ k.awaited BY <1>5, <2>1, <3>1
    <3>2. CASE ~(k.client = c /\ k.awaited)
      <4>1. reply'[c] = reply[c] BY <1>4, <3>2
      <4>2. PICK l : l = reply[c].lease OBVIOUS
      <4>3. l \in DOMAIN slots /\ own[l] = c BY <1>0, <1>1, <2>1, <4>1, <4>2 DEF Holding
      <4>4. l \in DOMAIN slots' BY <1>0, <1>1, <2>1, <4>1, <4>2 DEF Holding
      <4>5. ~(k.req.op = "run" /\ k.req.lease = l) BY <1>0, <2>1, <4>3, SlotCall
      <4>6. slots'[l].state.counter = slots[l].state.counter BY <1>2, <4>3, <4>4, <4>5
      <4>7. QED BY <1>0, <2>1, <4>1, <4>2, <4>6 DEF GateCounts
    <3>3. QED BY <3>1, <3>2
  <2>2. ASSUME gPc[c] \in {"ready-proof", "geometry", "inject"}, reply'[c].status \in {"none", "ok"}
        PROVE  slots'[gLease[c]].state.counter = gBase[c]
    <3>1. reply[c].status \in {"none", "ok"} BY <1>4, <1>5, <2>2
    <3>2. PICK l : l = gLease[c] OBVIOUS
    <3>3. l \in DOMAIN slots /\ own[l] = c BY <1>0, <1>1, <2>2, <3>2 DEF Holding, AtWork
    <3>4. l \in DOMAIN slots' BY <1>0, <1>1, <2>2, <3>2 DEF Holding, AtWork
    <3>5. ~(k.req.op = "run" /\ k.req.lease = l)
      <4>1. SUFFICES ASSUME k.req.op = "run", k.req.lease = l PROVE FALSE OBVIOUS
      <4>2. /\ k.awaited => k.req.op = Asks(Stage(c))
            /\ ~k.awaited => GaveUp(c)
        BY <1>0, <3>3, <4>1, SlotCall
      <4>3. k.awaited => FALSE BY <1>0, <2>2, <4>1, <4>2 DEF Asks
      <4>4. ~GaveUp(c) BY <1>0, <2>2, <3>1 DEF GaveUp, Gone, Leaving
      <4>5. QED BY <4>2, <4>3, <4>4
    <3>6. slots'[l].state.counter = slots[l].state.counter BY <1>2, <3>3, <3>4, <3>5
    <3>7. QED BY <1>0, <2>2, <3>1, <3>2, <3>6 DEF GateCounts
  <2>3. QED BY <1>0, <1>3, <2>1, <2>2 DEF GateCounts
<1>9. QED BY <1>6, <1>7, <1>8 DEF GateOK

LEMMA GateGivenUp ==
  ASSUME RpcInv, WorkInv, UNCHANGED gateVars, NEW c \in Clients, RpcFails(c), NEW d \in Gates
  PROVE  GateOK(d)'
<1>1. /\ UNCHANGED <<slots, gPc, gLease, gBase, gStops, gFramesRun, gFailures>>
      /\ d \in Clients /\ GateOK(d)
      /\ reply'[d] = IF d = c THEN RpcError ELSE reply[d]
      /\ RpcError.status = "rpc" /\ calls' = GiveUp(calls, c)
      /\ faults.count \in Nat /\ faults'.count = faults.count + 1
  BY Kinds DEF gateVars, RpcFails, RpcInv, Shapes, RpcError, CountFault, WorkInv, ReportShapes
<1>2. ASSUME NEW k \in calls' PROVE \E j \in calls : k.client = j.client /\ k.req = j.req
  BY <1>1, <1>2, GivenUp, LeftCall DEF RpcInv
<1>3. GatePlan(d)' BY <1>1 DEF GateOK, GatePlan
<1>4. GateFaults(d)' BY <1>1 DEF GateOK, GateFaults
<1>5. \A k \in calls' : k.client = d /\ k.req.op = "inject" =>
        \A at \in DOMAIN k.req.events : at \in Nat /\ at > gBase[d]
  BY <1>1, <1>2 DEF GateOK, GateCounts
<1>6. GateCounts(d)' BY <1>1, <1>5 DEF GateOK, GateCounts
<1>7. QED BY <1>3, <1>4, <1>6 DEF GateOK

LEMMA GateStored ==
  ASSUME RpcInv, WorkInv, UNCHANGED gateVars, NEW k \in sealing, StoreSnapshot(k), NEW d \in Gates
  PROVE  GateOK(d)'
<1>1. /\ UNCHANGED <<slots, calls, faults, gPc, gLease, gBase, gStops, gFramesRun, gFailures>>
      /\ d \in Clients /\ GateOK(d) /\ SealOK(k) /\ Stage(d) = gPc[d]
  BY Kinds DEF gateVars, StoreSnapshot, WorkInv, RpcInv, Stage
<1>2. reply'[d] = reply[d] \/ gPc[d] = "snapshot" BY <1>1, Answers DEF StoreSnapshot, SealOK
<1>3. GatePlan(d)' BY <1>1 DEF GateOK, GatePlan
<1>4. GateFaults(d)' BY <1>1, <1>2 DEF GateOK, GateFaults, Fresh
<1>5. GateCounts(d)' BY <1>1, <1>2 DEF GateOK, GateCounts
<1>6. QED BY <1>3, <1>4, <1>5 DEF GateOK

LEMMA FaultsSeenKept ==
  ASSUME RpcInv, WorkInv, [Next]_allVars
  PROVE  FaultsSeen'
<1>0. /\ FaultsSeen /\ ReportShapes /\ faults.count \in Nat /\ faults'.count \in Nat
      /\ faults.count <= faults'.count
  BY FaultsGrow DEF WorkInv, ReportShapes
<1>1. ASSUME NEW c \in Clients, Client(c) PROVE FaultsSeen'
  BY <1>0, <1>1, ClientEffect DEF FaultsSeen
<1>2. ASSUME NEW k \in calls, Handle(k) PROVE FaultsSeen'
  <2>1. ASSUME NEW d \in Clients, reply'[d].status = "rpc" PROVE reply[d].status = "rpc"
    <3>1. k.client \in Clients /\ k.awaited \in BOOLEAN BY DEF RpcInv, CallOK
    <3>2. CASE UNCHANGED reply BY <2>1, <3>2
    <3>3. ASSUME NEW answer, Deliver(k, answer), answer.status # "rpc" PROVE reply[d].status = "rpc"
      BY <2>1, <3>1, <3>3, Answers
    <3>4. UNCHANGED reply \/ \E answer : Deliver(k, answer) /\ answer.status # "rpc"
      BY <1>2, HandleAnswers
    <3>5. QED BY <3>2, <3>3, <3>4
  <2>2. QED BY <1>0, <2>1 DEF FaultsSeen
<1>3. ASSUME NEW k \in sealing, StoreSnapshot(k) PROVE FaultsSeen'
  <2> DEFINE answer == [status |-> "ok", ref |-> SnapshotRef(k.guest)]
  <2>1. /\ answer.status = "ok" /\ Deliver(k, answer) /\ UNCHANGED faults
        /\ k.client \in Clients /\ k.awaited \in BOOLEAN
    BY <1>3 DEF StoreSnapshot, RpcInv, SealOK
  <2> HIDE DEF answer
  <2>2. \A d \in Clients : reply'[d].status = "rpc" => reply[d].status = "rpc" BY <2>1, Answers
  <2>3. QED BY <1>0, <2>1, <2>2 DEF FaultsSeen
<1>4. ASSUME NEW c \in Clients, RpcFails(c) PROVE FaultsSeen'
  BY <1>0, <1>4 DEF RpcFails, CountFault, FaultsSeen, ReportShapes
<1>5. CASE UNCHANGED allVars BY <1>0, <1>5 DEF allVars, workerVars, FaultsSeen
<1>6. ASSUME NEW c \in Suites, SuiteSteps(c) PROVE FaultsSeen' BY <1>1, <1>6, SuiteClient, Kinds
<1>7. ASSUME NEW c \in Gates, GateSteps(c) PROVE FaultsSeen' BY <1>1, <1>7, GateClient, Kinds
<1>8. QED BY <1>2, <1>3, <1>4, <1>5, <1>6, <1>7
     DEF Next, Ended, WorkerSteps, WorkerNext, Serve, ServeGivenUp, Store

LEMMA WorkKept ==
  ASSUME RpcInv, WorkInv, NEW own, OwnInv(own), [Next]_allVars
  PROVE  WorkInv'
<1>0. /\ FaultsSeen' /\ StoreOK /\ ReportShapes /\ \A d \in Gates : GateOK(d)
      /\ RecordShapes /\ ReportOK
      /\ faults'.count \in Nat /\ faults' = [count |-> faults'.count, bound |-> faults'.bound]
  BY FaultsSeenKept, FaultsGrow DEF WorkInv, ReportShapes, RecordShapes
<1>1. ASSUME StoreOK', RecordShapes', ReportOK', \A d \in Gates : GateOK(d)' PROVE WorkInv'
  BY <1>0, <1>1 DEF WorkInv, ReportShapes, RecordShapes
<1>2. ASSUME NEW c \in Suites, SuiteSteps(c) PROVE WorkInv'
  <2>1. StoreOK' /\ ReportOK' BY <1>0, <1>2, SuiteAsksRuns, StoreClient, ReportKept
  <2>2. UNCHANGED gateVars BY <1>2 DEF SuiteSteps
  <2>3. RecordShapes' /\ \A d \in Gates : Untouched(d)
    BY <1>0, <2>2 DEF gateVars, RecordShapes, Untouched
  <2>4. \A d \in Gates : GateOK(d)' BY <1>0, <1>2, <2>3, SuiteClient, OtherGates, Kinds
  <2>5. QED BY <1>1, <2>1, <2>3, <2>4
<1>3. ASSUME NEW c \in Gates, GateSteps(c) PROVE WorkInv'
  <2>1. RecordShapes' /\ Alone(c) /\ GatePlan(c)' /\ AsksRuns(c) BY <1>3, GatePlanned
  <2>2. StoreOK' /\ ReportOK' BY <1>0, <1>3, <2>1, StoreClient DEF GateSteps, driverVars, ReportOK
  <2>3. GateOK(c)' BY <1>3, <2>1, GateRecorded DEF GateOK
  <2>4. \A d \in Gates \ {c} : GateOK(d)'
    BY <1>0, <1>3, <2>1, GateClient, OtherGates, Kinds DEF Alone, Untouched
  <2>5. QED BY <1>1, <2>1, <2>2, <2>3, <2>4
<1>4. CASE WorkerSteps
  <2>1. UNCHANGED driverVars /\ UNCHANGED gateVars BY <1>4 DEF WorkerSteps
  <2>2. RecordShapes' /\ ReportOK' /\ Still
    BY <1>0, <2>1, StillWhen DEF gateVars, driverVars, RecordShapes, ReportOK
  <2>3. PICK new : OwnInv(new)' BY OwnKept DEF Inherits
  <2>4. ASSUME NEW k \in calls, Handle(k) PROVE WorkInv'
    <3>1. StoreOK' BY <1>0, <2>4, StoreServes
    <3>2. \A d \in Gates : GateOK(d)' BY <2>1, <2>2, <2>3, <2>4, GateServed DEF Handle
    <3>3. QED BY <1>1, <2>2, <3>1, <3>2
  <2>5. ASSUME NEW k \in sealing, StoreSnapshot(k) PROVE WorkInv'
    BY <1>0, <1>1, <2>1, <2>2, <2>5, StoreStores, GateStored
  <2>6. ASSUME NEW c \in Clients, RpcFails(c) PROVE WorkInv'
    BY <1>0, <1>1, <2>1, <2>2, <2>6, StoreGivesUp, GateGivenUp
  <2>7. QED BY <1>4, <2>4, <2>5, <2>6 DEF WorkerSteps, WorkerNext, Serve, ServeGivenUp, Store
<1>5. CASE UNCHANGED allVars
  <2>1. StoreOK' /\ RecordShapes' /\ ReportOK'
    BY <1>0, <1>5 DEF allVars, workerVars, gateVars, driverVars, StoreOK, SlotsOK, RecordShapes, ReportOK
  <2>2. \A d \in Gates : GateOK(d)'
    BY <1>0, <1>5 DEF allVars, workerVars, gateVars, GateOK, GatePlan, GateFaults, GateCounts
  <2>3. QED BY <1>1, <2>1, <2>2
<1>6. QED BY <1>2, <1>3, <1>4, <1>5 DEF Next, Ended

\* The guests this worker has saved before are guests.
LEMMA SavedFound ==
  ASSUME WorkerInit, NEW ref \in DOMAIN snapshots
  PROVE  snapshots[ref] \in SavedGuests
<1>1. PICK g \in SavedGuests : SnapshotRef(g) = ref BY DEF WorkerInit
<1>2. snapshots[ref] = CHOOSE guest \in SavedGuests : SnapshotRef(guest) = ref BY DEF WorkerInit
<1>3. QED BY <1>1, <1>2

LEMMA WorkStarts == BothInit => WorkInv
<1> SUFFICES ASSUME BothInit PROVE WorkInv OBVIOUS
<1>1. /\ WorkerInit /\ slots = << >> /\ calls = {} /\ sealing = {} /\ DOMAIN slots = {}
      /\ \A c \in Clients : reply[c].status = "none"
  BY DEF BothInit, Init, WorkerInit, NoReply
<1>2. \A ref \in DOMAIN snapshots : GuestOK(snapshots[ref])
  BY <1>1, SavedFound, SavedGuestsAssumption DEF GuestOK
<1>3. slots = [i \in DOMAIN slots |-> [state |-> slots[i].state, scheduled |-> slots[i].scheduled]]
  BY <1>1
<1>4. StoreOK BY <1>1, <1>2, <1>3 DEF StoreOK, SlotsOK
<1>5. ReportOK BY DEF BothInit, Init, ReportOK
<1>6. /\ faults.count \in Nat /\ faults = [count |-> faults.count, bound |-> faults.bound]
      /\ gFailures = [c \in Gates |-> {}] /\ gLease = [c \in Gates |-> 0]
      /\ gPc \in [Gates -> Fresh] /\ gOpts \in [Gates -> GateOptions]
      /\ gBase = [c \in Gates |-> 0] /\ gStops = [c \in Gates |-> {}]
      /\ gFramesRun = [c \in Gates |-> 0]
  BY <1>1 DEF WorkerInit, BothInit, G!Init, Fresh
<1>7. ReportShapes BY <1>5, <1>6 DEF ReportShapes
<1>8. ASSUME NEW c \in Gates PROVE GateOK(c)
  BY <1>1, <1>6, Kinds DEF GateOK, GatePlan, GateFaults, GateCounts, Fresh
<1>9. FaultsSeen BY <1>1 DEF FaultsSeen
<1>10. QED BY <1>4, <1>7, <1>8, <1>9 DEF WorkInv

----
(* Who answers for the slots in use. *)

\* Client c holds no slot and asks for none.
Clear(own, c) ==
  /\ \A i \in DOMAIN slots : own[i] # c
  /\ \A k \in calls : k.client = c => k.req.op # "restore"

LEMMA ClearWhenFresh ==
  ASSUME RpcInv, NEW own, OwnInv(own), NEW c \in Clients, Stage(c) \in Fresh
  PROVE  Clear(own, c)
  BY DEF RpcInv, CallOK, OwnInv, Holding, Clear

LEMMA ClearWhenReleased ==
  ASSUME RpcInv, NEW own, OwnInv(own), NEW c \in Clients, Stage(c) \in Leaving,
         reply[c].status \notin {"none", "rpc"}
  PROVE  Clear(own, c)
<1>1. \A i \in DOMAIN slots : own[i] # c BY DEF OwnInv, Holding
<1>2. Stage(c) \notin {"restore"} \cup Gone BY DEF Leaving, Gone
<1>3. QED BY <1>1, <1>2 DEF RpcInv, CallOK, Clear

\* A suite that answers for a slot does so until it has given it back.
LEMMA SuiteAnswers ==
  ASSUME VmInv, NEW own, OwnInv(own), NEW c \in Suites, SuiteSteps(c), Answerable(c)
  PROVE  Answerable(c)' \/ Clear(own, c)
<1>1. /\ c \in Clients /\ c \notin Gates /\ Stage(c) = pc[c] /\ RpcInv /\ ReportOK /\ Shapes
      /\ pc = [d \in Suites |-> pc[d]]
  BY Kinds DEF Stage, VmInv, WorkInv, ReportShapes, RpcInv, Shapes
<1>2. CASE pc[c] \in Fresh BY <1>1, <1>2, ClearWhenFresh
<1>3. CASE pc[c] = "destroy" /\ reply[c].status = "ok" BY <1>1, <1>3, ClearWhenReleased DEF Leaving
<1>4. CASE Fails(c)
  <2>1. /\ pc[c] \in {"restore", "inject", "run", "snapshot", "destroy"}
        /\ report' = [report EXCEPT ![c].failure = pc[c]]
    BY <1>4 DEF Fails
  <2>2. report'[c].failure = pc[c]
    <3>1. PICK r : r = [report[c] EXCEPT !.failure = pc[c]] OBVIOUS
    <3>2. report' = [report EXCEPT ![c] = r] /\ r.failure = pc[c]
      BY <1>1, <2>1, <3>1, ReportFields DEF ReportOK
    <3>3. QED BY <1>1, <3>2 DEF ReportOK
  <2>3. QED BY <2>1, <2>2 DEF Answerable
<1>5. CASE pc[c] # "start" /\ ~(pc[c] = "destroy" /\ reply[c].status = "ok") /\ ~Fails(c)
  <2>1. pc'[c] \notin {"start", "done", "panicked", "off"}
    <3>1. CASE Restored(c) \/ Snapshotted(c)
      <4>1. PICK l, e : InjectThenRun(c, l, e) BY <3>1, Zenon DEF Restored, Snapshotted
      <4>2. PICK s : pc' = [pc EXCEPT ![c] = s] /\ s \in AtWork BY <4>1, InjectThenRunGoes
      <4>3. QED BY <1>1, <4>2 DEF AtWork
    <3>2. CASE Injected(c) BY <1>1, <3>2 DEF Injected, Goto
    <3>3. CASE Ran(c)
      <4>1. PICK s \in {"snapshot", "destroy", "run"} : pc' = [pc EXCEPT ![c] = s]
        BY <3>3, Zenon DEF Ran, Goto
      <4>2. QED BY <1>1, <4>1
    <3>4. QED BY <1>5, <3>1, <3>2, <3>3 DEF SuiteSteps, Step, DriverStep, Connect, ConnectFails,
         ReferenceDone, SecondDone, ContinuedDone, Answered
  <2>2. QED BY <2>1 DEF Answerable
<1>6. QED BY <1>2, <1>3, <1>4, <1>5 DEF Fresh

\* A gate that answers for a slot does so until it has given it back.
LEMMA GateAnswers ==
  ASSUME VmInv, NEW own, OwnInv(own), [Next]_allVars, NEW c \in Gates, GateSteps(c),
         Answerable(c)
  PROVE  Answerable(c)' \/ Clear(own, c)
<1>1. /\ c \in Clients /\ Stage(c) = gPc[c] /\ Stage(c)' = gPc'[c] /\ RpcInv
      /\ ReportShapes /\ GateFaults(c) /\ gFailures = [d \in Gates |-> gFailures[d]]
  BY Kinds DEF Stage, VmInv, WorkInv, ReportShapes, GateOK
<1>2. faults.count \in Nat /\ faults'.count \in Nat /\ faults.count <= faults'.count
  BY <1>1, FaultsGrow DEF ReportShapes
<1>3. CASE gPc[c] \in Fresh BY <1>1, <1>3, ClearWhenFresh
<1>4. CASE gPc[c] \in Leaving /\ reply[c].status \notin {"none", "rpc"}
  BY <1>1, <1>4, ClearWhenReleased
<1>5. CASE G!RestoreFails(c)
  <2>1. "restore" \in gFailures'[c] BY <1>1, <1>5 DEF G!RestoreFails, G!Record
  <2>2. QED BY <2>1 DEF Answerable
<1>6. CASE G!CleanedUp(c) /\ reply[c].status = "rpc"
  <2>1. faults'.count >= 2 BY <1>1, <1>2, <1>6 DEF G!CleanedUp, GateFaults
  <2>2. QED BY <2>1 DEF Answerable
<1>7. CASE G!Judge(c) /\ reply[c].status # "ok"
  <2>1. "destroy" \in gFailures'[c] BY <1>1, <1>7 DEF G!Judge
  <2>2. QED BY <2>1 DEF Answerable
<1>8. ASSUME gPc'[c] \notin {"start", "done", "off"} PROVE Answerable(c)' BY <1>8 DEF Answerable
<1>9. ASSUME NEW s, NEW l, NEW r, Goes(c, s, l, r) PROVE Answerable(c)'
  BY <1>1, <1>8, <1>9 DEF Goes, Moved, AtWork, Leaving
<1>10. ASSUME NEW s, Stops(c, s), gPc[c] \notin Fresh PROVE Answerable(c)' \/ Clear(own, c)
  <2>1. gPc'[c] = s /\ s \in Gone /\ gPc[c] \notin Fresh \cup Gone /\ reply[c].status # "none"
    BY <1>1, <1>10 DEF Stops, Moved, Fresh
  <2>2. CASE s = "panicked" BY <1>8, <2>1, <2>2
  <2>3. CASE s = "done"
    <3>1. G!RestoreFails(c) \/ G!CleanedUp(c) \/ G!Judge(c)
      <4>1. gPc'[c] = "done" /\ gPc = [d \in Gates |-> gPc[d]] /\ gPc[c] \notin Fresh
        BY <1>1, <1>10, <2>1, <2>3 DEF RpcInv, Shapes
      <4>2. CASE \/ G!Connect(c) \/ G!ConnectFails(c) \/ G!Restored(c) \/ G!ReadyRead(c)
                 \/ G!Inject(c) \/ G!Injected(c) \/ G!RanAtZeroPanics(c) \/ G!CallFails(c)
                 \/ G!GeometryMismatch(c) \/ G!UnexpectedStop(c) \/ G!CaptureFails(c)
        BY <4>1, <4>2 DEF G!Connect, G!ConnectFails, G!Restored, G!ReadyRead, G!Inject,
           G!Injected, G!RanAtZeroPanics, G!CallFails, G!CleanUp, G!GeometryMismatch,
           G!UnexpectedStop, G!CaptureFails, G!Destroy, G!Goto, Fresh
      <4>3. CASE G!Ran(c) \/ G!Captured(c)
        <5>1. PICK s1 \in {"framebuffer", "run", "destroy"} : gPc' = [gPc EXCEPT ![c] = s1]
          BY <4>3, Zenon DEF G!Ran, G!Captured, G!Proceed, G!Destroy, G!Goto
        <5>2. QED BY <4>1, <5>1
      <4>4. QED BY <4>2, <4>3 DEF GateSteps, G!Step, G!DriverStep
    <3>2. QED BY <1>4, <1>5, <1>6, <1>7, <2>1, <3>1 DEF G!CleanedUp, G!Judge, Leaving
  <2>4. QED BY <2>1, <2>2, <2>3 DEF Gone
<1>11. QED BY <1>1, <1>3, <1>9, <1>10, GateClient DEF Client

\* A process that did not move answers for what it did.
LEMMA AnswersStill ==
  ASSUME VmInv, [Next]_allVars, NEW d, Answerable(d),
         d \in Suites => pc'[d] = pc[d] /\ report'[d] = report[d],
         d \in Gates => gPc'[d] = gPc[d] /\ gFailures'[d] = gFailures[d]
  PROVE  Answerable(d)'
<1>1. faults.count \in Nat /\ faults'.count \in Nat /\ faults.count <= faults'.count
  BY FaultsGrow DEF VmInv, WorkInv, ReportShapes
<1>2. QED BY <1>1 DEF Answerable

LEMMA KeepsAnswering ==
  ASSUME VmInv, NEW own, OwnInv(own), [Next]_allVars, NEW d \in Clients, Answerable(d)
  PROVE  Answerable(d)' \/ Clear(own, d)
<1>0. RpcInv /\ Shapes /\ ReportOK BY DEF VmInv, WorkInv, ReportShapes, RpcInv
<1>1. ASSUME UNCHANGED <<pc, report, gPc, gFailures>> PROVE Answerable(d)' BY <1>1, AnswersStill
<1>2. ASSUME NEW c \in Suites, SuiteSteps(c) PROVE Answerable(d)' \/ Clear(own, d)
  <2>1. CASE c = d BY <1>2, <2>1, SuiteAnswers
  <2>2. CASE c # d
    <3>1. UNCHANGED <<gPc, gFailures>> BY <1>2 DEF SuiteSteps, gateVars
    <3>2. d \in Suites => report'[d] = report[d] BY <1>0, <1>2, <2>2, ReportKept
    <3>3. d \in Suites => pc'[d] = pc[d]
      <4>1. Client(c) /\ c \in Clients BY <1>0, <1>2, SuiteClient, Kinds
      <4>2. d \in Suites => Stage(d)' = Stage(d) BY <2>2, <4>1 DEF Client, Goes, Stops, Moved
      <4>3. QED BY <4>2 DEF Stage
    <3>4. QED BY <3>1, <3>2, <3>3, AnswersStill
  <2>3. QED BY <2>1, <2>2
<1>3. ASSUME NEW c \in Gates, GateSteps(c) PROVE Answerable(d)' \/ Clear(own, d)
  <2>1. CASE c = d BY <1>3, <2>1, GateAnswers
  <2>2. CASE c # d
    <3>1. UNCHANGED <<pc, report>> BY <1>3 DEF GateSteps, driverVars
    <3>2. Alone(c) BY <1>3, GatePlanned DEF VmInv
    <3>3. d \in Gates => gPc'[d] = gPc[d] /\ gFailures'[d] = gFailures[d] BY <2>2, <3>2 DEF Alone
    <3>4. QED BY <3>1, <3>3, AnswersStill
  <2>3. QED BY <2>1, <2>2
<1>4. CASE WorkerSteps \/ UNCHANGED allVars
  BY <1>1, <1>4 DEF WorkerSteps, driverVars, gateVars, allVars
<1>5. QED BY <1>2, <1>3, <1>4 DEF Next, Ended

LEMMA AnswerKept ==
  ASSUME VmInv, NEW own, OwnInv(own), AnswerInv(own), [Next]_allVars, RpcInv', WorkInv',
         NEW new, Inherits(own, new)
  PROVE  AnswerInv(new)'
<1>1. ASSUME NEW i \in DOMAIN slots' PROVE Answerable(new[i])'
  <2>1. OwnInv(new)' BY DEF Inherits
  <2>2. new[i] \in Clients BY <2>1 DEF OwnInv, Owned
  <2>3. CASE i \in DOMAIN slots /\ new[i] = own[i]
    BY <2>2, <2>3, KeepsAnswering DEF AnswerInv, Clear
  <2>4. ASSUME NEW k \in calls, k.req.op = "restore", k.client = new[i]
        PROVE  Answerable(new[i])' BY <2>2, <2>4, KeepsAnswering DEF AnswerInv, Clear
  <2>5. QED BY <2>3, <2>4 DEF Inherits
<1>2. ASSUME NEW k \in calls', k.req.op = "restore" PROVE Answerable(k.client)'
  <2>1. k.client \in Clients /\ Stage(k.client)' \in {"restore"} \cup Gone
    BY <1>2 DEF RpcInv, CallOK
  <2>2. CASE Stage(k.client)' = "restore" BY <2>1, <2>2, Kinds DEF Stage, Answerable
  <2>3. CASE \E j \in calls : j.client = k.client /\ j.req = k.req
    <3>1. PICK j \in calls : j.client = k.client /\ j.req.op = "restore" BY <1>2, <2>3
    <3>2. QED BY <2>1, <3>1, KeepsAnswering DEF AnswerInv, Clear
  <2>4. (\E j \in calls : j.client = k.client /\ j.req = k.req) \/ Stage(k.client)' = "restore"
    <3>1. ASSUME NEW c \in Clients, Client(c)
          PROVE  (\E j \in calls : j.client = k.client /\ j.req = k.req) \/ Stage(k.client)' = "restore"
      <4>1. CASE k \in calls BY <4>1
      <4>2. CASE k \notin calls
        <5>1. PICK s, l, r : Goes(c, s, l, r) BY <3>1, <4>2 DEF Client, Stops
        <5>2. k = [client |-> c, awaited |-> TRUE, req |-> r] BY <4>2, <5>1 DEF Goes, Issue
        <5>3. Asks(s) = "restore" /\ k.client = c BY <1>2, <5>1, <5>2 DEF Goes
        <5>4. s \in AtWork \cup Leaving \cup {"restore"} BY <5>1 DEF Goes
        <5>5. s = "restore" BY <5>3, <5>4 DEF Asks, AtWork, Leaving
        <5>6. QED BY <5>1, <5>3, <5>5, <3>1 DEF Goes, Moved
      <4>3. QED BY <4>1, <4>2
    <3>2. ASSUME NEW c \in Suites, SuiteSteps(c) PROVE Client(c) /\ c \in Clients
      BY <3>2, SuiteClient, Kinds DEF VmInv
    <3>3. ASSUME NEW c \in Gates, GateSteps(c) PROVE Client(c) /\ c \in Clients
      BY <3>3, GateClient, Kinds DEF VmInv
    <3>4. ASSUME NEW c \in Clients, RpcFails(c)
          PROVE  \E j \in calls : j.client = k.client /\ j.req = k.req
      <4>1. PICK j \in calls : LeftOver(k, j, c) BY <3>4, GivenUp DEF RpcFails
      <4>2. CallOK(j) BY DEF VmInv, RpcInv
      <4>3. QED BY <4>1, <4>2, LeftCall
    <3>5. CASE WorkerSteps
      <4>1. CASE calls' \subseteq calls BY <4>1
      <4>2. CASE \E c \in Clients : RpcFails(c) BY <3>4, <4>2
      <4>3. QED BY <3>5, <4>1, <4>2
           DEF WorkerSteps, WorkerNext, Serve, ServeGivenUp, Store, Handle, StoreSnapshot
    <3>6. CASE UNCHANGED allVars BY <3>6 DEF allVars, workerVars
    <3>7. QED BY <3>1, <3>2, <3>3, <3>5, <3>6 DEF Next, Ended
  <2>5. QED BY <2>2, <2>3, <2>4
<1>3. QED BY <1>1, <1>2 DEF AnswerInv

LEMMA VmStarts == BothInit => VmInv
<1> SUFFICES ASSUME BothInit PROVE VmInv OBVIOUS
<1>1. DOMAIN slots = {} /\ calls = {} BY DEF BothInit, Init, WorkerInit
<1>2. PICK own : OwnInv(own) BY OwnStarts
<1>3. AnswerInv(own) BY <1>1 DEF AnswerInv
<1>4. QED BY <1>2, <1>3, RpcStarts, WorkStarts DEF VmInv

LEMMA VmKept == VmInv /\ [Next]_allVars => VmInv'
<1> SUFFICES ASSUME VmInv, [Next]_allVars PROVE VmInv' OBVIOUS
<1>1. RpcInv /\ WorkInv BY DEF VmInv
<1>2. PICK own : OwnInv(own) /\ AnswerInv(own) BY DEF VmInv
<1>3. RpcInv' /\ WorkInv' BY <1>1, <1>2, RpcKept, WorkKept
<1>4. PICK new : Inherits(own, new) BY <1>1, <1>2, OwnKept
<1>5. AnswerInv(new)' /\ OwnInv(new)' BY <1>2, <1>3, <1>4, AnswerKept DEF Inherits
<1>6. QED BY <1>3, <1>5 DEF VmInv

\* The calls, the owners of the slots and those who answer for them are as they should be
\* whatever processes share the worker and whatever RPCs fail.
THEOREM VmInvHolds == Spec => []VmInv
BY VmStarts, VmKept, PTL DEF Spec

----
(* What follows for the slots. *)

LEMMA Disjoint ==
  ASSUME NEW own, OwnInv(own)
  PROVE  LeasesDisjoint
<1>1. ASSUME NEW w \in Working
      PROVE  w[1] \in Clients /\ own[w[2]] = w[1]
  <2>1. CASE \E c \in Suites : w = <<c, lease[c]>> /\ pc[c] \in AtWork \cup Leaving
    <3>1. PICK c \in Suites : w = <<c, lease[c]>> /\ pc[c] \in AtWork \cup Leaving BY <2>1
    <3>2. c \in Clients /\ Stage(c) = pc[c] /\ Lease(c) = lease[c] BY Kinds DEF Stage, Lease
    <3>3. QED BY <3>1, <3>2 DEF OwnInv, Holding
  <2>2. CASE \E c \in Gates : w = <<c, gLease[c]>> /\ gPc[c] \in AtWork \cup Leaving
    <3>1. PICK c \in Gates : w = <<c, gLease[c]>> /\ gPc[c] \in AtWork \cup Leaving BY <2>2
    <3>2. c \in Clients /\ Stage(c) = gPc[c] /\ Lease(c) = gLease[c] BY Kinds DEF Stage, Lease
    <3>3. QED BY <3>1, <3>2 DEF OwnInv, Holding
  <2>3. QED BY <2>1, <2>2 DEF Working, AtWork, Leaving
<1>2. QED BY <1>1 DEF LeasesDisjoint

LEMMA Released ==
  ASSUME WorkInv, NEW own, OwnInv(own), AnswerInv(own)
  PROVE  G!SlotReleased
<1> SUFFICES ASSUME NEW c \in Gates, gPc[c] = "done", gLease[c] \in DOMAIN slots, gLease[c] # 0
             PROVE  "destroy" \in gFailures[c] \/ faults.count >= 2 BY DEF G!SlotReleased
<1>1. c \in Clients /\ c \notin Suites /\ Lease(c) = gLease[c] BY Kinds DEF Lease
<1>2. own[gLease[c]] = c BY <1>1 DEF OwnInv, Kept
<1>3. Answerable(c) BY <1>2 DEF AnswerInv
<1>4. "restore" \notin gFailures[c] BY DEF WorkInv, GateOK, GateFaults
<1>5. QED BY <1>1, <1>3, <1>4 DEF Answerable

LEMMA Accounted ==
  ASSUME NEW own, OwnInv(own), AnswerInv(own)
  PROVE  SlotsAccounted
<1> DEFINE A == {c \in Suites : \/ pc[c] \notin {"start", "done", "panicked", "off"}
                                \/ report[c].failure \notin {"none", "connect"}}
           B == {c \in Gates : \/ gPc[c] \notin {"start", "done", "off"}
                               \/ gFailures[c] \cap {"restore", "destroy"} # {}
                               \/ faults.count >= 2}
           holder == [i \in DOMAIN slots |-> own[i]]
<1>1. A \subseteq Clients /\ B \subseteq Clients /\ A \cap B = {} BY Kinds
<1>2. \A i \in DOMAIN slots : own[i] \in A \cup B BY DEF AnswerInv, Answerable
<1>3. SlotsAccounted <=> Cardinality(DOMAIN slots) <= Cardinality(A) + Cardinality(B)
  BY DEF SlotsAccounted
<1> HIDE DEF A, B
<1>4. holder \in Injection(DOMAIN slots, A \cup B)
  <2>1. holder \in [DOMAIN slots -> A \cup B] BY <1>2
  <2>2. IsInjective(holder) BY DEF OwnInv, Owned, IsInjective
  <2>3. QED BY <2>1, <2>2 DEF Injection
<1> HIDE DEF holder
<1>5. IsFiniteSet(A) /\ IsFiniteSet(B) BY <1>1, FS_Subset, ClientsAssumption
<1>6. /\ IsFiniteSet(A \cup B)
      /\ Cardinality(A \cup B) = Cardinality(A) + Cardinality(B) - Cardinality(A \cap B)
  BY <1>5, FS_Union
<1>7. Cardinality(A \cap B) = 0 BY <1>1, FS_EmptySet
<1>8. Cardinality(DOMAIN slots) <= Cardinality(A \cup B) BY <1>4, <1>6, FS_Injection
<1>9. Cardinality(A) \in Nat /\ Cardinality(B) \in Nat BY <1>5, FS_CardinalityType
<1>10. QED BY <1>3, <1>6, <1>7, <1>8, <1>9

\* The slots of one worker are shared without interference and none is lost, for any number
\* of suites and gates: no two work on one slot, every slot in use has a process that
\* answers for it, and a finished gate gave its own back (LeasesAccounted; run_iteration,
\* vm_first_room and the worker's slot map).
THEOREM LeasesAccountedHolds == Spec => []LeasesAccounted
<1>1. ASSUME VmInv PROVE LeasesAccounted
  <2>1. PICK own : OwnInv(own) /\ AnswerInv(own) BY <1>1 DEF VmInv
  <2>2. QED BY <1>1, <2>1, Disjoint, Released, Accounted DEF LeasesAccounted, VmInv
<1>2. VmInv => LeasesAccounted BY <1>1
<1>3. QED BY <1>2, VmInvHolds, PTL

----
(* What guests play.  A suite's guest plays exactly its script, whatever other processes do
   to the worker: the change-only events of each leg, split at the snapshot and seeded with
   the word at the boundary, put the guest through the script word by word.  The report then
   says of each leg at which frame it went another way.  So does a gate's guest, from stop to
   stop, and its report is about that play-through and nothing else. *)

----
(* Where a leg is. *)

AtSlot == {"inject", "run", "snapshot", "destroy"}

\* The frame a leg goes up to before the next events are injected.
Horizon(c) ==
  IF leg[c] = 0 /\ frame[c] < opts[c].snapshotAt THEN opts[c].snapshotAt ELSE opts[c].frames

\* The guest a snapshot after k frames restores, on a worker that corrupts what it restores
\* if `bad`, and that guest once the script has been played from there on.
SavedGuest(bad, o) ==
  LET saved == Played(o.script, o.snapshotAt)
  IN  [saved EXCEPT !.nonzero = IF bad THEN @ + 1 ELSE @]
Resumed(bad, o, n) ==
  LET after[i \in o.snapshotAt..n] ==
        IF i = o.snapshotAt THEN SavedGuest(bad, o)
        ELSE FrameMark(after[i-1], Entry(after[i-1].counter + 1, LiveWord(o.script, i)))
  IN  after[n]

\* The guest of a leg that has played n frames of its script word by word.
LegGuest(c, n) ==
  IF leg[c] = 2 THEN Resumed(corrupt, opts[c], n) ELSE Played(ScriptOfLeg(c), n)

\* Guest g has played n frames of the leg's script.
HasPlayed(c, g, n) ==
  g.counter = ReadyFrame + n /\ g = LegGuest(c, n)

\* From frame n to frame m the pad live for guest g is the script's word.
Follows(c, g, scheduled, n, m) ==
  \A i \in n..m : i >= 1 =>
    LivePad(g, scheduled, ReadyFrame + i) = LiveWord(ScriptOfLeg(c), i)

\* Nothing is scheduled after the snapshot before it is taken.
HeadOnly(c, scheduled) ==
  /\ DOMAIN scheduled \subseteq Nat
  /\ leg[c] = 0 /\ (frame[c] < opts[c].snapshotAt \/ pc[c] = "snapshot") =>
       \A at \in DOMAIN scheduled : at <= ReadyFrame + opts[c].snapshotAt

\* The snapshot a leg 2 restores.
MidGuest(c) == Played(opts[c].script, opts[c].snapshotAt)
MidSaved(c) ==
  /\ SnapshotRef(MidGuest(c)) \in DOMAIN snapshots
  /\ snapshots[SnapshotRef(MidGuest(c))] = MidGuest(c)
HasMid(c) ==
  leg[c] \in {1, 2} \/ (pc[c] \in AtSlot \ {"snapshot"} /\ frame[c] >= opts[c].snapshotAt)

\* The slot before and after the call of the stage.
Restoring(c) ==
  /\ reply[c].status = "none" => \A k \in calls : k.client = c =>
       k.req.ref = IF leg[c] = 2 THEN mid[c] ELSE READY
  /\ reply[c].status = "ok" =>
       /\ reply[c].guest = slots[reply[c].lease].state
       /\ slots[reply[c].lease].scheduled = << >>
       /\ HasPlayed(c, reply[c].guest, StartFrame(c))

Injecting(c) ==
  LET slot == slots[lease[c]] IN
  /\ frame[c] \in {StartFrame(c)} \cup (IF leg[c] = 0 THEN {opts[c].snapshotAt} ELSE {})
  /\ HasPlayed(c, slot.state, frame[c])
  /\ reply[c].status = "none" => \A k \in calls : k.client = c =>
       /\ \A at \in DOMAIN k.req.events : at \in Nat /\ at > ReadyFrame + frame[c]
       /\ HeadOnly(c, k.req.events)
       /\ Follows(c, slot.state, Over(k.req.events, slot.scheduled), frame[c], Horizon(c))
  /\ reply[c].status = "ok" =>
       Follows(c, slot.state, slot.scheduled, frame[c], Horizon(c))

Running(c) ==
  LET slot == slots[lease[c]]
      ran  == frame[c] + (IF reply[c].status = "ok" THEN 1 ELSE 0)
  IN  /\ frame[c] \in StartFrame(c)..(opts[c].frames - 1)
      /\ HasPlayed(c, slot.state, ran)
      /\ Follows(c, slot.state, slot.scheduled, ran, Horizon(c))
      /\ reply[c].status = "none" => \A k \in calls : k.client = c => k.req.budget = 1
      /\ reply[c].status = "ok" => reply[c].guest = slot.state

Snapshotting(c) ==
  LET slot == slots[lease[c]] IN
  /\ leg[c] = 0 /\ frame[c] = opts[c].snapshotAt
  /\ HasPlayed(c, slot.state, frame[c])
  /\ Follows(c, slot.state, slot.scheduled, frame[c], frame[c])
  /\ \A k \in sealing : k.client = c => k.guest = slot.state
  /\ reply[c].status = "ok" => reply[c].ref = SnapshotRef(slot.state) /\ MidSaved(c)

Hashed(c) ==
  /\ current[c] \in Seq(Range(current[c])) /\ Len(current[c]) = frame[c] - StartFrame(c)
  /\ \A i \in DOMAIN current[c] : current[c][i] = FrameHash(LegGuest(c, StartFrame(c) + i))

PlayInv(c) ==
  /\ reply[c].status \in {"none", "ok"}
  /\ HasMid(c) => mid[c] = SnapshotRef(MidGuest(c)) /\ MidSaved(c)
  /\ pc[c] \in AtSlot => base[c] = ReadyFrame + StartFrame(c)
  /\ pc[c] \in AtSlot \ {"destroy"} => HeadOnly(c, slots[lease[c]].scheduled)
  /\ pc[c] = "restore" => Restoring(c)
  /\ pc[c] = "inject" => Injecting(c)
  /\ pc[c] = "run" => Running(c)
  /\ pc[c] = "snapshot" => Snapshotting(c)
  /\ pc[c] = "destroy" => frame[c] = opts[c].frames
                          /\ (reply[c].status = "none" => lease[c] \in DOMAIN slots)

\* Only guests that have run are snapshotted.
SealsRan ==
  /\ \A k \in sealing : k.guest.running = TRUE
  /\ \A k \in calls : k.req.op = "snapshot" /\ k.req.lease \in DOMAIN slots =>
       slots[k.req.lease].state.running = TRUE

SuiteShapes ==
  /\ opts \in [Suites -> Options] /\ leg \in [Suites -> 0..2] /\ frame \in [Suites -> Nat]
  /\ current = [c \in Suites |-> current[c]] /\ mid = [c \in Suites |-> mid[c]]
  /\ base = [c \in Suites |-> base[c]]

PlaysInv ==
  /\ SuiteShapes /\ SealsRan
  /\ \A c \in Suites : pc[c] = "start" => leg[c] = 0
  /\ \A c \in Suites : pc[c] \in AtSlot => Hashed(c)
  /\ \A c \in Suites : pc[c] \in AtSlot \cup {"restore"} /\ reply[c].status # "rpc" => PlayInv(c)

LEMMA OptionsFacts ==
  ASSUME SuiteShapes, NEW c \in Suites
  PROVE  /\ ValidOptions(opts[c]) /\ leg[c] \in 0..2
         /\ opts[c].script \in Seq(Pads) /\ opts[c].snapshotAt \in Nat /\ opts[c].frames \in Nat
         /\ opts[c].snapshotAt >= 1 /\ opts[c].snapshotAt < opts[c].frames
<1>1. opts[c] \in Options /\ leg[c] \in 0..2 BY DEF SuiteShapes
<1>2. ValidOptions(opts[c]) BY <1>1, OptionsAssumption
<1>3. QED BY <1>1, <1>2 DEF ValidOptions

----
(* One frame of a guest. *)

LEMMA GreatestIs ==
  ASSUME NEW T \in SUBSET Nat, NEW m \in T, \A y \in T : y <= m
  PROVE  (CHOOSE at \in T : \A other \in T : other <= at) = m
<1>1. \A x, y \in T : (\A o \in T : o <= x) /\ (\A o \in T : o <= y) => x = y OBVIOUS
<1>2. QED BY <1>1

LEMMA MarkFields ==
  ASSUME NEW g, NEW scheduled
  PROVE  /\ FrameMark(g, scheduled).counter = g.counter + 1
         /\ FrameMark(g, scheduled).lastPad = LivePad(g, scheduled, g.counter + 1)
         /\ FrameMark(g, scheduled).running = TRUE
  BY DEF FrameMark

LEMMA MarkByPad ==
  ASSUME NEW g, NEW s, NEW t, LivePad(g, s, g.counter + 1) = LivePad(g, t, g.counter + 1)
  PROVE  FrameMark(g, s) = FrameMark(g, t)
  BY DEF FrameMark

LEMMA EntryLives ==
  ASSUME NEW g, NEW n \in Nat, NEW word
  PROVE  LivePad(g, Entry(n, word), n) = word
<1> DEFINE due == {at \in DOMAIN Entry(n, word) : at <= n}
<1>1. due = {n} /\ Entry(n, word)[n] = word BY DEF Entry
<1>2. LivePad(g, Entry(n, word), n) =
        IF due = {} THEN g.lastPad
        ELSE Entry(n, word)[CHOOSE at \in due : \A other \in due : other <= at]
  BY DEF LivePad
<1>3. (CHOOSE at \in due : \A other \in due : other <= at) = n BY <1>1, GreatestIs
<1> HIDE DEF due
<1>4. QED BY <1>1, <1>2, <1>3

\* What is live later is not changed by a frame that has run.
LEMMA LiveLater ==
  ASSUME NEW g, g.counter \in Nat, NEW scheduled, DOMAIN scheduled \subseteq Nat,
         NEW n \in Nat, n > g.counter
  PROVE  LivePad(FrameMark(g, scheduled), scheduled, n) = LivePad(g, scheduled, n)
<1>1. CASE {at \in DOMAIN scheduled : at <= n} = {}
  <2>1. {at \in DOMAIN scheduled : at <= g.counter + 1} = {}
    <3> SUFFICES ASSUME NEW at \in DOMAIN scheduled, at <= g.counter + 1 PROVE at <= n BY <1>1
    <3>1. QED OBVIOUS
  <2>2. QED BY <1>1, <2>1, MarkFields DEF LivePad
<1>2. CASE {at \in DOMAIN scheduled : at <= n} # {} BY <1>2 DEF LivePad
<1>3. QED BY <1>1, <1>2

LEMMA RunOne ==
  ASSUME NEW g, NEW scheduled
  PROVE  RunFrames(g, scheduled, 1) = FrameMark(g, scheduled)
<1> DEFINE f == CHOOSE f : IsRun(f, g, scheduled, 1)
<1>1. IsRun(f, g, scheduled, 1) BY RunExists
<1>2. RunFrames(g, scheduled, 1) = f[1] BY DEF RunFrames, IsRun
<1> HIDE DEF f
<1>3. 0 \in 0..1 /\ 1 \in 0..1 /\ 1 - 1 = 0 /\ 1 # 0 OBVIOUS
<1>4. f[0] = g /\ f[1] = FrameMark(f[0], scheduled) BY <1>1, <1>3 DEF IsRun
<1>5. QED BY <1>2, <1>4

\* A guest that has run goes on having run.
LEMMA RunRan ==
  ASSUME NEW g, g.running = TRUE, NEW scheduled, NEW budget \in Nat
  PROVE  RunFrames(g, scheduled, budget).running = TRUE
<1> DEFINE f == CHOOSE f : IsRun(f, g, scheduled, budget)
<1>1. IsRun(f, g, scheduled, budget) BY RunExists
<1>2. RunFrames(g, scheduled, budget) = f[budget] BY DEF RunFrames, IsRun
<1> HIDE DEF f
<1>3. CASE budget = 0
  <2>1. f[0] = g BY <1>1 DEF IsRun
  <2>2. QED BY <1>2, <1>3, <2>1
<1>4. CASE budget # 0
  <2>1. f[budget] = FrameMark(f[budget - 1], scheduled) BY <1>1, <1>4 DEF IsRun
  <2>2. PICK x : x = f[budget - 1] OBVIOUS
  <2>3. FrameMark(x, scheduled).running = TRUE BY MarkFields
  <2>4. QED BY <1>2, <2>1, <2>2, <2>3
<1>5. QED BY <1>3, <1>4

----
(* Playing a script word by word. *)

Next1(script, g, i) == FrameMark(g, Entry(g.counter + 1, LiveWord(script, i)))

IsPlay(f, first, script, k, n) ==
  f = [i \in k..n |-> IF i = k THEN first ELSE Next1(script, f[i-1], i)]

LEMMA PlayExists ==
  ASSUME NEW first, NEW script, NEW k \in Nat
  PROVE  \A n \in Nat : n >= k => \E f : IsPlay(f, first, script, k, n)
<1> DEFINE T == {n \in Nat : n >= k => \E f : IsPlay(f, first, script, k, n)}
<1>0. k \in T
  <2>1. IsPlay([i \in k..k |-> first], first, script, k, k) BY DEF IsPlay
  <2>2. QED BY <2>1
<1>1. 0 \in T BY <1>0
<1>2. ASSUME NEW n \in Nat, n \in T PROVE n + 1 \in T
  <2>1. CASE n >= k
    <3>1. PICK f : IsPlay(f, first, script, k, n) BY <1>2, <2>1
    <3> DEFINE g == [i \in k..(n+1) |-> IF i = n + 1 THEN Next1(script, f[n], n + 1) ELSE f[i]]
    <3>2. IsPlay(g, first, script, k, n + 1) BY <2>1, <3>1 DEF IsPlay
    <3>3. QED BY <3>2
  <2>2. CASE n < k
    <3>1. n + 1 >= k => n + 1 = k BY <2>2
    <3>2. QED BY <1>0, <3>1
  <2>3. QED BY <2>1, <2>2
<1> HIDE DEF T
<1>3. \A n \in Nat : n \in T BY <1>1, <1>2, Up
<1>4. QED BY <1>3 DEF T

LEMMA PlaysAgree ==
  ASSUME NEW first, NEW script, NEW k \in Nat, NEW n \in Nat, NEW m \in Nat, k <= n, n <= m,
         NEW f, NEW g, IsPlay(f, first, script, k, n), IsPlay(g, first, script, k, m)
  PROVE  f[n] = g[n]
<1> DEFINE T == {i \in Nat : k <= i /\ i <= n => f[i] = g[i]}
<1>0. f[k] = g[k] BY DEF IsPlay
<1>1. 0 \in T BY <1>0
<1>2. ASSUME NEW i \in Nat, i \in T PROVE i + 1 \in T
  <2>1. SUFFICES ASSUME k <= i + 1, i + 1 <= n PROVE f[i + 1] = g[i + 1] OBVIOUS
  <2>2. CASE i + 1 = k BY <1>0, <2>2
  <2>3. CASE i + 1 # k
    <3>1. i + 1 \in k..n /\ i + 1 \in k..m /\ (i + 1) - 1 = i /\ k <= i BY <2>1, <2>3
    <3>2. f[i + 1] = Next1(script, f[i], i + 1) /\ g[i + 1] = Next1(script, g[i], i + 1)
      BY <2>3, <3>1 DEF IsPlay
    <3>3. QED BY <1>2, <2>1, <3>1, <3>2
  <2>4. QED BY <2>2, <2>3
<1> HIDE DEF T
<1>3. \A i \in Nat : i \in T BY <1>1, <1>2, Up
<1>4. QED BY <1>3 DEF T

LEMMA PlayGoesOn ==
  ASSUME NEW first, NEW script, NEW k \in Nat, NEW n \in Nat, k <= n,
         NEW f, IsPlay(f, first, script, k, n), NEW g, IsPlay(g, first, script, k, n + 1)
  PROVE  g[n + 1] = Next1(script, f[n], n + 1)
<1>1. g[n] = f[n] BY PlaysAgree
<1>2. n + 1 \in k..(n + 1) /\ n + 1 # k /\ (n + 1) - 1 = n OBVIOUS
<1>3. g[n + 1] = Next1(script, g[n], n + 1) BY <1>2 DEF IsPlay
<1>4. QED BY <1>1, <1>3

LEMMA PlayedIs ==
  ASSUME NEW script, NEW n \in Nat
  PROVE  \E f : IsPlay(f, ReadyGuest, script, 0, n) /\ Played(script, n) = f[n]
<1> DEFINE f == CHOOSE f : IsPlay(f, ReadyGuest, script, 0, n)
<1>1. IsPlay(f, ReadyGuest, script, 0, n)
  <2>1. 0 \in Nat /\ n >= 0 OBVIOUS
  <2>2. QED BY <2>1, PlayExists
<1>2. Played(script, n) = f[n] BY DEF Played, IsPlay, Next1
<1>3. QED BY <1>1, <1>2

LEMMA PlayedStarts ==
  ASSUME NEW script
  PROVE  Played(script, 0) = ReadyGuest
<1>1. PICK f : IsPlay(f, ReadyGuest, script, 0, 0) /\ Played(script, 0) = f[0] BY PlayedIs
<1>2. QED BY <1>1 DEF IsPlay

LEMMA PlayedGoesOn ==
  ASSUME NEW script, NEW n \in Nat
  PROVE  Played(script, n + 1) = Next1(script, Played(script, n), n + 1)
<1>1. PICK f : IsPlay(f, ReadyGuest, script, 0, n) /\ Played(script, n) = f[n] BY PlayedIs
<1>2. PICK g : IsPlay(g, ReadyGuest, script, 0, n + 1) /\ Played(script, n + 1) = g[n + 1]
  BY PlayedIs
<1>3. QED BY <1>1, <1>2, PlayGoesOn

\* A continuation, likewise.
LEMMA ResumedIs ==
  ASSUME NEW bad, NEW o, o.snapshotAt \in Nat, NEW n \in Nat, n >= o.snapshotAt
  PROVE  \E f : IsPlay(f, SavedGuest(bad, o), o.script, o.snapshotAt, n) /\ Resumed(bad, o, n) = f[n]
<1> DEFINE f == CHOOSE f : IsPlay(f, SavedGuest(bad, o), o.script, o.snapshotAt, n)
<1>1. IsPlay(f, SavedGuest(bad, o), o.script, o.snapshotAt, n) BY PlayExists
<1>2. Resumed(bad, o, n) = f[n] BY DEF Resumed, IsPlay, Next1
<1>3. QED BY <1>1, <1>2

LEMMA ResumedStarts ==
  ASSUME NEW bad, NEW o, o.snapshotAt \in Nat
  PROVE  Resumed(bad, o, o.snapshotAt) = SavedGuest(bad, o)
<1>1. PICK k : k = o.snapshotAt OBVIOUS
<1>2. PICK f : IsPlay(f, SavedGuest(bad, o), o.script, k, k) /\ Resumed(bad, o, k) = f[k]
  BY <1>1, ResumedIs
<1>3. QED BY <1>1, <1>2 DEF IsPlay

LEMMA ResumedGoesOn ==
  ASSUME NEW bad, NEW o, o.snapshotAt \in Nat, NEW n \in Nat, n >= o.snapshotAt
  PROVE  Resumed(bad, o, n + 1) = Next1(o.script, Resumed(bad, o, n), n + 1)
<1>1. PICK k, first, script : k = o.snapshotAt /\ first = SavedGuest(bad, o) /\ script = o.script
  OBVIOUS
<1>2. PICK f : IsPlay(f, first, script, k, n) /\ Resumed(bad, o, n) = f[n] BY <1>1, ResumedIs
<1>3. PICK g : IsPlay(g, first, script, k, n + 1) /\ Resumed(bad, o, n + 1) = g[n + 1]
  BY <1>1, ResumedIs
<1>4. QED BY <1>1, <1>2, <1>3, PlayGoesOn

\* What a guest that has played n words shows.
PlayedOK(script, n) ==
  /\ GuestOK(Played(script, n)) /\ Played(script, n).counter = ReadyFrame + n
  /\ n >= 1 => /\ Played(script, n).running = TRUE
               /\ Played(script, n).lastPad = LiveWord(script, n)

LEMMA PlayedCounts ==
  ASSUME NEW script
  PROVE  \A n \in Nat : PlayedOK(script, n)
<1> DEFINE T == {n \in Nat : PlayedOK(script, n)}
<1>1. 0 \in T BY PlayedStarts, FixtureAssumption DEF PlayedOK, ReadyGuest, GuestOK
<1>2. ASSUME NEW n \in Nat, n \in T PROVE n + 1 \in T
  <2>1. PICK g : g = Played(script, n) OBVIOUS
  <2>2. g.counter \in Nat /\ g.counter = ReadyFrame + n BY <1>2, <2>1 DEF PlayedOK, GuestOK
  <2>3. PICK s : s = Entry(g.counter + 1, LiveWord(script, n + 1)) OBVIOUS
  <2>4. Played(script, n + 1) = FrameMark(g, s) BY <2>1, <2>3, PlayedGoesOn DEF Next1
  <2>5. GuestOK(Played(script, n + 1)) BY <2>2, <2>4, FrameCounts
  <2>6. /\ Played(script, n + 1).counter = g.counter + 1
        /\ Played(script, n + 1).running = TRUE
        /\ Played(script, n + 1).lastPad = LivePad(g, s, g.counter + 1)
    BY <2>4, MarkFields
  <2>7. g.counter + 1 = ReadyFrame + (n + 1) /\ g.counter + 1 \in Nat BY <2>2, FixtureAssumption
  <2>8. LivePad(g, s, g.counter + 1) = LiveWord(script, n + 1) BY <2>3, <2>7, EntryLives
  <2>9. QED BY <2>5, <2>6, <2>7, <2>8 DEF PlayedOK
<1> HIDE DEF T
<1>3. \A n \in Nat : n \in T BY <1>1, <1>2, Up
<1>4. QED BY <1>3 DEF T

\* A frame in which word w is live is a frame with w just injected.
LEMMA MarkWord ==
  ASSUME NEW g, g.counter \in Nat, NEW scheduled, NEW word,
         LivePad(g, scheduled, g.counter + 1) = word
  PROVE  FrameMark(g, scheduled) = FrameMark(g, Entry(g.counter + 1, word))
<1>1. LivePad(g, scheduled, g.counter + 1) = LivePad(g, Entry(g.counter + 1, word), g.counter + 1)
  BY EntryLives
<1>2. QED BY <1>1, MarkByPad

LEMMA SavedIs ==
  ASSUME NEW bad, NEW o, o.snapshotAt \in Nat, NEW m, m = Played(o.script, o.snapshotAt)
  PROVE  SavedGuest(bad, o) = IF bad THEN [m EXCEPT !.nonzero = @ + 1] ELSE m
<1>1. SavedGuest(bad, o) = [m EXCEPT !.nonzero = IF bad THEN @ + 1 ELSE @] BY DEF SavedGuest
<1>2. CASE bad BY <1>1, <1>2
<1>3. CASE ~bad
  <2>1. SavedGuest(bad, o) = [m EXCEPT !.nonzero = @] BY <1>1, <1>3
  <2>2. GuestOK(m) BY PlayedCounts DEF PlayedOK
  <2>3. [m EXCEPT !.nonzero = @] = m BY <2>2, Zenon DEF GuestOK
  <2>4. QED BY <1>3, <2>1, <2>3
<1>4. QED BY <1>2, <1>3

\* What is restored differs from what was saved in `nonzero` at most.
LEMMA SavedFields ==
  ASSUME NEW bad, NEW o, o.snapshotAt \in Nat
  PROVE  /\ SavedGuest(bad, o).counter = ReadyFrame + o.snapshotAt
         /\ o.snapshotAt >= 1 => SavedGuest(bad, o).lastPad = LiveWord(o.script, o.snapshotAt)
         /\ ~bad => SavedGuest(bad, o) = Played(o.script, o.snapshotAt)
<1>1. PICK m : m = Played(o.script, o.snapshotAt) OBVIOUS
<1>2. /\ GuestOK(m) /\ m.counter = ReadyFrame + o.snapshotAt
      /\ o.snapshotAt >= 1 => m.lastPad = LiveWord(o.script, o.snapshotAt)
  BY <1>1, PlayedCounts DEF PlayedOK
<1>3. SavedGuest(bad, o) = [m EXCEPT !.nonzero = IF bad THEN @ + 1 ELSE @] BY <1>1 DEF SavedGuest
<1>4. PICK x : x = IF bad THEN m.nonzero + 1 ELSE m.nonzero OBVIOUS
<1>5. SavedGuest(bad, o) = [m EXCEPT !.nonzero = x] BY <1>3, <1>4, Zenon
<1>6. /\ [m EXCEPT !.nonzero = x].counter = m.counter /\ [m EXCEPT !.nonzero = x].lastPad = m.lastPad
      /\ [m EXCEPT !.nonzero = m.nonzero] = m
  BY <1>2 DEF GuestOK
<1>7. ~bad => x = m.nonzero BY <1>4
<1>8. QED BY <1>1, <1>2, <1>5, <1>6, <1>7

\* A continuation of a snapshot restored as it was saved is the play itself.
LEMMA ResumedPlays ==
  ASSUME NEW bad, ~bad, NEW o, o.snapshotAt \in Nat, NEW i \in Nat
  PROVE  Resumed(bad, o, o.snapshotAt + i) = Played(o.script, o.snapshotAt + i)
<1>0. PICK k \in Nat : k = o.snapshotAt OBVIOUS
<1> DEFINE T == {j \in Nat : Resumed(bad, o, k + j) = Played(o.script, k + j)}
<1>1. 0 \in T
  <2>1. Resumed(bad, o, k) = Played(o.script, k) BY <1>0, ResumedStarts, SavedFields
  <2>2. QED BY <2>1
<1>2. ASSUME NEW j \in Nat, j \in T PROVE j + 1 \in T
  <2>1. PICK n \in Nat : n = k + j OBVIOUS
  <2>2. Resumed(bad, o, n + 1) = Next1(o.script, Resumed(bad, o, n), n + 1)
    BY <1>0, <2>1, ResumedGoesOn
  <2>3. Played(o.script, n + 1) = Next1(o.script, Played(o.script, n), n + 1) BY PlayedGoesOn
  <2>4. k + (j + 1) = n + 1 BY <2>1
  <2>5. QED BY <1>2, <2>1, <2>2, <2>3, <2>4
<1> HIDE DEF T
<1>3. \A j \in Nat : j \in T BY <1>1, <1>2, Up
<1>4. QED BY <1>0, <1>3 DEF T

\* A leg starts from READY or from its snapshot, and goes on with the words of its script.
LEMMA LegStarts ==
  ASSUME SuiteShapes, NEW c \in Suites
  PROVE  LegGuest(c, StartFrame(c)) = IF leg[c] = 2 THEN SavedGuest(corrupt, opts[c]) ELSE ReadyGuest
<1>1. opts[c].snapshotAt \in Nat BY OptionsFacts
<1>2. QED BY <1>1, ResumedStarts, PlayedStarts DEF LegGuest, StartFrame

LEMMA LegGoesOn ==
  ASSUME SuiteShapes, NEW c \in Suites, NEW n \in Nat, n >= StartFrame(c)
  PROVE  LegGuest(c, n + 1) = Next1(ScriptOfLeg(c), LegGuest(c, n), n + 1)
<1>1. opts[c].snapshotAt \in Nat BY OptionsFacts
<1>2. CASE leg[c] = 2
  <2>1. n >= opts[c].snapshotAt BY <1>2 DEF StartFrame
  <2>2. PICK bad, o : bad = corrupt /\ o = opts[c] OBVIOUS
  <2>3. Resumed(bad, o, n + 1) = Next1(o.script, Resumed(bad, o, n), n + 1)
    BY <1>1, <2>1, <2>2, ResumedGoesOn
  <2>4. QED BY <1>2, <2>2, <2>3 DEF LegGuest, ScriptOfLeg
<1>3. CASE leg[c] # 2 BY <1>3, PlayedGoesOn DEF LegGuest
<1>4. QED BY <1>2, <1>3

\* A guest that has played n words and hears the next has played n + 1.
LEMMA PlaysOn ==
  ASSUME SuiteShapes, NEW c \in Suites, NEW n \in Nat, n >= StartFrame(c),
         NEW g, HasPlayed(c, g, n), NEW scheduled,
         LivePad(g, scheduled, ReadyFrame + (n + 1)) = LiveWord(ScriptOfLeg(c), n + 1)
  PROVE  FrameMark(g, scheduled) = LegGuest(c, n + 1)
<1>1. g.counter \in Nat /\ g.counter + 1 = ReadyFrame + (n + 1) /\ g = LegGuest(c, n)
  BY FixtureAssumption DEF HasPlayed
<1>2. FrameMark(g, scheduled) = FrameMark(g, Entry(g.counter + 1, LiveWord(ScriptOfLeg(c), n + 1)))
  BY <1>1, MarkWord
<1>3. QED BY <1>1, <1>2, LegGoesOn DEF Next1

\* The last word a leg's guest has heard.
LEMMA LegHears ==
  ASSUME SuiteShapes, NEW c \in Suites, NEW n \in Nat, n >= StartFrame(c),
         n = StartFrame(c) \/ leg[c] # 2
  PROVE  LegGuest(c, n).lastPad = IF n = 0 THEN 0 ELSE LiveWord(ScriptOfLeg(c), n)
<1>1. opts[c].snapshotAt \in Nat /\ opts[c].snapshotAt >= 1 BY OptionsFacts
<1>2. CASE leg[c] = 2
  <2>1. n = opts[c].snapshotAt /\ LegGuest(c, n) = SavedGuest(corrupt, opts[c])
    BY <1>2, LegStarts DEF StartFrame
  <2>2. SavedGuest(corrupt, opts[c]).lastPad = LiveWord(opts[c].script, opts[c].snapshotAt)
    BY <1>1, SavedFields
  <2>3. QED BY <1>1, <1>2, <2>1, <2>2 DEF ScriptOfLeg
<1>3. CASE leg[c] # 2
  <2>1. LegGuest(c, n) = Played(ScriptOfLeg(c), n) BY <1>3 DEF LegGuest
  <2>2. CASE n = 0 BY <2>1, <2>2, PlayedStarts DEF ReadyGuest
  <2>3. CASE n # 0
    <3>1. n >= 1 BY <2>3
    <3>2. QED BY <2>1, <2>3, <3>1, PlayedCounts DEF PlayedOK
  <2>4. QED BY <2>2, <2>3
<1>4. QED BY <1>2, <1>3

----
(* Change-only events. *)

\* The word the events of `words` leave live after i frames.
HeldWord(words, boundary, i) ==
  IF words = << >> \/ i = 0 THEN boundary
  ELSE IF i <= Len(words) THEN words[i] ELSE words[Len(words)]

\* m is the last event due, if any is.
LastDue(events, n, m) == m \in DOMAIN events /\ m <= n /\ \A at \in DOMAIN events : at <= n => at <= m

LEMMA EventFacts ==
  ASSUME NEW S, NEW words \in Seq(S), NEW start \in Nat, NEW boundary
  PROVE  LET E == ChangeEvents(words, start, boundary) IN
         /\ \A at \in DOMAIN E : at \in Nat /\ at > start /\ at <= start + Len(words)
         /\ \A i \in 1..Len(words) :
              start + i \in DOMAIN E <=> words[i] # IF i = 1 THEN boundary ELSE words[i-1]
         /\ \A i \in 1..Len(words) : start + i \in DOMAIN E => E[start + i] = words[i]
<1> DEFINE changed == {i \in DOMAIN words : words[i] # IF i = 1 THEN boundary ELSE words[i-1]}
           E == ChangeEvents(words, start, boundary)
<1>1. E = [at \in {start + i : i \in changed} |-> words[at - start]] BY DEF ChangeEvents
<1>2. changed \subseteq 1..Len(words) OBVIOUS
<1>3. \A at \in DOMAIN E : at \in Nat /\ at > start /\ at <= start + Len(words) BY <1>1, <1>2
<1>4. \A i \in 1..Len(words) : start + i \in DOMAIN E <=> i \in changed BY <1>1, <1>2
<1>5. \A i \in 1..Len(words) : start + i \in DOMAIN E => E[start + i] = words[i] BY <1>1
<1>6. QED BY <1>3, <1>4, <1>5

\* The words of a script are live in their frames when nothing is live but what its events
\* make so and the boundary word before them.
EventsHold(E, words, start, boundary, i) ==
  \/ /\ \A at \in DOMAIN E : at > start + i
     /\ HeldWord(words, boundary, i) = boundary
  \/ \E m : LastDue(E, start + i, m) /\ E[m] = HeldWord(words, boundary, i)

LEMMA EventsPlay ==
  ASSUME NEW S, NEW words \in Seq(S), NEW start \in Nat, NEW boundary
  PROVE  \A i \in Nat : EventsHold(ChangeEvents(words, start, boundary), words, start, boundary, i)
<1> DEFINE E == ChangeEvents(words, start, boundary)
           T == {i \in Nat : EventsHold(E, words, start, boundary, i)}
<1>0. /\ \A at \in DOMAIN E : at \in Nat /\ at > start /\ at <= start + Len(words)
      /\ \A i \in 1..Len(words) :
           start + i \in DOMAIN E <=> words[i] # IF i = 1 THEN boundary ELSE words[i-1]
      /\ \A i \in 1..Len(words) : start + i \in DOMAIN E => E[start + i] = words[i]
  BY EventFacts
<1> HIDE DEF E
<1>1. 0 \in T BY <1>0 DEF EventsHold, HeldWord
<1>2. ASSUME NEW i \in Nat, i \in T PROVE i + 1 \in T
  <2>0. EventsHold(E, words, start, boundary, i) BY <1>2
  <2>1. CASE i + 1 > Len(words)
    <3>1. HeldWord(words, boundary, i + 1) = HeldWord(words, boundary, i) BY <2>1 DEF HeldWord
    <3>2. \A at \in DOMAIN E : at <= start + i BY <1>0, <2>1
    <3>3. \A m : LastDue(E, start + i, m) => LastDue(E, start + (i + 1), m)
      BY <1>0, <3>2 DEF LastDue
    <3>4. (\A at \in DOMAIN E : at > start + i) => (\A at \in DOMAIN E : at > start + (i + 1))
      BY <1>0, <3>2
    <3>5. QED BY <2>0, <3>1, <3>3, <3>4 DEF EventsHold
  <2>2. CASE i + 1 <= Len(words)
    <3>1. /\ i + 1 \in 1..Len(words) /\ words # << >> /\ Len(words) \in Nat
          /\ HeldWord(words, boundary, i + 1) = words[i + 1]
          /\ HeldWord(words, boundary, i) = IF i + 1 = 1 THEN boundary ELSE words[(i + 1) - 1]
      BY <2>2 DEF HeldWord
    <3>2. CASE start + (i + 1) \in DOMAIN E
      <4>1. E[start + (i + 1)] = HeldWord(words, boundary, i + 1) BY <1>0, <3>1, <3>2
      <4>2. LastDue(E, start + (i + 1), start + (i + 1)) BY <3>2 DEF LastDue
      <4>3. QED BY <4>1, <4>2 DEF EventsHold
    <3>3. CASE start + (i + 1) \notin DOMAIN E
      <4>1. HeldWord(words, boundary, i + 1) = HeldWord(words, boundary, i) BY <1>0, <3>1, <3>3
      <4>2. \A at \in DOMAIN E : at <= start + (i + 1) <=> at <= start + i
        <5> TAKE at \in DOMAIN E
        <5>1. at \in Nat /\ at # start + (i + 1) BY <1>0, <3>3
        <5>2. QED BY <5>1
      <4>3. \A m : LastDue(E, start + i, m) => LastDue(E, start + (i + 1), m)
        BY <1>0, <4>2 DEF LastDue
      <4>4. (\A at \in DOMAIN E : at > start + i) => (\A at \in DOMAIN E : at > start + (i + 1))
        BY <1>0, <4>2
      <4>5. QED BY <2>0, <4>1, <4>3, <4>4 DEF EventsHold
    <3>4. QED BY <3>2, <3>3
  <2>3. QED BY <2>1, <2>2
<1> HIDE DEF T
<1>3. \A i \in Nat : i \in T BY <1>1, <1>2, Up
<1>4. QED BY <1>3 DEF T, E

LEMMA LastDueLives ==
  ASSUME NEW g, NEW scheduled, DOMAIN scheduled \subseteq Nat, NEW n \in Nat, NEW m,
         LastDue(scheduled, n, m)
  PROVE  LivePad(g, scheduled, n) = scheduled[m]
<1> DEFINE due == {at \in DOMAIN scheduled : at <= n}
<1>1. due \in SUBSET Nat /\ m \in due /\ \A y \in due : y <= m BY DEF LastDue
<1>2. LivePad(g, scheduled, n) =
        IF due = {} THEN g.lastPad
        ELSE scheduled[CHOOSE at \in due : \A other \in due : other <= at]
  BY DEF LivePad
<1> HIDE DEF due
<1>3. (CHOOSE at \in due : \A other \in due : other <= at) = m BY <1>1, GreatestIs
<1>4. QED BY <1>1, <1>2, <1>3

LEMMA OverFacts ==
  ASSUME NEW new, NEW old
  PROVE  /\ DOMAIN Over(new, old) = DOMAIN new \cup DOMAIN old
         /\ \A k \in DOMAIN new : Over(new, old)[k] = new[k]
         /\ \A k \in DOMAIN old : k \notin DOMAIN new => Over(new, old)[k] = old[k]
  BY DEF Over

\* The events of `words` from a frame on, put over a schedule of earlier ones that leaves
\* the boundary word live, play the words.
LEMMA InjectionPlays ==
  ASSUME NEW S, NEW words \in Seq(S), NEW start \in Nat, NEW boundary, NEW g, NEW old,
         \A at \in DOMAIN old : at \in Nat /\ at <= start,
         LivePad(g, old, start) = boundary, NEW i \in Nat
  PROVE  LivePad(g, Over(ChangeEvents(words, start, boundary), old), start + i) =
           HeldWord(words, boundary, i)
<1> DEFINE E == ChangeEvents(words, start, boundary)
           all == Over(E, old)
<1>1. /\ \A at \in DOMAIN E : at \in Nat /\ at > start
      /\ EventsHold(E, words, start, boundary, i)
  BY EventFacts, EventsPlay
<1> HIDE DEF E
<1>2. /\ DOMAIN all = DOMAIN E \cup DOMAIN old
      /\ \A k \in DOMAIN E : all[k] = E[k]
      /\ \A k \in DOMAIN old : k \notin DOMAIN E => all[k] = old[k]
  BY OverFacts
<1> HIDE DEF all
<1>3. ASSUME NEW m, LastDue(E, start + i, m), E[m] = HeldWord(words, boundary, i)
      PROVE  LivePad(g, all, start + i) = HeldWord(words, boundary, i)
  <2>1. LastDue(all, start + i, m) BY <1>1, <1>2, <1>3 DEF LastDue
  <2>2. DOMAIN all \subseteq Nat /\ start + i \in Nat BY <1>1, <1>2
  <2>3. LivePad(g, all, start + i) = all[m] BY <2>1, <2>2, LastDueLives
  <2>4. QED BY <1>2, <1>3, <2>3 DEF LastDue
<1>4. ASSUME \A at \in DOMAIN E : at > start + i, HeldWord(words, boundary, i) = boundary
      PROVE  LivePad(g, all, start + i) = HeldWord(words, boundary, i)
  <2>1. \A at \in DOMAIN all : at <= start + i => at \in DOMAIN old /\ at <= start
    BY <1>1, <1>2, <1>4
  <2>2. \A at \in DOMAIN old : at \in DOMAIN all /\ all[at] = old[at] /\ at <= start + i
    BY <1>1, <1>2
  <2>3. DOMAIN all \subseteq Nat /\ start + i \in Nat /\ DOMAIN old \subseteq Nat BY <1>1, <1>2
  <2>4. CASE DOMAIN old = {}
    <3>1. LivePad(g, all, start + i) = g.lastPad BY <2>1, <2>4 DEF LivePad
    <3>2. LivePad(g, old, start) = g.lastPad BY <2>4 DEF LivePad
    <3>3. QED BY <1>4, <3>1, <3>2
  <2>5. CASE DOMAIN old # {}
    <3>0. DOMAIN old \in SUBSET (0..start) OBVIOUS
    <3>1. PICK m \in DOMAIN old : \A at \in DOMAIN old : at <= m BY <2>5, <3>0, Greatest
    <3>2. LastDue(old, start, m) /\ LastDue(all, start + i, m) BY <2>1, <2>2, <3>1 DEF LastDue
    <3>3. LivePad(g, old, start) = old[m] /\ LivePad(g, all, start + i) = all[m]
      BY <2>3, <3>2, LastDueLives
    <3>4. QED BY <1>4, <2>2, <3>1, <3>3
  <2>6. QED BY <2>4, <2>5
<1>5. QED BY <1>1, <1>3, <1>4 DEF EventsHold, all, E

LEMMA OverNone ==
  ASSUME NEW new, DOMAIN new = {}, NEW old, DOMAIN old \subseteq Nat, NEW g, NEW n \in Nat
  PROVE  LivePad(g, Over(new, old), n) = LivePad(g, old, n)
<1> DEFINE all == Over(new, old)
           due == {at \in DOMAIN old : at <= n}
<1>0. /\ DOMAIN all = DOMAIN new \cup DOMAIN old
      /\ \A k \in DOMAIN old : k \notin DOMAIN new => all[k] = old[k]
  BY OverFacts
<1> HIDE DEF all
<1>1. DOMAIN all = DOMAIN old /\ \A k \in DOMAIN old : all[k] = old[k] BY <1>0
<1>2. CASE due = {}
  <2>1. {at \in DOMAIN all : at <= n} = {} BY <1>1, <1>2
  <2>2. LivePad(g, all, n) = g.lastPad BY <2>1 DEF LivePad
  <2>3. LivePad(g, old, n) = g.lastPad BY <1>2 DEF LivePad
  <2>4. QED BY <2>2, <2>3 DEF all
<1>3. CASE due # {}
  <2>0. due \in SUBSET (0..n) OBVIOUS
  <2>1. PICK m \in due : \A at \in due : at <= m
    <3> HIDE DEF due
    <3>1. QED BY <1>3, <2>0, Greatest
  <2>2. LastDue(old, n, m) /\ LastDue(all, n, m) BY <1>1, <2>1 DEF LastDue
  <2>3. LivePad(g, old, n) = old[m] /\ LivePad(g, all, n) = all[m] BY <1>1, <2>2, LastDueLives
  <2>4. QED BY <1>1, <2>1, <2>3 DEF all
<1>4. QED BY <1>2, <1>3

----
(* The words of the legs. *)

LEMMA WholeWords ==
  ASSUME NEW S, NEW script \in Seq(S), NEW i \in Nat, i >= 1
  PROVE  HeldWord(script, 0, i) = LiveWord(script, i)
  BY DEF HeldWord, LiveWord

LEMMA HeadOfScript ==
  ASSUME NEW S, NEW script \in Seq(S), NEW k \in Nat, NEW i \in Nat, i >= 1, i <= k
  PROVE  LET head == SubSeq(script, 1, IF k <= Len(script) THEN k ELSE Len(script))
         IN  head \in Seq(S) /\ HeldWord(head, 0, i) = LiveWord(script, i)
<1> DEFINE m == IF k <= Len(script) THEN k ELSE Len(script)
           head == SubSeq(script, 1, m)
<1>1. m \in Nat /\ m <= Len(script) /\ Len(script) \in Nat OBVIOUS
<1>2. head \in Seq(S) /\ Len(head) = m /\ \A j \in 1..m : head[j] = script[j] BY <1>1
<1>3. CASE script = << >>
  <2>1. Len(head) = 0 BY <1>2, <1>3
  <2>2. head = << >> BY <1>2, <2>1
  <2>3. QED BY <1>2, <1>3, <2>2 DEF HeldWord, LiveWord
<1>4. CASE script # << >>
  <2>1. Len(script) > 0 /\ m >= 1 /\ head # << >> BY <1>1, <1>2, <1>4
  <2> HIDE DEF head
  <2>2. CASE i <= m BY <1>1, <1>2, <1>4, <2>1, <2>2 DEF HeldWord, LiveWord
  <2>3. CASE i > m
    <3>1. m = Len(script) /\ head[m] = script[m] BY <1>1, <1>2, <2>1, <2>3
    <3>2. HeldWord(head, 0, i) = head[m] BY <1>1, <1>2, <2>1, <2>3 DEF HeldWord
    <3>3. LiveWord(script, i) = script[m] BY <1>1, <1>4, <2>3, <3>1 DEF LiveWord
    <3>4. QED BY <1>2, <3>1, <3>2, <3>3 DEF head
  <2>4. QED BY <1>1, <1>2, <2>2, <2>3 DEF head
<1>5. QED BY <1>3, <1>4

LEMMA TailOfScript ==
  ASSUME NEW S, NEW script \in Seq(S), NEW k \in Nat, k >= 1, NEW i \in Nat
  PROVE  LET tail == SubSeq(script, k + 1, Len(script))
         IN  /\ tail \in Seq(S)
             /\ HeldWord(tail, LiveWord(script, k), i) = LiveWord(script, k + i)
<1> DEFINE tail == SubSeq(script, k + 1, Len(script))
<1>1. tail \in Seq(S) /\ Len(script) \in Nat OBVIOUS
<1>2. CASE k >= Len(script)
  <2>1. tail = << >> BY <1>1, <1>2
  <2>2. QED BY <1>1, <1>2, <2>1 DEF HeldWord, LiveWord
<1>3. CASE k < Len(script)
  <2>1. Len(tail) = Len(script) - k /\ \A j \in 1..Len(tail) : tail[j] = script[k + j] BY <1>1, <1>3
  <2> HIDE DEF tail
  <2>2. Len(tail) >= 1 /\ tail # << >> /\ script # << >> BY <1>1, <1>3, <2>1
  <2>3. PICK n : n = Len(tail) OBVIOUS
  <2>4. n \in Nat /\ n \in 1..n /\ k + n = Len(script) BY <1>1, <1>3, <2>1, <2>2, <2>3
  <2>5. tail[n] = script[Len(script)] BY <2>1, <2>3, <2>4
  <2>6. CASE i = 0 BY <1>1, <1>3, <2>2, <2>6 DEF HeldWord, tail
  <2>7. CASE i >= 1 /\ i <= n
    <3>1. HeldWord(tail, LiveWord(script, k), i) = tail[i] BY <2>2, <2>3, <2>7 DEF HeldWord
    <3>2. LiveWord(script, k + i) = script[k + i] BY <2>2, <2>4, <2>7 DEF LiveWord
    <3>3. tail[i] = script[k + i] BY <2>1, <2>3, <2>4, <2>7
    <3>4. QED BY <1>1, <3>1, <3>2, <3>3 DEF tail
  <2>8. CASE i > n
    <3>1. HeldWord(tail, LiveWord(script, k), i) = tail[n] BY <2>2, <2>3, <2>4, <2>8 DEF HeldWord
    <3>2. LiveWord(script, k + i) = script[Len(script)] BY <1>1, <2>2, <2>4, <2>8 DEF LiveWord
    <3>3. QED BY <1>1, <2>5, <3>1, <3>2 DEF tail
  <2>9. QED BY <2>4, <2>6, <2>7, <2>8
<1>4. QED BY <1>2, <1>3

LEMMA SecondIsScript ==
  ASSUME NEW o, o.script \in Seq(Pads)
  PROVE  \E S : SecondScript(o) \in Seq(S)
<1>1. PICK script : script = o.script OBVIOUS
<1>2. PICK p : p = PerturbedIndex(o) OBVIOUS
<1>3. PICK word : word = FlipLowBit(script[p]) OBVIOUS
<1>4. PICK S : S = Pads \cup {word} OBVIOUS
<1>5. /\ script = [i \in 1..Len(script) |-> script[i]] /\ Len(script) \in Nat
      /\ \A i \in 1..Len(script) : script[i] \in S
  BY <1>1, <1>4
<1>6. script \in Seq(S) /\ [script EXCEPT ![p] = word] \in Seq(S)
  <2>1. [script EXCEPT ![p] = word] = [i \in 1..Len(script) |-> IF i = p THEN word ELSE script[i]]
    BY <1>5
  <2>2. [i \in 1..Len(script) |-> IF i = p THEN word ELSE script[i]] \in Seq(S) BY <1>4, <1>5
  <2>3. [i \in 1..Len(script) |-> script[i]] \in Seq(S) BY <1>5
  <2>4. QED BY <1>5, <2>1, <2>2, <2>3
<1>7. SecondScript(o) \in {script, [script EXCEPT ![p] = word]} BY <1>1, <1>2, <1>3 DEF SecondScript
<1>8. QED BY <1>6, <1>7

\* A ref names a guest that has run.
LEMMA RefOfGuest ==
  ASSUME NEW g, GuestOK(g), g.running = TRUE, NEW h, GuestOK(h), h.running = TRUE,
         SnapshotRef(g) = SnapshotRef(h)
  PROVE  g = h
<1>1. /\ g.counter = h.counter /\ g.room = h.room /\ g.nonzero = h.nonzero
      /\ g.lastPad = h.lastPad /\ g.metaFrame = h.metaFrame
  BY DEF SnapshotRef, StateHash
<1>2. QED BY <1>1 DEF GuestOK

LEMMA RefNotReady ==
  ASSUME NEW g
  PROVE  SnapshotRef(g) # READY
  BY DEF SnapshotRef, StateHash, READY

----
(* What a leg injects. *)

\* The events of a leg that has played n frames.
EventsFrom(c, n) ==
  IF leg[c] = 1 THEN ChangeEvents(SecondScript(opts[c]), ReadyFrame, 0)
  ELSE IF n = 0 THEN ChangeEvents(HeadWords(opts[c]), ReadyFrame, 0)
  ELSE ChangeEvents(TailWords(opts[c]), ReadyFrame + n, Boundary(opts[c]))

\* A leg injects at its start, and leg 0 again at the snapshot.
InjectsAt(c, n) ==
  \/ leg[c] \in {0, 1} /\ n = 0
  \/ leg[c] \in {0, 2} /\ n = opts[c].snapshotAt

\* Guest g has played n frames, and its schedule ends with the last of their words.
Primed(c, g, old, n) ==
  /\ HasPlayed(c, g, n) /\ DOMAIN old \subseteq Nat /\ \A at \in DOMAIN old : at <= ReadyFrame + n
  /\ LivePad(g, old, ReadyFrame + n) = IF n = 0 THEN 0 ELSE LiveWord(ScriptOfLeg(c), n)

UpTo(c, n) == IF leg[c] = 0 /\ n = 0 THEN opts[c].snapshotAt ELSE opts[c].frames

InjectsWell(c, g, old, n) ==
  /\ \A at \in DOMAIN EventsFrom(c, n) : at \in Nat /\ at > ReadyFrame + n
  /\ leg[c] = 0 /\ n = 0 =>
       \A at \in DOMAIN EventsFrom(c, n) : at <= ReadyFrame + opts[c].snapshotAt
  /\ Follows(c, g, Over(EventsFrom(c, n), old), n, UpTo(c, n))

LEMMA LegInjects ==
  ASSUME SuiteShapes, NEW c \in Suites, NEW n, InjectsAt(c, n), NEW g, NEW old,
         Primed(c, g, old, n)
  PROVE  InjectsWell(c, g, old, n)
<1>0. /\ opts[c].script \in Seq(Pads) /\ opts[c].snapshotAt \in Nat /\ opts[c].frames \in Nat
      /\ opts[c].snapshotAt >= 1 /\ opts[c].snapshotAt < opts[c].frames
      /\ leg[c] \in 0..2 /\ n \in Nat
  BY OptionsFacts DEF InjectsAt
<1>1. ASSUME NEW S, NEW words \in Seq(S), NEW boundary, NEW start \in Nat,
             EventsFrom(c, n) = ChangeEvents(words, start, boundary), start = ReadyFrame + n,
             boundary = IF n = 0 THEN 0 ELSE LiveWord(ScriptOfLeg(c), n),
             \A i \in Nat : n + i >= 1 /\ n + i <= UpTo(c, n) =>
               HeldWord(words, boundary, i) = LiveWord(ScriptOfLeg(c), n + i),
             leg[c] = 0 /\ n = 0 => Len(words) <= opts[c].snapshotAt
      PROVE  InjectsWell(c, g, old, n)
  <2>1. \A at \in DOMAIN EventsFrom(c, n) : at \in Nat /\ at > start /\ at <= start + Len(words)
    BY <1>1, EventFacts
  <2>2. Len(words) \in Nat BY <1>1
  <2>3. ASSUME NEW j \in n..UpTo(c, n), j >= 1
        PROVE  LivePad(g, Over(EventsFrom(c, n), old), ReadyFrame + j) = LiveWord(ScriptOfLeg(c), j)
    <3>1. j \in Nat /\ n \in Nat /\ UpTo(c, n) \in Nat BY <1>0, <2>3 DEF UpTo
    <3>2. PICK i \in Nat : j = n + i
      <4>1. j - n \in Nat /\ j = n + (j - n) BY <2>3, <3>1
      <4>2. QED BY <4>1
    <3>3. /\ \A at \in DOMAIN old : at \in Nat /\ at <= start
          /\ LivePad(g, old, start) = boundary
      BY <1>1, <2>3 DEF Primed
    <3>4. LivePad(g, Over(ChangeEvents(words, start, boundary), old), start + i) =
            HeldWord(words, boundary, i)
      BY <1>1, <3>2, <3>3, InjectionPlays
    <3>5. start + i = ReadyFrame + j BY <1>1, <3>1, <3>2, FixtureAssumption
    <3>6. HeldWord(words, boundary, i) = LiveWord(ScriptOfLeg(c), j) BY <1>1, <2>3, <3>1, <3>2
    <3>7. QED BY <1>1, <3>4, <3>5, <3>6
  <2>4. leg[c] = 0 /\ n = 0 =>
          \A at \in DOMAIN EventsFrom(c, n) : at <= ReadyFrame + opts[c].snapshotAt
    BY <1>0, <1>1, <2>1, <2>2, FixtureAssumption
  <2>5. QED BY <1>1, <2>1, <2>3, <2>4 DEF InjectsWell, Follows
<1>2. CASE leg[c] = 1
  <2>1. n = 0 /\ ScriptOfLeg(c) = SecondScript(opts[c]) BY <1>2 DEF InjectsAt, ScriptOfLeg
  <2>2. PICK S : SecondScript(opts[c]) \in Seq(S) BY <1>0, SecondIsScript
  <2>3. PICK words : words = SecondScript(opts[c]) OBVIOUS
  <2>4. \A i \in Nat : i >= 1 => HeldWord(words, 0, i) = LiveWord(words, i)
    BY <2>2, <2>3, WholeWords
  <2>5. EventsFrom(c, n) = ChangeEvents(words, ReadyFrame, 0) BY <1>2, <2>3 DEF EventsFrom
  <2>6. ReadyFrame \in Nat /\ ReadyFrame = ReadyFrame + n BY <2>1, FixtureAssumption
  <2>7. QED BY <1>1, <1>2, <2>1, <2>2, <2>3, <2>4, <2>5, <2>6
<1>3. CASE leg[c] = 0 /\ n = 0
  <2>1. ScriptOfLeg(c) = opts[c].script /\ UpTo(c, n) = opts[c].snapshotAt
    BY <1>3 DEF ScriptOfLeg, UpTo
  <2>2. PICK words : words = HeadWords(opts[c]) OBVIOUS
  <2>3. PICK script \in Seq(Pads), k \in Nat : script = opts[c].script /\ k = opts[c].snapshotAt
    BY <1>0
  <2>4. /\ words = SubSeq(script, 1, IF k <= Len(script) THEN k ELSE Len(script))
        /\ Len(script) \in Nat
    BY <2>2, <2>3 DEF HeadWords
  <2>5. words \in Seq(Pads) /\ Len(words) <= k BY <2>4
  <2>6. \A i \in Nat : i >= 1 /\ i <= k => HeldWord(words, 0, i) = LiveWord(script, i)
    BY <2>4, HeadOfScript
  <2>7. EventsFrom(c, n) = ChangeEvents(words, ReadyFrame, 0) BY <1>3, <2>2 DEF EventsFrom
  <2>8. ReadyFrame \in Nat /\ ReadyFrame = ReadyFrame + n BY <1>3, FixtureAssumption
  <2>9. QED BY <1>1, <1>3, <2>1, <2>3, <2>5, <2>6, <2>7, <2>8
<1>4. CASE leg[c] # 1 /\ n # 0
  <2>1. ScriptOfLeg(c) = opts[c].script /\ n = opts[c].snapshotAt BY <1>4 DEF ScriptOfLeg, InjectsAt
  <2>2. PICK words : words = TailWords(opts[c]) OBVIOUS
  <2>3. PICK script \in Seq(Pads), k \in Nat : script = opts[c].script /\ k = opts[c].snapshotAt
    BY <1>0
  <2>4. words = SubSeq(script, k + 1, Len(script)) /\ Boundary(opts[c]) = LiveWord(script, k)
    BY <2>2, <2>3 DEF TailWords, Boundary
  <2>5. /\ words \in Seq(Pads)
        /\ \A i \in Nat : HeldWord(words, LiveWord(script, k), i) = LiveWord(script, k + i)
    BY <1>0, <2>3, <2>4, TailOfScript
  <2>6. PICK boundary, start : boundary = Boundary(opts[c]) /\ start = ReadyFrame + n OBVIOUS
  <2>7. start \in Nat /\ EventsFrom(c, n) = ChangeEvents(words, start, boundary)
    BY <1>0, <1>4, <2>2, <2>6, FixtureAssumption DEF EventsFrom
  <2>8. /\ boundary = LiveWord(ScriptOfLeg(c), n)
        /\ \A i \in Nat : HeldWord(words, boundary, i) = LiveWord(ScriptOfLeg(c), n + i)
    BY <2>1, <2>3, <2>4, <2>5, <2>6
  <2>9. words \in Seq(Pads) BY <2>5
  <2>10. QED BY <1>1, <1>4, <2>6, <2>7, <2>8, <2>9
<1>5. QED BY <1>0, <1>2, <1>3, <1>4 DEF InjectsAt

----
(* Steps that leave a suite as it is. *)

\* Nothing a suite knows changes, and nothing of its slot.
Rests(d) ==
  /\ corrupt' = corrupt /\ opts'[d] = opts[d] /\ pc'[d] = pc[d] /\ leg'[d] = leg[d]
  /\ lease'[d] = lease[d] /\ base'[d] = base[d] /\ frame'[d] = frame[d]
  /\ current'[d] = current[d] /\ mid'[d] = mid[d]
  /\ reply'[d] = reply[d]
  /\ \A k \in calls' : k.client = d => k \in calls
  /\ \A k \in sealing' : k.client = d => k \in sealing
  /\ MidSaved(d) => MidSaved(d)'

SlotRests(i) == (i \in DOMAIN slots => i \in DOMAIN slots') /\ slots'[i] = slots[i]

LEMMA PlayRests ==
  ASSUME NEW d \in Suites, Rests(d), PlayInv(d),
         pc[d] = "restore" /\ reply[d].status = "ok" => SlotRests(reply[d].lease),
         pc[d] \in AtSlot \ {"destroy"} => SlotRests(lease[d]),
         pc[d] = "destroy" /\ lease[d] \in DOMAIN slots => SlotRests(lease[d])
  PROVE  PlayInv(d)'
<1>1. /\ (\A j : LegGuest(d, j)' = LegGuest(d, j))
      /\ ScriptOfLeg(d)' = ScriptOfLeg(d) /\ Horizon(d)' = Horizon(d)
      /\ StartFrame(d)' = StartFrame(d) /\ MidGuest(d)' = MidGuest(d) /\ HasMid(d)' = HasMid(d)
  BY DEF Rests, LegGuest, ScriptOfLeg, Horizon, StartFrame, MidGuest, HasMid
<1>2. \A g, n : HasPlayed(d, g, n) => HasPlayed(d, g, n)' BY <1>1 DEF HasPlayed
<1>3. \A g, s, n, m : Follows(d, g, s, n, m) => Follows(d, g, s, n, m)' BY <1>1 DEF Follows
<1>4. \A s : HeadOnly(d, s) => HeadOnly(d, s)' BY DEF HeadOnly, Rests
<1>5. HasMid(d)' => mid'[d] = SnapshotRef(MidGuest(d)') /\ MidSaved(d)' BY <1>1 DEF PlayInv, Rests
<1>6. pc'[d] \in AtSlot => base'[d] = ReadyFrame + StartFrame(d)' BY <1>1 DEF PlayInv, Rests
<1>7. pc'[d] \in AtSlot \ {"destroy"} => HeadOnly(d, slots[lease[d]].scheduled)'
  BY <1>4 DEF PlayInv, Rests, SlotRests, HeadOnly
<1>8. pc'[d] = "restore" => Restoring(d)'
  BY <1>1 DEF PlayInv, Rests, SlotRests, Restoring, HasPlayed
<1>9. pc'[d] = "inject" => Injecting(d)'
  BY <1>1 DEF PlayInv, Rests, SlotRests, Injecting, HasPlayed, Follows, HeadOnly, AtSlot
<1>10. pc'[d] = "run" => Running(d)'
  BY <1>1 DEF PlayInv, Rests, SlotRests, Running, HasPlayed, Follows, AtSlot
<1>11. pc'[d] = "snapshot" => Snapshotting(d)'
  BY <1>1 DEF PlayInv, Rests, SlotRests, Snapshotting, HasPlayed, Follows, AtSlot
<1>12. pc'[d] = "destroy" => /\ frame'[d] = opts'[d].frames
                             /\ reply'[d].status = "none" => lease'[d] \in DOMAIN slots'
  BY DEF PlayInv, Rests, SlotRests
<1>13. QED BY <1>5, <1>6, <1>7, <1>8, <1>9, <1>10, <1>11, <1>12 DEF PlayInv, Rests

Playing(c) == c \in Suites /\ pc[c] \in AtSlot \cup {"restore"} /\ reply[c].status # "rpc"

LEMMA Stages ==
  ASSUME NEW c \in Suites
  PROVE  /\ c \in Clients /\ Stage(c) = pc[c] /\ Lease(c) = lease[c]
         /\ Stage(c)' = pc'[c] /\ Lease(c)' = lease'[c]
  BY Kinds DEF Stage, Lease

\* The only call of a suite under way is the one of its stage, and it waits for it.
LEMMA OwnCall ==
  ASSUME RpcInv, NEW c, Playing(c)
  PROVE  /\ \A k \in calls : k.client = c =>
              /\ k.awaited /\ reply[c].status = "none" /\ k.req.op = pc[c]
              /\ pc[c] # "restore" => k.req.lease = lease[c]
              /\ \A l \in calls : l.client = c => l = k
         /\ \A k \in sealing : k.client = c =>
              k.awaited /\ reply[c].status = "none" /\ pc[c] = "snapshot"
<1>1. c \in Suites /\ Stage(c) = pc[c] /\ Lease(c) = lease[c] /\ ~GaveUp(c) /\ Asks(pc[c]) = pc[c]
  BY Stages DEF Playing, GaveUp, AtSlot, Gone, Asks
<1>2. ASSUME NEW k \in calls, k.client = c
      PROVE  /\ k.awaited /\ reply[c].status = "none" /\ k.req.op = pc[c]
             /\ pc[c] # "restore" => k.req.lease = lease[c]
  <2>1. CallOK(k) BY DEF RpcInv
  <2>2. QED BY <1>1, <1>2, <2>1 DEF CallOK
<1>3. ASSUME NEW k \in sealing, k.client = c
      PROVE  k.awaited /\ reply[c].status = "none" /\ pc[c] = "snapshot"
  <2>1. SealOK(k) BY DEF RpcInv
  <2>2. QED BY <1>1, <1>3, <2>1 DEF SealOK
<1>4. QED BY <1>2, <1>3 DEF RpcInv, OneAwaited

\* The slot a suite works on is its own.
LEMMA OwnSlot ==
  ASSUME NEW own, OwnInv(own), NEW c, Playing(c)
  PROVE  /\ pc[c] = "restore" /\ reply[c].status = "ok" =>
              reply[c].lease \in DOMAIN slots /\ own[reply[c].lease] = c
         /\ pc[c] # "restore" => own[lease[c]] = c /\ lease[c] \in 1..nextSlot
         /\ pc[c] \in AtSlot \ {"destroy"} => lease[c] \in DOMAIN slots
<1>1. c \in Suites /\ c \in Clients /\ Stage(c) = pc[c] /\ Lease(c) = lease[c] BY Stages DEF Playing
<1>2. Holding(own, c) BY <1>1 DEF OwnInv
<1>3. QED BY <1>1, <1>2 DEF Holding, Playing, AtSlot, AtWork, Leaving

\* A served call changes no slot but its client's own.
LEMMA OthersSlots ==
  ASSUME RpcInv, NEW own, OwnInv(own), NEW k \in calls, Handle(k), NEW i \in DOMAIN slots,
         own[i] # k.client
  PROVE  SlotRests(i)
<1>1. k.req.op # "restore" => k.req.lease # i BY DEF OwnInv, Owned
<1>2. nextSlot + 1 # i BY DEF OwnInv, Owned
<1>3. CASE RestoreSnapshot(k)
  <2>1. \/ UNCHANGED slots
        \/ \E s : slots' = Over(Entry(nextSlot + 1, s), slots)
    BY <1>3, Zenon DEF RestoreSnapshot, NextSlotId
  <2>2. PICK id : id = nextSlot + 1 OBVIOUS
  <2>3. ASSUME NEW s, slots' = Over(Entry(id, s), slots)
        PROVE  SlotRests(i)
    <3>1. /\ DOMAIN Over(Entry(id, s), slots) = DOMAIN slots \cup {id}
          /\ \A j \in DOMAIN slots : j # id => Over(Entry(id, s), slots)[j] = slots[j]
      BY DEF Over, Entry
    <3>2. QED BY <1>2, <2>2, <2>3, <3>1 DEF SlotRests
  <2>4. QED BY <2>1, <2>2, <2>3 DEF SlotRests
<1>4. CASE SlotGone(k) \/ Read(k) \/ TakeSnapshot(k)
  BY <1>4 DEF SlotGone, Read, TakeSnapshot, SlotRests
<1>5. CASE InjectInputs(k)
  <2>1. k.req.op # "restore" BY <1>5 DEF InjectInputs, WithSlot
  <2>2. UNCHANGED slots \/ \E x : slots' = [slots EXCEPT ![k.req.lease].scheduled = x]
    BY <1>5, Zenon DEF InjectInputs
  <2>3. QED BY <1>1, <2>1, <2>2 DEF SlotRests
<1>6. CASE Run(k)
  <2>1. k.req.op # "restore" BY <1>6 DEF Run, WithSlot
  <2>2. \E x : slots' = [slots EXCEPT ![k.req.lease].state = x] BY <1>6, Zenon DEF Run
  <2>3. QED BY <1>1, <2>1, <2>2 DEF SlotRests
<1>7. CASE DestroyVm(k) BY <1>1, <1>7 DEF DestroyVm, WithSlot, Restrict, SlotRests
<1>8. QED BY <1>3, <1>4, <1>5, <1>6, <1>7 DEF Handle

\* A stored snapshot does not change what another one restores.
LEMMA MidStored ==
  ASSUME SuiteShapes, NEW c \in Suites, MidSaved(c), NEW g, GuestOK(g), g.running = TRUE,
         snapshots' = Over(Entry(SnapshotRef(g), g), snapshots),
         opts'[c] = opts[c]
  PROVE  MidSaved(c)'
<1>1. PICK m : m = MidGuest(c) OBVIOUS
<1>2. opts[c].snapshotAt \in Nat /\ opts[c].snapshotAt >= 1 BY OptionsFacts
<1>3. GuestOK(m) /\ m.running = TRUE BY <1>1, <1>2, PlayedCounts DEF MidGuest, PlayedOK
<1>4. MidGuest(c)' = m BY <1>1 DEF MidGuest
<1>5. SnapshotRef(m) \in DOMAIN snapshots /\ snapshots[SnapshotRef(m)] = m BY <1>1 DEF MidSaved
<1>6. PICK r, s : r = SnapshotRef(g) /\ s = SnapshotRef(m) OBVIOUS
<1>a. snapshots' = Over(Entry(r, g), snapshots) /\ s \in DOMAIN snapshots BY <1>5, <1>6
<1>b. /\ DOMAIN Over(Entry(r, g), snapshots) = DOMAIN snapshots \cup {r}
      /\ Over(Entry(r, g), snapshots)[r] = g
      /\ \A ref \in DOMAIN snapshots : ref # r => Over(Entry(r, g), snapshots)[ref] = snapshots[ref]
  BY DEF Over, Entry
<1>7. /\ DOMAIN snapshots' = DOMAIN snapshots \cup {r} /\ snapshots'[r] = g
      /\ s # r => snapshots'[s] = snapshots[s]
  BY <1>a, <1>b
<1>8. s = r => g = m BY <1>3, <1>6, RefOfGuest
<1>9. s \in DOMAIN snapshots' /\ snapshots'[s] = m BY <1>5, <1>6, <1>7, <1>8
<1>10. SnapshotRef(MidGuest(c)') = s BY <1>4, <1>6
<1>11. QED BY <1>4, <1>9, <1>10 DEF MidSaved

\* Suite d is where it was.
Stays(d) ==
  /\ opts'[d] = opts[d] /\ pc'[d] = pc[d] /\ leg'[d] = leg[d] /\ lease'[d] = lease[d]
  /\ base'[d] = base[d] /\ frame'[d] = frame[d] /\ current'[d] = current[d] /\ mid'[d] = mid[d]

LEMMA SuiteStays ==
  ASSUME SuiteShapes, Shapes, NEW c \in Suites, SuiteSteps(c)
  PROVE  /\ SuiteShapes' /\ corrupt' = corrupt /\ opts' = opts
         /\ \A d \in Suites : d # c => Stays(d)
<1>0. /\ pc = [d \in Suites |-> pc[d]] /\ lease = [d \in Suites |-> lease[d]]
      /\ base = [d \in Suites |-> base[d]] /\ current = [d \in Suites |-> current[d]]
      /\ mid = [d \in Suites |-> mid[d]] /\ leg \in [Suites -> 0..2] /\ frame \in [Suites -> Nat]
      /\ opts \in [Suites -> Options]
  BY DEF SuiteShapes, Shapes
<1>1. /\ corrupt' = corrupt /\ opts' = opts
      /\ \E x : pc' = [pc EXCEPT ![c] = x]
      /\ lease' = lease \/ \E x : lease' = [lease EXCEPT ![c] = x]
      /\ base' = base \/ \E x : base' = [base EXCEPT ![c] = x]
      /\ frame' = frame \/ \E x \in Nat : frame' = [frame EXCEPT ![c] = x]
      /\ current' = current \/ \E x : current' = [current EXCEPT ![c] = x]
      /\ mid' = mid \/ \E x : mid' = [mid EXCEPT ![c] = x]
      /\ leg' = leg \/ \E x \in 0..2 : leg' = [leg EXCEPT ![c] = x]
  <2>1. CASE Connect(c) BY <2>1, Zenon DEF Connect, Goto, Call, Issue, workerVars
  <2>2. CASE ConnectFails(c) BY <2>2, Zenon DEF ConnectFails, Goto
  <2>3. CASE Restored(c)
    <3>1. StartFrame(c) \in Nat BY OptionsFacts DEF StartFrame
    <3>2. \E l, e : InjectThenRun(c, l, e) BY <2>3, Zenon DEF Restored
    <3>3. corrupt' = corrupt /\ \E x : pc' = [pc EXCEPT ![c] = x]
      BY <3>2, Zenon DEF InjectThenRun, Goto, Call, Issue
    <3>4. QED BY <2>3, <3>1, <3>3, Zenon DEF Restored
  <2>4. CASE Injected(c) BY <2>4, Zenon DEF Injected, Goto, Call, Issue
  <2>5. CASE Ran(c)
    <3>1. frame[c] + 1 \in Nat BY <1>0
    <3>2. /\ UNCHANGED <<opts, leg, lease, base, mid>>
          /\ frame' = [frame EXCEPT ![c] = frame[c] + 1]
          /\ \E x : current' = [current EXCEPT ![c] = x]
      BY <2>5, Zenon DEF Ran
    <3>3. corrupt' = corrupt /\ \E x : pc' = [pc EXCEPT ![c] = x]
      BY <2>5, Zenon DEF Ran, Goto, Call, Issue
    <3>4. QED BY <3>1, <3>2, <3>3, Zenon
  <2>6. CASE Snapshotted(c)
    <3>1. \E l, e : InjectThenRun(c, l, e) BY <2>6, Zenon DEF Snapshotted
    <3>2. corrupt' = corrupt /\ \E x : pc' = [pc EXCEPT ![c] = x]
      BY <3>1, Zenon DEF InjectThenRun, Goto, Call, Issue
    <3>3. QED BY <2>6, <3>2, Zenon DEF Snapshotted
  <2>7. CASE ReferenceDone(c)
    <3>1. 1 \in 0..2 OBVIOUS
    <3>2. QED BY <2>7, <3>1, Zenon DEF ReferenceDone, Goto, Call, Issue
  <2>8. CASE SecondDone(c)
    <3>1. 2 \in 0..2 OBVIOUS
    <3>2. QED BY <2>8, <3>1, Zenon DEF SecondDone, Goto, Call, Issue
  <2>9. CASE ContinuedDone(c)
    <3>1. 0 \in 0..2 OBVIOUS
    <3>2. QED BY <2>9, <3>1, Zenon DEF ContinuedDone, Goto, Call, Issue, HangUp
  <2>10. CASE Fails(c) BY <2>10, Zenon DEF Fails, Goto, HangUp
  <2>11. QED BY <2>1, <2>2, <2>3, <2>4, <2>5, <2>6, <2>7, <2>8, <2>9, <2>10
       DEF SuiteSteps, Step, DriverStep
<1>2. /\ leg' \in [Suites -> 0..2] /\ frame' \in [Suites -> Nat]
      /\ opts' \in [Suites -> Options]
      /\ \A d \in Suites : d # c => leg'[d] = leg[d] /\ frame'[d] = frame[d]
  BY <1>0, <1>1
<1>3. /\ current' = [d \in Suites |-> current'[d]] /\ mid' = [d \in Suites |-> mid'[d]]
      /\ base' = [d \in Suites |-> base'[d]]
      /\ \A d \in Suites : d # c =>
           current'[d] = current[d] /\ mid'[d] = mid[d] /\ base'[d] = base[d]
  BY <1>0, <1>1
<1>4. \A d \in Suites : d # c => pc'[d] = pc[d] /\ lease'[d] = lease[d] BY <1>0, <1>1
<1>5. QED BY <1>1, <1>2, <1>3, <1>4 DEF SuiteShapes, Stays

\* A step of another process.
LEMMA OthersRest ==
  ASSUME RpcInv, NEW c \in Clients, Client(c), NEW d \in Suites, d # c, Stays(d), corrupt' = corrupt
  PROVE  Rests(d) /\ \A i : SlotRests(i)
<1>1. /\ UNCHANGED <<slots, snapshots>> /\ reply'[d] = reply[d]
      /\ \A k \in calls' : k.client = d => k \in calls
      /\ \A k \in sealing' : k.client = d => k \in sealing
  BY ClientEffect, Stages
<1>2. MidSaved(d) => MidSaved(d)' BY <1>1 DEF MidSaved, MidGuest, Stays
<1>3. QED BY <1>1, <1>2 DEF Rests, Stays, SlotRests

LEMMA OthersPlay ==
  ASSUME RpcInv, NEW c \in Clients, Client(c), NEW d \in Suites, d # c, Stays(d), corrupt' = corrupt,
         Playing(d) => PlayInv(d)
  PROVE  Playing(d)' => PlayInv(d)'
<1>1. Rests(d) /\ \A i : SlotRests(i) BY OthersRest
<1>2. Playing(d)' => Playing(d) BY <1>1 DEF Rests, Playing
<1>3. QED BY <1>1, <1>2, PlayRests

LEMMA NoGateSnapshots ==
  ASSUME Shapes, NEW c \in Gates, GateSteps(c)
  PROVE  gPc'[c] # "snapshot"
  BY DEF Shapes, GateSteps, G!Step, G!DriverStep, G!Connect, G!ConnectFails,
     G!Restored, G!ReadyRead, G!Inject, G!Injected, G!Ran, G!RanAtZeroPanics, G!Captured,
     G!RestoreFails, G!CallFails, G!CaptureFails, G!CleanedUp, G!Judge, G!GeometryMismatch,
     G!UnexpectedStop, G!CleanUp, G!Proceed, G!Destroy, G!Goto

\* Only a guest that has run is asked for a snapshot.
LEMMA ClientSeals ==
  ASSUME RpcInv, RpcInv', SuiteShapes, SealsRan, NEW c \in Clients, Client(c),
         c \in Gates => gPc'[c] # "snapshot",
         c \in Suites => opts'[c] = opts[c],
         c \in Suites /\ pc'[c] = "snapshot" => Snapshotting(c)'
  PROVE  SealsRan'
<1>1. UNCHANGED <<slots, sealing>> BY ClientEffect
<1>2. ASSUME NEW k \in calls', k \notin calls, k.req.op = "snapshot"
      PROVE  slots[k.req.lease].state.running = TRUE
  <2>1. k.client = c /\ CallOK(k)' BY <1>2, ClientEffect DEF RpcInv
  <2>2. k.awaited
    <3>1. PICK s, l, r : Goes(c, s, l, r) BY <1>2 DEF Client, Stops
    <3>2. QED BY <1>2, <3>1 DEF Goes, Issue
  <2>3. /\ Asks(Stage(c)') = "snapshot" /\ k.req.lease = Lease(c)' BY <1>2, <2>1, <2>2 DEF CallOK
  <2>4. Stage(c)' = "snapshot" BY <2>3 DEF Asks
  <2>5. c \in Suites /\ pc'[c] = "snapshot" /\ k.req.lease = lease'[c]
    BY <2>3, <2>4, Kinds DEF Stage, Lease
  <2>6. Snapshotting(c)' /\ opts'[c] = opts[c] BY <2>5
  <2>7. /\ slots'[lease'[c]].state = Played(opts[c].script, opts[c].snapshotAt)
    BY <2>6 DEF Snapshotting, HasPlayed, LegGuest, ScriptOfLeg
  <2>8. Played(opts[c].script, opts[c].snapshotAt).running = TRUE
    BY <2>5, OptionsFacts, PlayedCounts DEF PlayedOK
  <2>9. QED BY <1>1, <2>5, <2>7, <2>8
<1>3. QED BY <1>1, <1>2 DEF SealsRan

----
(* A suite's own steps. *)

LEMMA Issued ==
  ASSUME RpcInv, NEW c \in Suites, NEW r, Issue(c, r),
         (Playing(c) /\ reply[c].status = "ok") \/ pc[c] \in Fresh
  PROVE  /\ reply'[c].status = "none" /\ UNCHANGED <<corrupt, slots, snapshots, sealing>>
         /\ \A k \in calls' : k.client = c => k.req = r
         /\ \A k \in sealing' : k.client # c
<1>1. \A k \in calls \cup sealing : k.client # c
  <2>1. CASE Playing(c) /\ reply[c].status = "ok" BY <2>1, OwnCall
  <2>2. CASE pc[c] \in Fresh BY <2>2, Stages DEF RpcInv, CallOK, SealOK
  <2>3. QED BY <2>1, <2>2
<1>2. \A k \in calls' : k.client = c => k.req = r BY <1>1, NewCall DEF Issue
<1>3. reply'[c] = NoReply BY Stages DEF Issue, RpcInv, Shapes
<1>4. QED BY <1>1, <1>2, <1>3 DEF Issue, NoReply

LEMMA RequestFields ==
  /\ \A ref : RestoreRequest(ref).ref = ref
  /\ \A l, e : InjectRequest(l, e).events = e
  /\ \A l, b : RunRequest(l, b).budget = b
  BY DEF RestoreRequest, InjectRequest, RunRequest

\* The suite is at stage s of a leg, with slot l and n frames played.
Turned(c, s, l, n) ==
  /\ pc'[c] = s /\ lease'[c] = l /\ frame'[c] = n
  /\ leg'[c] = leg[c] /\ opts'[c] = opts[c] /\ corrupt' = corrupt

LEMMA TurnedSame ==
  ASSUME NEW c, NEW s, NEW l, NEW n, Turned(c, s, l, n)
  PROVE  /\ (\A j : LegGuest(c, j)' = LegGuest(c, j)) /\ ScriptOfLeg(c)' = ScriptOfLeg(c)
         /\ StartFrame(c)' = StartFrame(c) /\ MidGuest(c)' = MidGuest(c)
  BY DEF Turned, LegGuest, ScriptOfLeg, StartFrame, MidGuest

\* The events of a leg are injected, or the first frame is run when there are none.
LEMMA InjectsOrRuns ==
  ASSUME RpcInv, SuiteShapes, NEW c, Playing(c), reply[c].status = "ok", NEW n, InjectsAt(c, n),
         NEW l, Primed(c, slots[l].state, slots[l].scheduled, n),
         InjectThenRun(c, l, EventsFrom(c, n)), NEW s, Turned(c, s, l, n)
  PROVE  /\ s \in {"inject", "run"} /\ reply'[c].status = "none" /\ UNCHANGED <<slots, snapshots>>
         /\ HeadOnly(c, slots[lease[c]].scheduled)'
         /\ s = "inject" => Injecting(c)'
         /\ s = "run" => Running(c)'
<1>e. PICK E, m : E = EventsFrom(c, n) /\ m = UpTo(c, n) OBVIOUS
<1>0. /\ c \in Suites /\ ValidOptions(opts[c]) /\ leg[c] \in 0..2 /\ n \in Nat
      /\ opts[c].snapshotAt \in Nat /\ opts[c].frames \in Nat
      /\ opts[c].snapshotAt >= 1 /\ opts[c].snapshotAt < opts[c].frames
      /\ pc = [d \in Suites |-> pc[d]]
  BY OptionsFacts DEF Playing, InjectsAt, RpcInv, Shapes
<1>1. PICK g, old : g = slots[l].state /\ old = slots[l].scheduled OBVIOUS
<1>2. Primed(c, g, old, n) /\ InjectsWell(c, g, old, n) BY <1>0, <1>1, LegInjects
<1>3. /\ \A at \in DOMAIN E : at \in Nat /\ at > ReadyFrame + n
      /\ leg[c] = 0 /\ n = 0 => \A at \in DOMAIN E : at <= ReadyFrame + opts[c].snapshotAt
      /\ Follows(c, g, Over(E, old), n, m)
  BY <1>e, <1>2 DEF InjectsWell
<1>4. /\ (\A j : LegGuest(c, j)' = LegGuest(c, j)) /\ ScriptOfLeg(c)' = ScriptOfLeg(c)
      /\ StartFrame(c)' = StartFrame(c) /\ Horizon(c)' = m
      /\ n \in {StartFrame(c)} \cup (IF leg[c] = 0 THEN {opts[c].snapshotAt} ELSE {})
      /\ n \in Nat /\ n < opts[c].frames /\ StartFrame(c) \in Nat /\ StartFrame(c) <= n
  <2>1. Horizon(c)' = m BY <1>0, <1>e DEF Turned, Horizon, UpTo, InjectsAt
  <2>2. /\ n \in {StartFrame(c)} \cup (IF leg[c] = 0 THEN {opts[c].snapshotAt} ELSE {})
        /\ n < opts[c].frames /\ StartFrame(c) \in Nat /\ StartFrame(c) <= n
    BY <1>0 DEF InjectsAt, StartFrame
  <2>3. QED BY <1>0, <2>1, <2>2, TurnedSame
<1>5. DOMAIN old \subseteq Nat /\ (\A at \in DOMAIN old : at <= ReadyFrame + n) /\ HasPlayed(c, g, n)
  BY <1>2 DEF Primed
<1>6. HasPlayed(c, g, n)' BY <1>4, <1>5 DEF HasPlayed
<1>a. n < opts[c].snapshotAt => \A at \in DOMAIN old : at <= ReadyFrame + opts[c].snapshotAt
  BY <1>0, <1>5, FixtureAssumption
<1>7. CASE DOMAIN E = {}
  <2>1. Issue(c, RunRequest(l, 1)) /\ pc' = [pc EXCEPT ![c] = "run"]
    BY <1>e, <1>7 DEF InjectThenRun, Call, Goto
  <2>2. /\ reply'[c].status = "none" /\ UNCHANGED <<slots, snapshots>>
        /\ \A k \in calls' : k.client = c => k.req.budget = 1
    BY <1>0, <2>1, Issued, RequestFields
  <2>3. s = "run" BY <1>0, <2>1 DEF Turned
  <2>4. Follows(c, g, old, n, m)
    <3> SUFFICES ASSUME NEW i \in n..m, i >= 1
                 PROVE  LivePad(g, old, ReadyFrame + i) = LiveWord(ScriptOfLeg(c), i)
      BY DEF Follows
    <3>1. LivePad(g, Over(E, old), ReadyFrame + i) = LiveWord(ScriptOfLeg(c), i) BY <1>3 DEF Follows
    <3>2. PICK now : now = ReadyFrame + i OBVIOUS
    <3>3. now \in Nat BY <1>0, <1>e, <3>2, FixtureAssumption DEF UpTo
    <3>4. LivePad(g, Over(E, old), now) = LivePad(g, old, now) BY <1>5, <1>7, <3>3, OverNone
    <3>5. QED BY <3>1, <3>2, <3>4
  <2>5. Follows(c, g, old, n, m)' BY <1>4, <2>4 DEF Follows
  <2>6. n \in StartFrame(c)..(opts[c].frames - 1) BY <1>0, <1>4
  <2>7. Running(c)' BY <1>1, <1>4, <1>6, <2>2, <2>5, <2>6 DEF Running, Turned
  <2>8. HeadOnly(c, slots[lease[c]].scheduled)'
    BY <1>0, <1>1, <1>5, <1>a, <2>2, <2>3 DEF HeadOnly, Turned
  <2>9. QED BY <2>2, <2>3, <2>7, <2>8
<1>8. CASE DOMAIN E # {}
  <2>1. Issue(c, InjectRequest(l, E)) /\ pc' = [pc EXCEPT ![c] = "inject"]
    BY <1>e, <1>8 DEF InjectThenRun, Call, Goto
  <2>2. /\ reply'[c].status = "none" /\ UNCHANGED <<slots, snapshots>>
        /\ \A k \in calls' : k.client = c => k.req.events = E
    BY <1>0, <2>1, Issued, RequestFields
  <2>3. s = "inject" BY <1>0, <2>1 DEF Turned
  <2>4. HeadOnly(c, slots[lease[c]].scheduled)'
    BY <1>0, <1>1, <1>5, <1>a, <2>2, <2>3 DEF HeadOnly, Turned
  <2>5. HeadOnly(c, E)' BY <1>0, <1>3, <2>3 DEF HeadOnly, Turned, InjectsAt
  <2>6. Follows(c, g, Over(E, old), n, m)' BY <1>3, <1>4 DEF Follows
  <2>7. \A k \in calls' : k.client = c =>
          /\ \A at \in DOMAIN k.req.events : at \in Nat /\ at > ReadyFrame + frame'[c]
          /\ HeadOnly(c, k.req.events)'
          /\ Follows(c, slots[lease[c]].state, Over(k.req.events, slots[lease[c]].scheduled),
                     frame[c], Horizon(c))'
    BY <1>1, <1>3, <1>4, <2>2, <2>5, <2>6 DEF Turned
  <2>8. Injecting(c)' BY <1>1, <1>4, <1>6, <2>2, <2>7 DEF Injecting, Turned
  <2>9. QED BY <2>2, <2>3, <2>4, <2>8
<1>9. QED BY <1>7, <1>8

LEMMA EmptySchedule ==
  ASSUME NEW g, NEW n
  PROVE  LivePad(g, << >>, n) = g.lastPad /\ DOMAIN << >> = {}
<1>1. DOMAIN << >> = {} OBVIOUS
<1>2. QED BY <1>1 DEF LivePad

LEMMA PrimedFresh ==
  ASSUME SuiteShapes, NEW c \in Suites, NEW g, HasPlayed(c, g, StartFrame(c))
  PROVE  Primed(c, g, << >>, StartFrame(c))
<1>1. PICK n : n = StartFrame(c) OBVIOUS
<1>2. n \in Nat BY <1>1, OptionsFacts DEF StartFrame
<1>3. g.lastPad = IF n = 0 THEN 0 ELSE LiveWord(ScriptOfLeg(c), n)
  BY <1>1, <1>2, LegHears DEF HasPlayed
<1>4. LivePad(g, << >>, ReadyFrame + n) = g.lastPad BY EmptySchedule
<1>5. QED BY <1>1, <1>3, <1>4, EmptySchedule DEF Primed

\* What is known of suite c before a step of its own.
Before(c) == RpcInv /\ SuiteShapes /\ Playing(c) /\ PlayInv(c) /\ \E own : OwnInv(own)

LEMMA BeforeFacts ==
  ASSUME NEW c, Before(c)
  PROVE  /\ c \in Suites /\ RpcInv /\ SuiteShapes /\ Playing(c) /\ PlayInv(c)
         /\ leg[c] \in 0..2 /\ frame[c] \in Nat /\ StartFrame(c) \in Nat
         /\ opts[c].snapshotAt \in Nat /\ opts[c].frames \in Nat
         /\ opts[c].snapshotAt >= 1 /\ opts[c].snapshotAt < opts[c].frames
         /\ pc = [d \in Suites |-> pc[d]] /\ lease = [d \in Suites |-> lease[d]]
         /\ base = [d \in Suites |-> base[d]] /\ current = [d \in Suites |-> current[d]]
         /\ mid = [d \in Suites |-> mid[d]] /\ leg = [d \in Suites |-> leg[d]]
         /\ frame = [d \in Suites |-> frame[d]]
<1>1. c \in Suites /\ RpcInv /\ SuiteShapes /\ Playing(c) /\ PlayInv(c) BY DEF Before, Playing
<1>2. /\ leg[c] \in 0..2 /\ frame[c] \in Nat
      /\ opts[c].snapshotAt \in Nat /\ opts[c].frames \in Nat
      /\ opts[c].snapshotAt >= 1 /\ opts[c].snapshotAt < opts[c].frames
  BY <1>1, OptionsFacts DEF SuiteShapes
<1>3. StartFrame(c) \in Nat BY <1>2 DEF StartFrame
<1>4. /\ base = [d \in Suites |-> base[d]] /\ current = [d \in Suites |-> current[d]]
      /\ mid = [d \in Suites |-> mid[d]] /\ leg = [d \in Suites |-> leg[d]]
      /\ frame = [d \in Suites |-> frame[d]]
  BY <1>1 DEF SuiteShapes
<1>5. pc = [d \in Suites |-> pc[d]] /\ lease = [d \in Suites |-> lease[d]]
  BY <1>1 DEF RpcInv, Shapes
<1>6. QED BY <1>1, <1>2, <1>3, <1>4, <1>5

LEMMA RestoredPlays ==
  ASSUME NEW c, Before(c), Restored(c), corrupt' = corrupt
  PROVE  PlayInv(c)' /\ (pc'[c] \in AtSlot => Hashed(c)')
<1>0. /\ c \in Suites /\ RpcInv /\ SuiteShapes /\ Playing(c) /\ PlayInv(c)
      /\ leg[c] \in 0..2 /\ frame[c] \in Nat /\ StartFrame(c) \in Nat
      /\ opts[c].snapshotAt \in Nat /\ opts[c].frames \in Nat
      /\ opts[c].snapshotAt >= 1 /\ opts[c].snapshotAt < opts[c].frames
      /\ pc = [d \in Suites |-> pc[d]] /\ lease = [d \in Suites |-> lease[d]]
      /\ base = [d \in Suites |-> base[d]] /\ current = [d \in Suites |-> current[d]]
      /\ frame = [d \in Suites |-> frame[d]]
  BY BeforeFacts
<1>1. PICK n, l, g : n = StartFrame(c) /\ l = reply[c].lease /\ g = reply[c].guest OBVIOUS
<1>2. /\ pc[c] = "restore" /\ reply[c].status = "ok"
      /\ lease' = [lease EXCEPT ![c] = l] /\ base' = [base EXCEPT ![c] = g.counter]
      /\ frame' = [frame EXCEPT ![c] = n] /\ current' = [current EXCEPT ![c] = << >>]
      /\ InjectThenRun(c, l, CASE leg[c] = 0 -> ChangeEvents(HeadWords(opts[c]), g.counter, 0)
                 [] leg[c] = 1 -> ChangeEvents(SecondScript(opts[c]), g.counter, 0)
                 [] leg[c] = 2 -> ChangeEvents(TailWords(opts[c]), g.counter, Boundary(opts[c])))
      /\ UNCHANGED <<opts, leg, mid>>
  BY <1>1 DEF Restored, Answered
<1>3. /\ g = slots[l].state /\ slots[l].scheduled = << >> /\ HasPlayed(c, g, n)
  BY <1>0, <1>1, <1>2 DEF PlayInv, Restoring
<1>4. g.counter = ReadyFrame + n /\ n \in Nat /\ Primed(c, slots[l].state, slots[l].scheduled, n)
  BY <1>0, <1>1, <1>3, PrimedFresh DEF HasPlayed
<1>5. InjectsAt(c, n) BY <1>0, <1>1 DEF InjectsAt, StartFrame
<1>6. InjectThenRun(c, l, EventsFrom(c, n))
  <2>1. leg[c] # 2 => n = 0 /\ g.counter = ReadyFrame
    BY <1>1, <1>4, FixtureAssumption DEF StartFrame
  <2>2. leg[c] = 2 => n # 0 BY <1>0, <1>1 DEF StartFrame
  <2>3. CASE leg[c] = 0 BY <1>2, <2>1, <2>3 DEF EventsFrom
  <2>4. CASE leg[c] = 1 BY <1>2, <2>1, <2>4 DEF EventsFrom
  <2>5. CASE leg[c] = 2 BY <1>2, <1>4, <2>2, <2>5 DEF EventsFrom
  <2>6. QED BY <1>0, <2>3, <2>4, <2>5
<1>7. PICK s : pc' = [pc EXCEPT ![c] = s] BY <1>6 DEF InjectThenRun, Goto
<1>8. Turned(c, s, l, n) BY <1>0, <1>2, <1>7 DEF Turned
<1>9. /\ s \in {"inject", "run"} /\ reply'[c].status = "none" /\ UNCHANGED <<slots, snapshots>>
      /\ HeadOnly(c, slots[lease[c]].scheduled)'
      /\ s = "inject" => Injecting(c)'
      /\ s = "run" => Running(c)'
  BY <1>0, <1>2, <1>4, <1>5, <1>6, <1>8, InjectsOrRuns
<1>10. pc'[c] = s /\ StartFrame(c)' = n /\ base'[c] = ReadyFrame + n
  BY <1>0, <1>1, <1>2, <1>4, <1>7, <1>8, TurnedSame
<1>11. HasMid(c)' => mid'[c] = SnapshotRef(MidGuest(c)') /\ MidSaved(c)'
  <2>1. HasMid(c)' => HasMid(c) BY <1>0, <1>1, <1>2, <1>8, <1>9 DEF HasMid, Turned, StartFrame
  <2>2. HasMid(c) => mid[c] = SnapshotRef(MidGuest(c)) /\ MidSaved(c) BY <1>0 DEF PlayInv
  <2>3. MidGuest(c)' = MidGuest(c) /\ snapshots' = snapshots /\ mid' = mid
    BY <1>2, <1>8, <1>9, TurnedSame
  <2>4. QED BY <2>1, <2>2, <2>3 DEF MidSaved
<1>12. Hashed(c)'
  <2>1. current'[c] = << >> /\ frame'[c] = n BY <1>0, <1>2
  <2>2. << >> \in Seq(Range(<< >>)) /\ Len(<< >>) = 0 /\ DOMAIN << >> = {} OBVIOUS
  <2>3. n - n = 0 BY <1>4
  <2>4. QED BY <1>10, <2>1, <2>2, <2>3 DEF Hashed
<1>13. QED BY <1>9, <1>10, <1>11, <1>12 DEF PlayInv, AtSlot

\* What a suite knew of its snapshot it still knows.
LEMMA MidKept ==
  ASSUME NEW c, PlayInv(c), HasMid(c)' => HasMid(c), mid'[c] = mid[c], UNCHANGED snapshots,
         opts'[c] = opts[c]
  PROVE  HasMid(c)' => mid'[c] = SnapshotRef(MidGuest(c)') /\ MidSaved(c)'
<1>1. HasMid(c) => mid[c] = SnapshotRef(MidGuest(c)) /\ MidSaved(c) BY DEF PlayInv
<1>2. MidGuest(c)' = MidGuest(c) BY DEF MidGuest
<1>3. QED BY <1>1, <1>2 DEF MidSaved

LEMMA SnapshottedPlays ==
  ASSUME NEW c, Before(c), Snapshotted(c), corrupt' = corrupt,
         pc[c] \in AtSlot => Hashed(c)
  PROVE  PlayInv(c)' /\ (pc'[c] \in AtSlot => Hashed(c)')
<1>0. /\ c \in Suites /\ RpcInv /\ SuiteShapes /\ Playing(c) /\ PlayInv(c)
      /\ leg[c] \in 0..2 /\ frame[c] \in Nat /\ StartFrame(c) \in Nat
      /\ opts[c].snapshotAt \in Nat /\ opts[c].frames \in Nat
      /\ opts[c].snapshotAt >= 1 /\ opts[c].snapshotAt < opts[c].frames
      /\ pc = [d \in Suites |-> pc[d]] /\ mid = [d \in Suites |-> mid[d]]
  BY BeforeFacts
<1>1. PICK n, l : n = frame[c] /\ l = lease[c] OBVIOUS
<1>2. /\ pc[c] = "snapshot" /\ reply[c].status = "ok"
      /\ mid' = [mid EXCEPT ![c] = reply[c].ref]
      /\ InjectThenRun(c, l,
            ChangeEvents(TailWords(opts[c]), base[c] + n, Boundary(opts[c])))
      /\ UNCHANGED <<opts, leg, lease, base, frame, current>>
  BY <1>1 DEF Snapshotted, Answered
<1>3. /\ leg[c] = 0 /\ n = opts[c].snapshotAt
      /\ HasPlayed(c, slots[l].state, n)
      /\ Follows(c, slots[l].state, slots[l].scheduled, n, n)
      /\ reply[c].ref = SnapshotRef(slots[l].state) /\ MidSaved(c)
      /\ HeadOnly(c, slots[l].scheduled) /\ base[c] = ReadyFrame + StartFrame(c)
  BY <1>1, <1>2, <1>0 DEF PlayInv, Snapshotting, AtSlot
<1>4. base[c] + n = ReadyFrame + n /\ n # 0 BY <1>0, <1>3, FixtureAssumption DEF StartFrame
<1>5. InjectsAt(c, n) /\ InjectThenRun(c, l, EventsFrom(c, n))
  BY <1>2, <1>3, <1>4 DEF InjectsAt, EventsFrom
<1>6. Primed(c, slots[l].state, slots[l].scheduled, n)
  <2>1. \A at \in DOMAIN slots[l].scheduled : at \in Nat /\ at <= ReadyFrame + n
    BY <1>2, <1>3 DEF HeadOnly
  <2>2. LivePad(slots[l].state, slots[l].scheduled, ReadyFrame + n) =
          LiveWord(ScriptOfLeg(c), n)
    BY <1>0, <1>3, <1>4 DEF Follows
  <2>3. QED BY <1>3, <1>4, <2>1, <2>2 DEF Primed
<1>7. PICK s : pc' = [pc EXCEPT ![c] = s] BY <1>5 DEF InjectThenRun, Goto
<1>8. Turned(c, s, l, n) BY <1>0, <1>1, <1>2, <1>7 DEF Turned
<1>9. /\ s \in {"inject", "run"} /\ reply'[c].status = "none" /\ UNCHANGED <<slots, snapshots>>
      /\ HeadOnly(c, slots[lease[c]].scheduled)'
      /\ s = "inject" => Injecting(c)'
      /\ s = "run" => Running(c)'
  BY <1>0, <1>2, <1>5, <1>6, <1>8, InjectsOrRuns
<1>10. /\ pc'[c] = s /\ StartFrame(c)' = StartFrame(c) /\ base'[c] = ReadyFrame + StartFrame(c)
       /\ (\A j : LegGuest(c, j)' = LegGuest(c, j))
       /\ ScriptOfLeg(c)' = ScriptOfLeg(c) /\ MidGuest(c)' = MidGuest(c)
  BY <1>0, <1>2, <1>3, <1>7, <1>8, TurnedSame
<1>11. mid'[c] = SnapshotRef(MidGuest(c)') /\ MidSaved(c)'
  <2>1. slots[l].state = MidGuest(c) BY <1>3 DEF HasPlayed, LegGuest, ScriptOfLeg, MidGuest
  <2>2. mid'[c] = SnapshotRef(slots[l].state) BY <1>0, <1>2, <1>3
  <2>3. MidSaved(c)' BY <1>3, <1>9, <1>10 DEF MidSaved
  <2>4. QED BY <1>10, <2>1, <2>2, <2>3
<1>12. Hashed(c)' BY <1>2, <1>10 DEF Hashed, AtSlot
<1>13. QED BY <1>9, <1>10, <1>11, <1>12 DEF PlayInv, AtSlot

LEMMA InjectedPlays ==
  ASSUME NEW c, Before(c), Injected(c), corrupt' = corrupt,
         pc[c] \in AtSlot => Hashed(c)
  PROVE  PlayInv(c)' /\ (pc'[c] \in AtSlot => Hashed(c)')
<1>0. /\ c \in Suites /\ RpcInv /\ SuiteShapes /\ Playing(c) /\ PlayInv(c)
      /\ leg[c] \in 0..2 /\ frame[c] \in Nat /\ StartFrame(c) \in Nat
      /\ opts[c].snapshotAt \in Nat /\ opts[c].frames \in Nat
      /\ opts[c].snapshotAt >= 1 /\ opts[c].snapshotAt < opts[c].frames
      /\ pc = [d \in Suites |-> pc[d]]
  BY BeforeFacts
<1>1. /\ pc[c] = "inject" /\ reply[c].status = "ok" /\ pc' = [pc EXCEPT ![c] = "run"]
      /\ Issue(c, RunRequest(lease[c], 1))
      /\ UNCHANGED <<opts, leg, lease, base, frame, current, mid>>
  BY DEF Injected, Answered, Goto, Call
<1>2. /\ reply'[c].status = "none" /\ UNCHANGED <<slots, snapshots>>
      /\ \A k \in calls' : k.client = c => k.req.budget = 1
  BY <1>0, <1>1, Issued, RequestFields
<1>3. pc'[c] = "run" /\ Turned(c, "run", lease[c], frame[c]) BY <1>0, <1>1 DEF Turned
<1>4. /\ StartFrame(c)' = StartFrame(c) /\ (\A j : LegGuest(c, j)' = LegGuest(c, j))
      /\ ScriptOfLeg(c)' = ScriptOfLeg(c) /\ MidGuest(c)' = MidGuest(c)
      /\ Horizon(c)' = Horizon(c)
  BY <1>1, <1>3, TurnedSame DEF Horizon
<1>5. Injecting(c) /\ HeadOnly(c, slots[lease[c]].scheduled) /\ base[c] = ReadyFrame + StartFrame(c)
  BY <1>0, <1>1 DEF PlayInv, AtSlot
<1>6. Running(c)'
  <2>1. /\ HasPlayed(c, slots[lease[c]].state, frame[c])
        /\ Follows(c, slots[lease[c]].state, slots[lease[c]].scheduled, frame[c], Horizon(c))
        /\ frame[c] \in StartFrame(c)..(opts[c].frames - 1)
    BY <1>0, <1>1, <1>5 DEF Injecting, StartFrame
  <2>2. /\ HasPlayed(c, slots[lease[c]].state, frame[c])'
        /\ Follows(c, slots[lease[c]].state, slots[lease[c]].scheduled, frame[c], Horizon(c))'
    BY <1>1, <1>2, <1>4, <2>1 DEF HasPlayed, Follows
  <2>3. frame'[c] + 0 = frame'[c] BY <1>0, <1>1
  <2>4. QED BY <1>1, <1>2, <1>4, <2>1, <2>2, <2>3 DEF Running
<1>7. HeadOnly(c, slots[lease[c]].scheduled)' BY <1>1, <1>2, <1>3, <1>5 DEF HeadOnly
<1>8. HasMid(c)' => HasMid(c) BY <1>1, <1>3 DEF HasMid, AtSlot
<1>9. HasMid(c)' => mid'[c] = SnapshotRef(MidGuest(c)') /\ MidSaved(c)'
  BY <1>0, <1>1, <1>2, <1>8, MidKept
<1>10. Hashed(c)' BY <1>1, <1>4 DEF Hashed, AtSlot
<1>11. QED BY <1>1, <1>2, <1>3, <1>4, <1>5, <1>6, <1>7, <1>9, <1>10 DEF PlayInv, AtSlot

LEMMA RanHashes ==
  ASSUME NEW c, Before(c), Ran(c), corrupt' = corrupt, pc[c] = "run", Hashed(c)
  PROVE  Hashed(c)'
<1>0. /\ c \in Suites /\ PlayInv(c) /\ frame[c] \in Nat /\ StartFrame(c) \in Nat
      /\ current = [d \in Suites |-> current[d]] /\ frame = [d \in Suites |-> frame[d]]
  BY BeforeFacts
<1>1. PICK h : h = FrameHash(reply[c].guest) OBVIOUS
<1>2. /\ frame' = [frame EXCEPT ![c] = frame[c] + 1]
      /\ current' = [current EXCEPT ![c] = Append(current[c], h)]
      /\ UNCHANGED <<opts, leg>> /\ reply[c].status = "ok"
  BY <1>0, <1>1 DEF Ran, Answered
<1>3. /\ frame'[c] = frame[c] + 1 /\ current'[c] = Append(current[c], h) BY <1>0, <1>2
<1>4. /\ (\A j : LegGuest(c, j)' = LegGuest(c, j)) /\ ScriptOfLeg(c)' = ScriptOfLeg(c)
      /\ StartFrame(c)' = StartFrame(c)
  BY <1>2 DEF LegGuest, ScriptOfLeg, StartFrame
<1>5. h = FrameHash(LegGuest(c, frame[c] + 1)) BY <1>0, <1>1, <1>2 DEF PlayInv, Running, HasPlayed
<1>6. PICK s, n, m : s = current[c] /\ n = frame[c] /\ m = StartFrame(c) OBVIOUS
<1>7. /\ s \in Seq(Range(s)) /\ Len(s) = n - m /\ n \in Nat /\ m \in Nat
      /\ \A i \in DOMAIN s : s[i] = FrameHash(LegGuest(c, m + i))
  BY <1>0, <1>6 DEF Hashed
<1>8. PICK t : t = Append(s, h) OBVIOUS
<1>9. PICK S : S = Range(s) \cup {h} OBVIOUS
<1>10. s \in Seq(S) /\ h \in S BY <1>7, <1>9
<1>11. /\ t \in Seq(S) /\ Len(t) = Len(s) + 1 /\ DOMAIN t = 1..(Len(s) + 1)
       /\ \A i \in 1..Len(s) : t[i] = s[i]
       /\ t[Len(s) + 1] = h /\ Len(s) \in Nat /\ DOMAIN s = 1..Len(s)
  BY <1>8, <1>10
<1>12. t \in Seq(Range(t))
  <2>1. t = [i \in 1..Len(t) |-> t[i]] /\ Len(t) \in Nat BY <1>11
  <2>2. \A i \in 1..Len(t) : t[i] \in Range(t) BY <1>11 DEF Range
  <2>3. [i \in 1..Len(t) |-> t[i]] \in Seq(Range(t)) BY <2>1, <2>2
  <2>4. QED BY <2>1, <2>3
<1>13. Len(t) = (n + 1) - m BY <1>7, <1>11
<1>14. \A i \in DOMAIN t : t[i] = FrameHash(LegGuest(c, m + i))
  <2> SUFFICES ASSUME NEW i \in DOMAIN t
               PROVE  t[i] = FrameHash(LegGuest(c, m + i)) OBVIOUS
  <2>1. CASE i \in 1..Len(s) BY <1>7, <1>11, <2>1
  <2>2. CASE i = Len(s) + 1
    <3>1. m + i = n + 1 BY <1>7, <2>2
    <3>2. QED BY <1>5, <1>6, <1>11, <2>2, <3>1
  <2>3. QED BY <1>11, <2>1, <2>2
<1>15. QED BY <1>3, <1>4, <1>6, <1>8, <1>12, <1>13, <1>14 DEF Hashed

LEMMA RanPlays ==
  ASSUME NEW c, Before(c), Ran(c), corrupt' = corrupt,
         pc[c] \in AtSlot => Hashed(c)
  PROVE  PlayInv(c)' /\ (pc'[c] \in AtSlot => Hashed(c)')
<1>0. /\ c \in Suites /\ RpcInv /\ SuiteShapes /\ Playing(c) /\ PlayInv(c)
      /\ leg[c] \in 0..2 /\ frame[c] \in Nat /\ StartFrame(c) \in Nat
      /\ opts[c].snapshotAt \in Nat /\ opts[c].frames \in Nat
      /\ opts[c].snapshotAt >= 1 /\ opts[c].snapshotAt < opts[c].frames
      /\ pc = [d \in Suites |-> pc[d]] /\ frame = [d \in Suites |-> frame[d]]
  BY BeforeFacts
<1>1. PICK n, l, m : n = frame[c] + 1 /\ l = lease[c] /\ m = Horizon(c) OBVIOUS
<1>a. PICK g, old : g = slots[l].state /\ old = slots[l].scheduled OBVIOUS
<1>2. /\ pc[c] = "run" /\ reply[c].status = "ok" /\ frame' = [frame EXCEPT ![c] = n]
      /\ UNCHANGED <<opts, leg, lease, base, mid>>
      /\ CASE leg[c] = 0 /\ n = opts[c].snapshotAt ->
                  Goto(c, "snapshot") /\ Call(c, SlotRequest("snapshot", l))
             [] n = opts[c].frames ->
                  Goto(c, "destroy") /\ Call(c, SlotRequest("destroy", l))
             [] OTHER ->
                  Goto(c, "run") /\ Call(c, RunRequest(l, 1))
  BY <1>1 DEF Ran, Answered
<1>3. /\ frame[c] \in StartFrame(c)..(opts[c].frames - 1)
      /\ HasPlayed(c, g, n) /\ Follows(c, g, old, n, m)
      /\ HeadOnly(c, old) /\ base[c] = ReadyFrame + StartFrame(c)
      /\ l \in DOMAIN slots
  BY <1>0, <1>1, <1>a, <1>2, OwnSlot DEF PlayInv, Running, AtSlot, Before
<1>4. Hashed(c)' BY <1>2, RanHashes DEF AtSlot
<1>5. \E r : Issue(c, r) BY <1>2, Zenon DEF Call
<1>6. reply'[c].status = "none" /\ UNCHANGED <<slots, snapshots>> /\ \A k \in sealing' : k.client # c
  BY <1>0, <1>2, <1>5, Issued
<1>7. PICK s : pc' = [pc EXCEPT ![c] = s] BY <1>2, Zenon DEF Goto
<1>8. pc'[c] = s /\ frame'[c] = n /\ Turned(c, s, l, n) /\ lease'[c] = l
  BY <1>0, <1>1, <1>2, <1>7 DEF Turned
<1>9. /\ StartFrame(c)' = StartFrame(c) /\ (\A j : LegGuest(c, j)' = LegGuest(c, j))
      /\ ScriptOfLeg(c)' = ScriptOfLeg(c) /\ MidGuest(c)' = MidGuest(c)
      /\ HasPlayed(c, g, n)'
  BY <1>2, <1>3, <1>6, <1>8, TurnedSame DEF HasPlayed
<1>10. Follows(c, g, old, n, m)' /\ slots'[l].state = g /\ slots'[l].scheduled = old
  BY <1>a, <1>3, <1>6, <1>9 DEF Follows
<1>11. base'[c] = ReadyFrame + StartFrame(c)' BY <1>2, <1>3, <1>9
<1>12. CASE leg[c] = 0 /\ n = opts[c].snapshotAt
  <2>1. s = "snapshot" BY <1>0, <1>2, <1>7, <1>12 DEF Goto
  <2>2. frame[c] < opts[c].snapshotAt /\ m = n BY <1>0, <1>1, <1>12 DEF Horizon
  <2>3. HeadOnly(c, slots[lease[c]].scheduled)' BY <1>2, <1>3, <1>6, <1>8, <1>10, <2>2 DEF HeadOnly
  <2>4. Follows(c, g, old, n, n)' BY <1>10, <2>2
  <2>5. Snapshotting(c)' BY <1>2, <1>6, <1>8, <1>9, <1>10, <1>12, <2>4 DEF Snapshotting
  <2>6. ~HasMid(c)' BY <1>2, <1>8, <1>12, <2>1 DEF HasMid
  <2>7. QED BY <1>4, <1>6, <1>8, <1>11, <2>1, <2>3, <2>5, <2>6 DEF PlayInv, AtSlot
<1>13. ASSUME s # "snapshot", ~(leg[c] = 0 /\ n = opts[c].snapshotAt)
       PROVE  HasMid(c)' => mid'[c] = SnapshotRef(MidGuest(c)') /\ MidSaved(c)'
  <2>1. HasMid(c)' => HasMid(c) BY <1>0, <1>1, <1>2, <1>8, <1>13 DEF HasMid, AtSlot
  <2>2. QED BY <1>0, <1>2, <1>6, <2>1, MidKept
<1>14. CASE ~(leg[c] = 0 /\ n = opts[c].snapshotAt) /\ n = opts[c].frames
  <2>1. s = "destroy" BY <1>0, <1>2, <1>7, <1>14 DEF Goto
  <2>2. l \in DOMAIN slots' BY <1>3, <1>6
  <2>3. QED BY <1>2, <1>4, <1>6, <1>8, <1>11, <1>13, <1>14, <2>1, <2>2 DEF PlayInv, AtSlot
<1>15. CASE ~(leg[c] = 0 /\ n = opts[c].snapshotAt) /\ n # opts[c].frames
  <2>1. s = "run" /\ Issue(c, RunRequest(l, 1)) BY <1>0, <1>2, <1>7, <1>15 DEF Goto, Call
  <2>2. \A k \in calls' : k.client = c => k.req.budget = 1
    BY <1>0, <1>2, <2>1, Issued, RequestFields
  <2>3. n \in StartFrame(c)..(opts[c].frames - 1) /\ n + 0 = n BY <1>0, <1>1, <1>3, <1>15
  <2>4. Horizon(c)' = m BY <1>0, <1>1, <1>2, <1>8, <1>15 DEF Horizon
  <2>5. HeadOnly(c, slots[lease[c]].scheduled)'
    BY <1>0, <1>1, <1>2, <1>3, <1>6, <1>8, <1>10, <2>1 DEF HeadOnly
  <2>6. Running(c)' BY <1>2, <1>6, <1>8, <1>9, <1>10, <2>2, <2>3, <2>4 DEF Running
  <2>7. QED BY <1>4, <1>6, <1>8, <1>11, <1>13, <1>15, <2>1, <2>5, <2>6 DEF PlayInv, AtSlot
<1>16. QED BY <1>12, <1>14, <1>15

\* A leg starts with the restore of its snapshot.
LEMMA StartsLeg ==
  ASSUME RpcInv, NEW c \in Suites, (Playing(c) /\ reply[c].status = "ok") \/ pc[c] \in Fresh,
         NEW ref, Issue(c, RestoreRequest(ref)), pc'[c] = "restore",
         ref = IF leg'[c] = 2 THEN mid'[c] ELSE READY,
         HasMid(c)' => mid'[c] = SnapshotRef(MidGuest(c)') /\ MidSaved(c)'
  PROVE  PlayInv(c)' /\ (pc'[c] \in AtSlot => Hashed(c)')
<1>1. reply'[c].status = "none" /\ \A k \in calls' : k.client = c => k.req.ref = ref
  BY Issued, RequestFields
<1>2. Restoring(c)' BY <1>1 DEF Restoring
<1>3. QED BY <1>1, <1>2 DEF PlayInv, AtSlot

LEMMA ConnectPlays ==
  ASSUME RpcInv, SuiteShapes, NEW c \in Suites, Connect(c), leg[c] = 0
  PROVE  Playing(c)' => PlayInv(c)' /\ (pc'[c] \in AtSlot => Hashed(c)')
<1>0. pc = [d \in Suites |-> pc[d]] /\ pc[c] \in Fresh /\ UNCHANGED leg
  BY DEF RpcInv, Shapes, Connect, Fresh
<1>1. CASE pc' = [pc EXCEPT ![c] = "panicked"]
  <2>1. pc'[c] = "panicked" BY <1>0, <1>1
  <2>2. ~Playing(c)' BY <2>1 DEF Playing, AtSlot
  <2>3. QED BY <2>2
<1>2. CASE pc' = [pc EXCEPT ![c] = "restore"] /\ Issue(c, RestoreRequest(READY))
  <2>1. pc'[c] = "restore" BY <1>0, <1>2
  <2>2. ~HasMid(c)' /\ leg'[c] # 2 BY <1>0, <2>1 DEF HasMid, AtSlot
  <2>3. QED BY <1>0, <1>2, <2>1, <2>2, StartsLeg
<1>3. QED BY <1>1, <1>2 DEF Connect, Goto, Call

LEMMA DonePlays ==
  ASSUME NEW c, Before(c), ReferenceDone(c) \/ SecondDone(c) \/ ContinuedDone(c), corrupt' = corrupt
  PROVE  Playing(c)' => PlayInv(c)' /\ (pc'[c] \in AtSlot => Hashed(c)')
<1>0. /\ c \in Suites /\ RpcInv /\ SuiteShapes /\ Playing(c) /\ PlayInv(c)
      /\ leg[c] \in 0..2 /\ frame[c] \in Nat
      /\ opts[c].snapshotAt \in Nat /\ opts[c].frames \in Nat
      /\ opts[c].snapshotAt >= 1 /\ opts[c].snapshotAt < opts[c].frames
      /\ pc = [d \in Suites |-> pc[d]] /\ leg = [d \in Suites |-> leg[d]]
  BY BeforeFacts
<1>1. /\ pc[c] = "destroy" /\ reply[c].status = "ok" /\ UNCHANGED <<opts, lease, base, frame, mid>>
  BY DEF ReferenceDone, SecondDone, ContinuedDone, Answered
<1>2. frame[c] >= opts[c].snapshotAt /\ HasMid(c) BY <1>0, <1>1 DEF PlayInv, HasMid, AtSlot
<1>3. mid[c] = SnapshotRef(MidGuest(c)) /\ MidSaved(c) BY <1>0, <1>2 DEF PlayInv
<1>4. ASSUME NEW r, Issue(c, r) PROVE mid'[c] = SnapshotRef(MidGuest(c)') /\ MidSaved(c)'
  <2>1. UNCHANGED snapshots /\ MidGuest(c)' = MidGuest(c) BY <1>1, <1>4 DEF Issue, MidGuest
  <2>2. QED BY <1>1, <1>3, <2>1 DEF MidSaved
<1>5. CASE ReferenceDone(c)
  <2>1. /\ pc' = [pc EXCEPT ![c] = "restore"] /\ Issue(c, RestoreRequest(READY))
        /\ leg' = [leg EXCEPT ![c] = 1]
    BY <1>5 DEF ReferenceDone, Goto, Call
  <2>2. pc'[c] = "restore" /\ leg'[c] # 2 BY <1>0, <2>1
  <2>3. QED BY <1>0, <1>1, <1>4, <2>1, <2>2, StartsLeg
<1>6. CASE SecondDone(c)
  <2>1. /\ pc' = [pc EXCEPT ![c] = "restore"] /\ Issue(c, RestoreRequest(mid[c]))
        /\ leg' = [leg EXCEPT ![c] = 2]
    BY <1>6 DEF SecondDone, Goto, Call
  <2>2. pc'[c] = "restore" /\ leg'[c] = 2 BY <1>0, <2>1
  <2>3. PICK ref : ref = mid[c] OBVIOUS
  <2>4. Issue(c, RestoreRequest(ref)) /\ ref = mid'[c] BY <1>1, <2>1, <2>3
  <2>5. QED BY <1>0, <1>1, <1>4, <2>2, <2>4, StartsLeg
<1>7. CASE ContinuedDone(c) /\ iteration[c] < opts[c].iterations
  <2>1. /\ pc' = [pc EXCEPT ![c] = "restore"] /\ Issue(c, RestoreRequest(READY))
        /\ leg' = [leg EXCEPT ![c] = 0]
    BY <1>7, Zenon DEF ContinuedDone, Goto, Call
  <2>2. pc'[c] = "restore" /\ leg'[c] # 2 BY <1>0, <2>1
  <2>3. QED BY <1>0, <1>1, <1>4, <2>1, <2>2, StartsLeg
<1>8. CASE ContinuedDone(c) /\ ~(iteration[c] < opts[c].iterations)
  <2>1. pc' = [pc EXCEPT ![c] = "done"] BY <1>8, Zenon DEF ContinuedDone, Goto
  <2>2. pc'[c] = "done" BY <1>0, <2>1
  <2>3. ~Playing(c)' BY <2>2 DEF Playing, AtSlot
  <2>4. QED BY <2>3
<1>9. QED BY <1>5, <1>6, <1>7, <1>8

\* Where a step leads.
LEMMA SuiteTurns ==
  ASSUME Shapes, NEW c \in Suites, SuiteSteps(c)
  PROVE  pc'[c] \in Gone \cup {"restore"} \cup AtSlot
<1>1. \E s \in Gone \cup {"restore"} \cup AtSlot : pc' = [pc EXCEPT ![c] = s]
  <2> DEFINE at(s) == pc' = [pc EXCEPT ![c] = s]
  <2>1. \/ at("done") \/ at("panicked") \/ at("restore") \/ at("inject") \/ at("run")
        \/ at("snapshot") \/ at("destroy")
    <3>1. CASE Connect(c) \/ ConnectFails(c) \/ Fails(c) \/ Injected(c)
      BY <3>1, Zenon DEF Connect, ConnectFails, Fails, Injected, Goto
    <3>2. CASE Restored(c) \/ Snapshotted(c)
      BY <3>2, Zenon DEF Restored, Snapshotted, InjectThenRun, Goto
    <3>3. CASE Ran(c) BY <3>3, Zenon DEF Ran, Goto
    <3>4. CASE ReferenceDone(c) \/ SecondDone(c) \/ ContinuedDone(c)
      BY <3>4, Zenon DEF ReferenceDone, SecondDone, ContinuedDone, Goto
    <3>5. QED BY <3>1, <3>2, <3>3, <3>4 DEF SuiteSteps, Step, DriverStep
  <2>2. QED BY <2>1, Zenon DEF Gone, AtSlot
<1>2. PICK s \in Gone \cup {"restore"} \cup AtSlot : pc' = [pc EXCEPT ![c] = s] BY <1>1
<1>3. QED BY <1>2 DEF Shapes

LEMMA SuitePlays ==
  ASSUME RpcInv, RpcInv', PlaysInv, NEW own, OwnInv(own), NEW c \in Suites, SuiteSteps(c)
  PROVE  PlaysInv'
<1>0. /\ SuiteShapes' /\ corrupt' = corrupt /\ opts' = opts
      /\ \A d \in Suites : d # c => Stays(d)
  BY SuiteStays DEF PlaysInv, RpcInv
<1>1. Client(c) /\ c \in Clients BY SuiteClient, Kinds
<1>2. SuiteShapes /\ SealsRan /\ (pc[c] \in AtSlot => Hashed(c)) /\ (Playing(c) => PlayInv(c))
      /\ pc = [d \in Suites |-> pc[d]]
  BY DEF PlaysInv, Playing, RpcInv, Shapes
<1>3. Playing(c) => Before(c) BY <1>2 DEF Before
<1>4. /\ Playing(c)' => PlayInv(c)'
      /\ pc'[c] \in AtSlot => Hashed(c)'
      /\ pc'[c] # "start"
  <2>1. pc'[c] # "start" BY SuiteTurns DEF RpcInv, AtSlot, Gone
  <2>2. CASE Connect(c)
    <3>1. leg[c] = 0 BY <2>2 DEF PlaysInv, Connect
    <3>2. RpcInv /\ SuiteShapes BY <1>2
    <3>3. Playing(c)' => PlayInv(c)' /\ (pc'[c] \in AtSlot => Hashed(c)')
      BY <2>2, <3>1, <3>2, ConnectPlays
    <3>4. pc'[c] \in AtSlot => Hashed(c)'
      <4>1. pc' = [pc EXCEPT ![c] = "panicked"] \/ pc' = [pc EXCEPT ![c] = "restore"]
        BY <2>2, Zenon DEF Connect, Goto
      <4>2. QED BY <1>2, <4>1 DEF AtSlot
    <3>5. QED BY <2>1, <3>3, <3>4
  <2>3. CASE ConnectFails(c) \/ Fails(c)
    <3>1. pc' = [pc EXCEPT ![c] = "done"] BY <2>3 DEF ConnectFails, Fails, Goto
    <3>2. pc'[c] = "done" BY <1>2, <3>1
    <3>3. QED BY <3>2 DEF Playing, AtSlot
  <2>4. ASSUME Restored(c) \/ Injected(c) \/ Ran(c) \/ Snapshotted(c)
               \/ ReferenceDone(c) \/ SecondDone(c) \/ ContinuedDone(c)
        PROVE  Before(c)
    <3>1. Playing(c)
      BY <2>4 DEF Restored, Injected, Ran, Snapshotted, ReferenceDone, SecondDone, ContinuedDone,
         Answered, Playing, AtSlot
    <3>2. QED BY <1>3, <3>1
  <2>5. CASE Restored(c) BY <1>0, <2>1, <2>4, <2>5, RestoredPlays
  <2>6. CASE Injected(c) BY <1>0, <1>2, <2>1, <2>4, <2>6, InjectedPlays
  <2>7. CASE Ran(c) BY <1>0, <1>2, <2>1, <2>4, <2>7, RanPlays
  <2>8. CASE Snapshotted(c) BY <1>0, <1>2, <2>1, <2>4, <2>8, SnapshottedPlays
  <2>9. CASE ReferenceDone(c) \/ SecondDone(c) \/ ContinuedDone(c)
    <3>1. pc'[c] \in {"restore", "done"}
      <4>1. pc' = [pc EXCEPT ![c] = "restore"] \/ pc' = [pc EXCEPT ![c] = "done"]
        BY <2>9, Zenon DEF ReferenceDone, SecondDone, ContinuedDone, Goto
      <4>2. QED BY <1>2, <4>1
    <3>2. Playing(c)' => PlayInv(c)' /\ (pc'[c] \in AtSlot => Hashed(c)')
      BY <1>0, <2>4, <2>9, DonePlays
    <3>3. QED BY <3>1, <3>2 DEF AtSlot
  <2>10. QED BY <2>2, <2>3, <2>5, <2>6, <2>7, <2>8, <2>9 DEF SuiteSteps, Step, DriverStep
<1>5. ASSUME NEW d \in Suites, d # c
      PROVE  /\ Playing(d)' => PlayInv(d)'
             /\ pc'[d] \in AtSlot => Hashed(d)'
             /\ pc'[d] = "start" => leg'[d] = 0
  <2>1. Stays(d) /\ (Playing(d) => PlayInv(d)) /\ (pc[d] \in AtSlot => Hashed(d))
        /\ (pc[d] = "start" => leg[d] = 0)
    BY <1>0, <1>5 DEF PlaysInv, Playing
  <2>2. Playing(d)' => PlayInv(d)' BY <1>0, <1>1, <1>5, <2>1, OthersPlay
  <2>3. Hashed(d) => Hashed(d)' BY <1>0, <2>1 DEF Stays, Hashed, LegGuest, ScriptOfLeg, StartFrame
  <2>4. QED BY <2>1, <2>2, <2>3 DEF Stays
<1>6. c \notin Gates BY Kinds
<1>7. pc'[c] = "snapshot" => Snapshotting(c)'
  <2>1. SUFFICES ASSUME pc'[c] = "snapshot" PROVE Playing(c)' BY <1>4 DEF PlayInv
  <2>2. reply'[c].status # "rpc"
    <3>1. CASE reply'[c].status = "none" BY <3>1
    <3>2. CASE reply'[c] = reply[c]
      <4>1. PICK s, l, r : Goes(c, s, l, r) \/ Stops(c, s) BY <1>1 DEF Client
      <4>2. Stage(c)' = s BY <1>1, <4>1 DEF Goes, Stops, Moved
      <4>3. s = "snapshot" BY <1>6, <2>1, <4>2, Stages
      <4>4. Issue(c, r) BY <4>1, <4>3 DEF Goes, Stops, Gone
      <4>5. reply'[c] = NoReply BY <1>1, <4>4 DEF Issue, RpcInv, Shapes
      <4>6. QED BY <4>5 DEF NoReply
    <3>3. QED BY <1>1, <3>1, <3>2, ClientEffect
  <2>3. QED BY <2>1, <2>2 DEF Playing, AtSlot
<1>8. SealsRan' BY <1>0, <1>1, <1>2, <1>6, <1>7, ClientSeals
<1>9. \A d \in Suites : /\ Playing(d)' => PlayInv(d)'
                        /\ pc'[d] \in AtSlot => Hashed(d)'
                        /\ pc'[d] = "start" => leg'[d] = 0
  BY <1>4, <1>5
<1>10. QED BY <1>0, <1>8, <1>9 DEF PlaysInv, Playing

----
(* The steps of gates and of the worker, in which no suite moves. *)

LEMMA AllStay ==
  ASSUME SuiteShapes, UNCHANGED driverVars
  PROVE  SuiteShapes' /\ \A d \in Suites : Stays(d)
  BY DEF SuiteShapes, Stays, driverVars

LEMMA PlaysStill ==
  ASSUME PlaysInv, UNCHANGED driverVars, corrupt' = corrupt, SealsRan',
         \A d \in Suites : Playing(d)' => PlayInv(d)'
  PROVE  PlaysInv'
<1>1. SuiteShapes' /\ \A d \in Suites : Stays(d) BY AllStay DEF PlaysInv
<1>2. ASSUME NEW d \in Suites
      PROVE  /\ pc'[d] \in AtSlot => Hashed(d)'
             /\ pc'[d] = "start" => leg'[d] = 0
  <2>1. Stays(d) BY <1>1
  <2>2. Hashed(d) => Hashed(d)' BY <2>1 DEF Stays, Hashed, LegGuest, ScriptOfLeg, StartFrame
  <2>3. (pc[d] \in AtSlot => Hashed(d)) /\ (pc[d] = "start" => leg[d] = 0) BY DEF PlaysInv
  <2>4. QED BY <2>1, <2>2, <2>3 DEF Stays
<1>3. QED BY <1>1, <1>2 DEF PlaysInv, Playing

LEMMA GatePlays ==
  ASSUME RpcInv, RpcInv', PlaysInv, NEW c \in Gates, GateSteps(c)
  PROVE  PlaysInv'
<1>1. Client(c) /\ c \in Clients /\ c \notin Suites /\ UNCHANGED driverVars
  BY GateClient, Kinds DEF GateSteps
<1>2. corrupt' = corrupt BY <1>1 DEF Client, Goes, Issue, Stops
<1>3. SuiteShapes /\ SealsRan /\ \A d \in Suites : Stays(d) /\ (Playing(d) => PlayInv(d))
  BY <1>1, AllStay DEF PlaysInv, Playing
<1>4. \A d \in Suites : Playing(d)' => PlayInv(d)' BY <1>1, <1>2, <1>3, OthersPlay
<1>5. gPc'[c] # "snapshot" BY NoGateSnapshots DEF RpcInv
<1>6. SealsRan' BY <1>1, <1>3, <1>5, ClientSeals
<1>7. QED BY <1>1, <1>2, <1>4, <1>6, PlaysStill

\* What each handler serves.
LEMMA Serves ==
  ASSUME NEW k
  PROVE  /\ RestoreSnapshot(k) => k.req.op = "restore"
         /\ SlotGone(k) => k.req.op # "restore" /\ k.req.lease \notin DOMAIN slots
         /\ InjectInputs(k) => k.req.op = "inject" /\ k.req.lease \in DOMAIN slots
         /\ Run(k) => k.req.op = "run" /\ k.req.lease \in DOMAIN slots
         /\ Read(k) => k.req.op \in {"read", "framebuffer"} /\ k.req.lease \in DOMAIN slots
         /\ TakeSnapshot(k) => k.req.op = "snapshot" /\ k.req.lease \in DOMAIN slots
         /\ DestroyVm(k) => k.req.op = "destroy" /\ k.req.lease \in DOMAIN slots
<1>1. RestoreSnapshot(k) => k.req.op = "restore" BY DEF RestoreSnapshot
<1>2. SlotGone(k) => k.req.op # "restore" /\ k.req.lease \notin DOMAIN slots BY DEF SlotGone
<1>3. InjectInputs(k) => k.req.op = "inject" /\ k.req.lease \in DOMAIN slots
  BY DEF InjectInputs, WithSlot
<1>4. Run(k) => k.req.op = "run" /\ k.req.lease \in DOMAIN slots BY DEF Run, WithSlot
<1>5. Read(k) => k.req.op \in {"read", "framebuffer"} /\ k.req.lease \in DOMAIN slots
  BY DEF Read, WithSlot
<1>6. TakeSnapshot(k) => k.req.op = "snapshot" /\ k.req.lease \in DOMAIN slots
  BY DEF TakeSnapshot, WithSlot
<1>7. DestroyVm(k) => k.req.op = "destroy" /\ k.req.lease \in DOMAIN slots
  BY DEF DestroyVm, WithSlot
<1>8. QED BY <1>1, <1>2, <1>3, <1>4, <1>5, <1>6, <1>7

LEMMA HandleRests ==
  ASSUME NEW k, Handle(k)
  PROVE  corrupt' = corrupt /\ snapshots' = snapshots /\ calls' = calls \ {k}
  BY DEF Handle, RestoreSnapshot, SlotGone, InjectInputs, Run, Read, TakeSnapshot, DestroyVm

\* An injection schedules, and a run runs, one slot.
LEMMA InjectsSlot ==
  ASSUME SlotsOK, NEW k, InjectInputs(k), k.req.lease \in DOMAIN slots
  PROVE  LET l == k.req.lease IN
         \/ UNCHANGED slots
         \/ /\ DOMAIN slots' = DOMAIN slots /\ \A i \in DOMAIN slots : i # l => slots'[i] = slots[i]
            /\ slots'[l].state = slots[l].state
            /\ slots'[l].scheduled = Over(k.req.events, slots[l].scheduled)
<1>1. PICK x : x = Over(k.req.events, slots[k.req.lease].scheduled) OBVIOUS
<1>2. PICK l : l = k.req.lease OBVIOUS
<1>3. /\ slots = [i \in DOMAIN slots |-> slots[i]]
      /\ slots[l] = [state |-> slots[l].state, scheduled |-> slots[l].scheduled]
      /\ l \in DOMAIN slots
  BY <1>2 DEF SlotsOK
<1>4. UNCHANGED slots \/ slots' = [slots EXCEPT ![l].scheduled = x] BY <1>1, <1>2 DEF InjectInputs
<1>5. ASSUME slots' = [slots EXCEPT ![l].scheduled = x]
      PROVE  /\ DOMAIN slots' = DOMAIN slots /\ \A i \in DOMAIN slots : i # l => slots'[i] = slots[i]
             /\ slots'[l] = [state |-> slots[l].state, scheduled |-> x]
  <2>1. PICK s : s = [slots[l] EXCEPT !.scheduled = x] OBVIOUS
  <2>2. s = [state |-> slots[l].state, scheduled |-> x] BY <1>3, <2>1, SlotFields
  <2>3. slots' = [slots EXCEPT ![l] = s] BY <1>3, <1>5, <2>1
  <2>4. QED BY <1>3, <2>2, <2>3
<1>6. QED BY <1>1, <1>2, <1>4, <1>5

LEMMA RunsSlot ==
  ASSUME SlotsOK, NEW k, Run(k), k.req.lease \in DOMAIN slots
  PROVE  LET l == k.req.lease IN
         /\ DOMAIN slots' = DOMAIN slots /\ \A i \in DOMAIN slots : i # l => slots'[i] = slots[i]
         /\ slots'[l].state = RunFrames(slots[l].state, slots[l].scheduled, k.req.budget)
         /\ slots'[l].scheduled = slots[l].scheduled
<1>1. PICK x : x = RunFrames(slots[k.req.lease].state, slots[k.req.lease].scheduled, k.req.budget)
  OBVIOUS
<1>2. PICK l : l = k.req.lease OBVIOUS
<1>3. /\ slots = [i \in DOMAIN slots |-> slots[i]]
      /\ slots[l] = [state |-> slots[l].state, scheduled |-> slots[l].scheduled]
      /\ l \in DOMAIN slots
  BY <1>2 DEF SlotsOK
<1>4. slots' = [slots EXCEPT ![l].state = x] BY <1>1, <1>2 DEF Run
<1>5. PICK s : s = [slots[l] EXCEPT !.state = x] OBVIOUS
<1>6. s = [state |-> x, scheduled |-> slots[l].scheduled] BY <1>3, <1>5, SlotFields
<1>7. slots' = [slots EXCEPT ![l] = s] BY <1>3, <1>4, <1>5
<1>8. QED BY <1>1, <1>2, <1>3, <1>6, <1>7

\* Only guests that have run are snapshotted, whatever call is served.
LEMMA HandleSeals ==
  ASSUME StoreOK, NEW own, OwnInv(own), SealsRan, NEW k \in calls, Handle(k)
  PROVE  SealsRan'
<1>0. SlotsOK BY DEF StoreOK
<1>1. ASSUME NEW i \in DOMAIN slots', i \in 1..nextSlot
      PROVE  /\ i \in DOMAIN slots
             /\ slots[i].state.running = TRUE => slots'[i].state.running = TRUE
  <2>1. CASE UNCHANGED slots BY <1>1, <2>1
  <2>2. CASE RestoreSnapshot(k) /\ ~UNCHANGED slots
    <3>1. \E s : slots' = Over(Entry(nextSlot + 1, s), slots)
      BY <2>2, Zenon DEF RestoreSnapshot, NextSlotId
    <3>a. PICK id : id = nextSlot + 1 OBVIOUS
    <3>b. PICK s : slots' = Over(Entry(id, s), slots) BY <3>1, <3>a
    <3>2. /\ DOMAIN Over(Entry(id, s), slots) = DOMAIN slots \cup {id}
          /\ \A j \in DOMAIN slots : j # id => Over(Entry(id, s), slots)[j] = slots[j]
      BY DEF Over, Entry
    <3>3. i # id BY <1>1, <3>a DEF OwnInv, Owned
    <3>4. QED BY <1>1, <3>b, <3>2, <3>3
  <2>3. CASE InjectInputs(k) BY <1>0, <1>1, <2>3, InjectsSlot, Serves
  <2>4. CASE Run(k)
    <3>1. k.req.budget \in Nat /\ k.req.lease \in DOMAIN slots BY <2>4, Serves DEF StoreOK
    <3>2. /\ DOMAIN slots' = DOMAIN slots
          /\ \A j \in DOMAIN slots : j # k.req.lease => slots'[j] = slots[j]
          /\ slots'[k.req.lease].state =
               RunFrames(slots[k.req.lease].state, slots[k.req.lease].scheduled, k.req.budget)
      BY <1>0, <2>4, <3>1, RunsSlot
    <3>3. slots[k.req.lease].state.running = TRUE => slots'[k.req.lease].state.running = TRUE
      <4>1. PICK g, s, n : /\ g = slots[k.req.lease].state /\ s = slots[k.req.lease].scheduled
                           /\ n = k.req.budget
        OBVIOUS
      <4>2. g.running = TRUE => RunFrames(g, s, n).running = TRUE BY <3>1, <4>1, RunRan
      <4>3. QED BY <3>2, <4>1, <4>2
    <3>4. QED BY <1>1, <3>2, <3>3
  <2>5. CASE DestroyVm(k) BY <1>0, <1>1, <2>5 DEF DestroyVm, Restrict
  <2>6. QED BY <2>1, <2>2, <2>3, <2>4, <2>5 DEF Handle, SlotGone, Read, TakeSnapshot
<1>2. \A j \in calls' : j.req.op = "snapshot" /\ j.req.lease \in DOMAIN slots' =>
        slots'[j.req.lease].state.running = TRUE
  <2> SUFFICES ASSUME NEW j \in calls', j.req.op = "snapshot", j.req.lease \in DOMAIN slots'
               PROVE  slots'[j.req.lease].state.running = TRUE OBVIOUS
  <2>1. j \in calls /\ j.req.lease \in 1..nextSlot BY HandleRests DEF OwnInv, Owned
  <2>2. QED BY <1>1, <2>1 DEF SealsRan
<1>3. \A j \in sealing' : j.guest.running = TRUE
  <2>1. CASE sealing' = sealing BY <2>1 DEF SealsRan
  <2>2. CASE TakeSnapshot(k)
    <3>1. slots[k.req.lease].state.running = TRUE BY <2>2, Serves DEF SealsRan
    <3>2. \A j \in sealing' : j \in sealing \/ j.guest = slots[k.req.lease].state
      BY <2>2 DEF TakeSnapshot
    <3>3. QED BY <3>1, <3>2 DEF SealsRan
  <2>3. QED BY <2>1, <2>2 DEF Handle, RestoreSnapshot, SlotGone, InjectInputs, Run, Read, DestroyVm
<1>4. QED BY <1>2, <1>3 DEF SealsRan

----
(* The call of a suite is served. *)

Served(c, k) ==
  /\ RpcInv /\ StoreOK /\ SuiteShapes /\ Playing(c) /\ PlayInv(c) /\ (\E own : OwnInv(own))
  /\ k \in calls /\ k.client = c /\ Handle(k) /\ UNCHANGED driverVars

\* Where suite c is in its leg is as before.
SameLeg(c) ==
  /\ corrupt' = corrupt /\ Stays(c) /\ snapshots' = snapshots
  /\ (\A j : LegGuest(c, j)' = LegGuest(c, j))
  /\ ScriptOfLeg(c)' = ScriptOfLeg(c) /\ StartFrame(c)' = StartFrame(c)
  /\ Horizon(c)' = Horizon(c)
  /\ HasMid(c)' => mid'[c] = SnapshotRef(MidGuest(c)') /\ MidSaved(c)'
  /\ pc'[c] \in AtSlot => base'[c] = ReadyFrame + StartFrame(c)'

LEMMA ServedFacts ==
  ASSUME NEW c, NEW k, Served(c, k)
  PROVE  /\ c \in Suites /\ RpcInv /\ SlotsOK /\ PlayInv(c) /\ SameLeg(c)
         /\ reply[c].status = "none" /\ k.awaited /\ k.req.op = pc[c]
         /\ pc[c] # "restore" => k.req.lease = lease[c]
         /\ \A j \in calls' : j.client # c
         /\ \A answer : Deliver(k, answer) => reply'[c] = answer
         /\ pc[c] \in AtSlot => lease[c] \in DOMAIN slots
         /\ leg[c] \in 0..2 /\ frame[c] \in Nat /\ opts[c].script \in Seq(Pads)
         /\ opts[c].snapshotAt \in Nat /\ opts[c].frames \in Nat
         /\ opts[c].snapshotAt >= 1 /\ opts[c].snapshotAt < opts[c].frames
<1>0. /\ RpcInv /\ StoreOK /\ SuiteShapes /\ Playing(c) /\ PlayInv(c) /\ k \in calls
      /\ k.client = c /\ Handle(k) /\ UNCHANGED driverVars
  BY DEF Served
<1>1. c \in Suites /\ c \in Clients /\ k.awaited \in BOOLEAN
  BY <1>0, Kinds DEF Playing, RpcInv, CallOK
<1>2. /\ k.awaited /\ reply[c].status = "none" /\ k.req.op = pc[c]
      /\ pc[c] # "restore" => k.req.lease = lease[c]
      /\ \A j \in calls : j.client = c => j = k
  BY <1>0, OwnCall
<1>3. corrupt' = corrupt /\ snapshots' = snapshots /\ calls' = calls \ {k} BY <1>0, HandleRests
<1>4. Stays(c) BY <1>0, <1>1, AllStay
<1>5. /\ (\A j : LegGuest(c, j)' = LegGuest(c, j))
      /\ ScriptOfLeg(c)' = ScriptOfLeg(c) /\ StartFrame(c)' = StartFrame(c)
      /\ Horizon(c)' = Horizon(c) /\ MidGuest(c)' = MidGuest(c) /\ HasMid(c)' = HasMid(c)
  BY <1>3, <1>4 DEF Stays, LegGuest, ScriptOfLeg, StartFrame, Horizon, MidGuest, HasMid
<1>6. HasMid(c)' => mid'[c] = SnapshotRef(MidGuest(c)') /\ MidSaved(c)'
  <2>1. HasMid(c) => mid[c] = SnapshotRef(MidGuest(c)) /\ MidSaved(c) BY <1>0 DEF PlayInv
  <2>2. QED BY <1>3, <1>4, <1>5, <2>1 DEF Stays, MidSaved
<1>7. pc'[c] \in AtSlot => base'[c] = ReadyFrame + StartFrame(c)'
  BY <1>0, <1>4, <1>5 DEF PlayInv, Stays
<1>8. SameLeg(c) BY <1>3, <1>4, <1>5, <1>6, <1>7 DEF SameLeg
<1>9. \A answer : Deliver(k, answer) => reply'[c] = answer BY <1>0, <1>1, <1>2, Answers
<1>10. pc[c] \in AtSlot => lease[c] \in DOMAIN slots
  <2>1. pc[c] \in AtSlot \ {"destroy"} => lease[c] \in DOMAIN slots BY <1>0, OwnSlot DEF Served
  <2>2. pc[c] = "destroy" => lease[c] \in DOMAIN slots BY <1>0, <1>2 DEF PlayInv
  <2>3. QED BY <2>1, <2>2
<1>11. /\ leg[c] \in 0..2 /\ opts[c].script \in Seq(Pads)
       /\ opts[c].snapshotAt \in Nat /\ opts[c].frames \in Nat
       /\ opts[c].snapshotAt >= 1 /\ opts[c].snapshotAt < opts[c].frames
  BY <1>0, <1>1, OptionsFacts
<1>12. frame[c] \in Nat /\ SlotsOK BY <1>0, <1>1 DEF SuiteShapes, StoreOK
<1>13. QED BY <1>0, <1>1, <1>2, <1>3, <1>8, <1>9, <1>10, <1>11, <1>12

\* A leg starts from READY, or from the guest its iteration snapshotted.
LEMMA RestoreServed ==
  ASSUME NEW c, NEW k, Served(c, k), pc[c] = "restore"
  PROVE  PlayInv(c)'
<1>0. /\ c \in Suites /\ RpcInv /\ PlayInv(c) /\ SameLeg(c)
      /\ reply[c].status = "none" /\ k.awaited /\ k.req.op = "restore"
      /\ \A answer : Deliver(k, answer) => reply'[c] = answer
      /\ leg[c] \in 0..2 /\ opts[c].snapshotAt \in Nat /\ opts[c].script \in Seq(Pads)
  BY ServedFacts
<1>1. StoreOK /\ SuiteShapes /\ k \in calls /\ k.client = c /\ Handle(k) BY DEF Served
<1>2. RestoreSnapshot(k) BY <1>0, <1>1, Serves DEF Handle
<1>3. PICK ref : ref = k.req.ref OBVIOUS
<1>4. ref = IF leg[c] = 2 THEN mid[c] ELSE READY BY <1>0, <1>1, <1>3 DEF PlayInv, Restoring
<1>5. leg[c] = 2 => /\ ref = SnapshotRef(MidGuest(c)) /\ ref # READY
                    /\ ref \in DOMAIN snapshots /\ snapshots[ref] = MidGuest(c)
  BY <1>0, <1>4, RefNotReady DEF PlayInv, HasMid, MidSaved
<1> DEFINE saved == snapshots[ref]
           made == CASE ref = READY -> ReadyGuest
                     [] ref # READY /\ corrupt -> [saved EXCEPT !.nonzero = @ + 1]
                     [] OTHER -> saved
<1>6. PICK guest : guest = made OBVIOUS
<1>7. PICK id : id = nextSlot + 1 OBVIOUS
<1>8. PICK slot : slot = [state |-> guest, scheduled |-> << >>] OBVIOUS
<1>9. slots' = Over(Entry(id, slot), slots) /\ Deliver(k, [status |-> "ok", lease |-> id, guest |-> guest])
  BY <1>2, <1>3, <1>4, <1>5, <1>6, <1>7, <1>8 DEF RestoreSnapshot, NextSlotId
<1>10. slots'[id] = slot BY <1>9 DEF Over, Entry
<1>11. reply'[c] = [status |-> "ok", lease |-> id, guest |-> guest] BY <1>0, <1>9
<1>12. HasPlayed(c, guest, StartFrame(c))
  <2>1. CASE leg[c] # 2
    <3>1. guest = ReadyGuest /\ StartFrame(c) = 0 BY <1>4, <1>6, <2>1 DEF StartFrame
    <3>2. QED BY <1>0, <1>1, <2>1, <3>1, LegStarts, FixtureAssumption DEF HasPlayed, ReadyGuest
  <2>2. CASE leg[c] = 2
    <3>1. guest = SavedGuest(corrupt, opts[c])
      <4>1. saved = MidGuest(c) /\ ref # READY BY <1>5, <2>2
      <4>2. guest = IF corrupt THEN [saved EXCEPT !.nonzero = @ + 1] ELSE saved BY <1>6, <4>1
      <4>3. PICK m, o, bad : m = MidGuest(c) /\ o = opts[c] /\ bad = corrupt OBVIOUS
      <4>4. SavedGuest(bad, o) = IF bad THEN [m EXCEPT !.nonzero = @ + 1] ELSE m
        BY <1>0, <4>3, SavedIs DEF MidGuest
      <4>5. QED BY <4>1, <4>2, <4>3, <4>4
    <3>2. SavedGuest(corrupt, opts[c]).counter = ReadyFrame + StartFrame(c)
      BY <1>0, <2>2, SavedFields DEF StartFrame
    <3>3. QED BY <1>0, <1>1, <2>2, <3>1, <3>2, LegStarts DEF HasPlayed
  <2>3. QED BY <2>1, <2>2
<1> HIDE DEF saved, made
<1>13. Restoring(c)'
  <2>1. reply'[c].status = "ok" /\ reply'[c].lease = id /\ reply'[c].guest = guest BY <1>11
  <2>2. slots'[reply'[c].lease].state = guest /\ slots'[reply'[c].lease].scheduled = << >>
    BY <1>8, <1>10, <2>1
  <2>3. HasPlayed(c, guest, StartFrame(c))' BY <1>0, <1>12 DEF HasPlayed, SameLeg
  <2>4. QED BY <2>1, <2>2, <2>3 DEF Restoring
<1>14. pc'[c] = "restore" /\ reply'[c].status = "ok" BY <1>0, <1>11 DEF SameLeg, Stays
<1>15. QED BY <1>0, <1>13, <1>14 DEF PlayInv, SameLeg, AtSlot

\* The events are accepted, and put over the schedule.
LEMMA InjectServed ==
  ASSUME NEW c, NEW k, Served(c, k), pc[c] = "inject"
  PROVE  PlayInv(c)'
<1>0. /\ c \in Suites /\ RpcInv /\ SlotsOK /\ PlayInv(c) /\ SameLeg(c)
      /\ reply[c].status = "none" /\ k.awaited /\ k.req.op = "inject"
      /\ k.req.lease = lease[c] /\ lease[c] \in DOMAIN slots /\ frame[c] \in Nat
      /\ \A answer : Deliver(k, answer) => reply'[c] = answer
      /\ leg[c] \in 0..2 /\ opts[c].snapshotAt \in Nat
  BY ServedFacts DEF AtSlot
<1>1. k \in calls /\ k.client = c /\ Handle(k) BY DEF Served
<1>2. PICK l, e : l = lease[c] /\ e = k.req.events OBVIOUS
<1>3. PICK g, old, all : g = slots[l].state /\ old = slots[l].scheduled /\ all = Over(e, old)
  OBVIOUS
<1>4. /\ Injecting(c) /\ HeadOnly(c, old)
      /\ \A at \in DOMAIN e : at \in Nat /\ at > ReadyFrame + frame[c]
      /\ HeadOnly(c, e) /\ Follows(c, g, all, frame[c], Horizon(c))
      /\ HasPlayed(c, g, frame[c])
      /\ frame[c] \in {StartFrame(c)} \cup (IF leg[c] = 0 THEN {opts[c].snapshotAt} ELSE {})
  BY <1>0, <1>1, <1>2, <1>3 DEF PlayInv, Injecting, AtSlot
<1>5. g.counter = ReadyFrame + frame[c] BY <1>4 DEF HasPlayed
<1>6. InjectInputs(k) BY <1>0, <1>1, Serves DEF Handle
<1>7. ~\E at \in DOMAIN e : at <= g.counter BY <1>0, <1>4, <1>5, FixtureAssumption
<1>8. Deliver(k, Answer(g)) /\ slots' = [slots EXCEPT ![l].scheduled = Over(e, @)]
  BY <1>0, <1>2, <1>3, <1>6, <1>7 DEF InjectInputs
<1>9. slots'[l].state = g /\ slots'[l].scheduled = all
  <2>1. /\ slots = [i \in DOMAIN slots |-> slots[i]] /\ l \in DOMAIN slots
        /\ slots[l] = [state |-> g, scheduled |-> old]
    BY <1>0, <1>2, <1>3 DEF SlotsOK
  <2>2. slots' = [slots EXCEPT ![l].scheduled = all] BY <1>3, <1>8, <2>1
  <2>3. PICK s : s = [slots[l] EXCEPT !.scheduled = all] OBVIOUS
  <2>4. s = [state |-> g, scheduled |-> all] BY <2>1, <2>3
  <2>5. slots' = [slots EXCEPT ![l] = s] BY <2>1, <2>2, <2>3
  <2>6. QED BY <2>1, <2>4, <2>5
<1>10. reply'[c].status = "ok" BY <1>0, <1>8 DEF Answer
<1>11. HeadOnly(c, all)
  <2>1. DOMAIN all = DOMAIN e \cup DOMAIN old BY <1>3, OverFacts
  <2>2. QED BY <1>4, <2>1 DEF HeadOnly
<1>12. pc'[c] = "inject" /\ lease'[c] = l /\ frame'[c] = frame[c] /\ leg'[c] = leg[c]
       /\ opts'[c] = opts[c]
  BY <1>0, <1>2 DEF SameLeg, Stays
<1>13. HeadOnly(c, slots[lease[c]].scheduled)' BY <1>9, <1>11, <1>12 DEF HeadOnly
<1>14. HasPlayed(c, g, frame[c])' /\ Follows(c, g, all, frame[c], Horizon(c))'
  BY <1>0, <1>4, <1>12 DEF HasPlayed, Follows, SameLeg
<1>15. Injecting(c)' BY <1>0, <1>4, <1>9, <1>10, <1>12, <1>14 DEF Injecting, SameLeg
<1>16. QED BY <1>0, <1>10, <1>12, <1>13, <1>15 DEF PlayInv, SameLeg

\* The next frame plays the next word.
LEMMA RunServed ==
  ASSUME NEW c, NEW k, Served(c, k), pc[c] = "run"
  PROVE  PlayInv(c)'
<1>0. /\ c \in Suites /\ RpcInv /\ SlotsOK /\ PlayInv(c) /\ SameLeg(c)
      /\ reply[c].status = "none" /\ k.awaited /\ k.req.op = "run"
      /\ k.req.lease = lease[c] /\ lease[c] \in DOMAIN slots /\ frame[c] \in Nat
      /\ \A answer : Deliver(k, answer) => reply'[c] = answer
      /\ leg[c] \in 0..2 /\ opts[c].snapshotAt \in Nat /\ opts[c].frames \in Nat
      /\ opts[c].snapshotAt >= 1 /\ opts[c].snapshotAt < opts[c].frames
  BY ServedFacts DEF AtSlot
<1>1. k \in calls /\ k.client = c /\ Handle(k) BY DEF Served
<1>2. PICK l, n : l = lease[c] /\ n = frame[c] OBVIOUS
<1>3. PICK g, old : g = slots[l].state /\ old = slots[l].scheduled OBVIOUS
<1>4. /\ HeadOnly(c, old) /\ HasPlayed(c, g, n) /\ Follows(c, g, old, n, Horizon(c))
      /\ n \in StartFrame(c)..(opts[c].frames - 1) /\ k.req.budget = 1
  <2>1. Running(c) /\ HeadOnly(c, old) BY <1>0, <1>2, <1>3 DEF PlayInv, AtSlot
  <2>2. PICK ran : ran = frame[c] + (IF reply[c].status = "ok" THEN 1 ELSE 0) OBVIOUS
  <2>3. ran = n BY <1>0, <1>2, <2>2
  <2>4. HasPlayed(c, g, ran) /\ Follows(c, g, old, ran, Horizon(c))
    BY <1>2, <1>3, <2>1, <2>2, Zenon DEF Running
  <2>5. n \in StartFrame(c)..(opts[c].frames - 1) /\ k.req.budget = 1
    BY <1>0, <1>1, <1>2, <2>1, Zenon DEF Running
  <2>6. QED BY <2>1, <2>3, <2>4, <2>5
<1>5. n \in Nat /\ g.counter \in Nat /\ g.counter = ReadyFrame + n /\ DOMAIN old \subseteq Nat
  BY <1>0, <1>2, <1>4, FixtureAssumption DEF HasPlayed, HeadOnly
<1>6. Run(k) BY <1>0, <1>1, Serves DEF Handle
<1>7. PICK h : h = FrameMark(g, old) OBVIOUS
<1>8. RunFrames(g, old, 1) = h BY <1>7, RunOne
<1>9. slots'[l].state = h /\ slots'[l].scheduled = old
  BY <1>0, <1>2, <1>3, <1>4, <1>6, <1>8, RunsSlot
<1>10. Deliver(k, Answer(h)) BY <1>0, <1>2, <1>3, <1>4, <1>6, <1>8 DEF Run
<1>11. reply'[c].status = "ok" /\ reply'[c].guest = h BY <1>0, <1>10 DEF Answer
<1>12. Horizon(c) \in Nat /\ n + 1 <= Horizon(c) BY <1>0, <1>2, <1>4, <1>5 DEF Horizon
<1>13. h.counter = ReadyFrame + (n + 1) /\ h.counter = g.counter + 1
  <2>1. FrameMark(g, old).counter = g.counter + 1 BY MarkFields
  <2>2. g.counter + 1 = ReadyFrame + (n + 1) BY <1>5, FixtureAssumption
  <2>3. QED BY <1>7, <2>1, <2>2
<1>14. h = LegGuest(c, n + 1)
  <2>1. n + 1 \in n..Horizon(c) /\ n + 1 >= 1 /\ n >= StartFrame(c)
    BY <1>0, <1>4, <1>5, <1>12 DEF StartFrame
  <2>2. LivePad(g, old, ReadyFrame + (n + 1)) = LiveWord(ScriptOfLeg(c), n + 1)
    BY <1>4, <2>1 DEF Follows
  <2>3. QED BY <1>0, <1>4, <1>5, <1>7, <2>1, <2>2, PlaysOn DEF Served
<1>15. HasPlayed(c, h, n + 1) BY <1>13, <1>14 DEF HasPlayed
<1>16. Follows(c, h, old, n + 1, Horizon(c))
  <2>1. SUFFICES ASSUME NEW i \in (n + 1)..Horizon(c), i >= 1
                 PROVE  LivePad(h, old, ReadyFrame + i) = LiveWord(ScriptOfLeg(c), i)
    BY DEF Follows
  <2>2. i \in n..Horizon(c) /\ ReadyFrame + i \in Nat /\ ReadyFrame + i > g.counter
    BY <1>5, <1>12, <2>1, FixtureAssumption
  <2>3. LivePad(g, old, ReadyFrame + i) = LiveWord(ScriptOfLeg(c), i)
    BY <1>4, <2>1, <2>2 DEF Follows
  <2>4. LivePad(h, old, ReadyFrame + i) = LivePad(g, old, ReadyFrame + i)
    BY <1>5, <1>7, <2>2, LiveLater
  <2>5. QED BY <2>3, <2>4
<1>17. pc'[c] = "run" /\ lease'[c] = l /\ frame'[c] = n /\ leg'[c] = leg[c] /\ opts'[c] = opts[c]
  BY <1>0, <1>2 DEF SameLeg, Stays
<1>18. HeadOnly(c, slots[lease[c]].scheduled)' BY <1>0, <1>2, <1>4, <1>9, <1>17 DEF HeadOnly
<1>19. \A m : /\ HasPlayed(c, h, m) => HasPlayed(c, h, m)'
              /\ Follows(c, h, old, m, Horizon(c)) => Follows(c, h, old, m, Horizon(c))'
  BY <1>0 DEF HasPlayed, Follows, SameLeg
<1>20. Running(c)' BY <1>0, <1>4, <1>9, <1>11, <1>15, <1>16, <1>17, <1>19 DEF Running, SameLeg
<1>21. QED BY <1>0, <1>11, <1>17, <1>18, <1>20 DEF PlayInv, SameLeg

\* Nothing is scheduled any more, and the guest is read.
LEMMA SnapshotServed ==
  ASSUME NEW c, NEW k, Served(c, k), pc[c] = "snapshot"
  PROVE  PlayInv(c)'
<1>0. /\ c \in Suites /\ RpcInv /\ PlayInv(c) /\ SameLeg(c)
      /\ reply[c].status = "none" /\ k.awaited /\ k.req.op = "snapshot"
      /\ k.req.lease = lease[c] /\ lease[c] \in DOMAIN slots /\ leg[c] \in 0..2
      /\ opts[c].snapshotAt \in Nat
  BY ServedFacts DEF AtSlot
<1>1. k \in calls /\ k.client = c /\ Handle(k) BY DEF Served
<1>2. PICK slot : slot = slots[lease[c]] OBVIOUS
<1>3. Snapshotting(c) /\ HeadOnly(c, slot.scheduled) BY <1>0, <1>2 DEF PlayInv, AtSlot
<1>4. TakeSnapshot(k) BY <1>0, <1>1, Serves DEF Handle
<1>5. \A at \in DOMAIN slot.scheduled : at <= slot.state.counter
  BY <1>0, <1>2, <1>3 DEF HeadOnly, Snapshotting, HasPlayed
<1>6. AgendaEmpty(slot) BY <1>5 DEF AgendaEmpty
<1>7. /\ UNCHANGED <<reply, slots>>
      /\ \A j \in sealing' : j \in sealing \/ j.guest = slot.state
  BY <1>0, <1>2, <1>4, <1>6 DEF TakeSnapshot
<1>8. /\ pc'[c] = "snapshot" /\ lease'[c] = lease[c] /\ frame'[c] = frame[c] /\ leg'[c] = leg[c]
      /\ opts'[c] = opts[c] /\ slots'[lease'[c]] = slot /\ reply'[c].status = "none"
  BY <1>0, <1>2, <1>7 DEF SameLeg, Stays
<1>9. HeadOnly(c, slots[lease[c]].scheduled)' BY <1>3, <1>8 DEF HeadOnly
<1>10. /\ HasPlayed(c, slot.state, frame[c])'
       /\ Follows(c, slot.state, slot.scheduled, frame[c], frame[c])'
  BY <1>0, <1>2, <1>3, <1>8 DEF HasPlayed, Follows, SameLeg, Snapshotting
<1>11. \A j \in sealing' : j.client = c => j.guest = slot.state BY <1>2, <1>3, <1>7 DEF Snapshotting
<1>12. Snapshotting(c)' BY <1>3, <1>8, <1>10, <1>11 DEF Snapshotting
<1>13. QED BY <1>0, <1>8, <1>9, <1>12 DEF PlayInv, SameLeg

LEMMA DestroyServed ==
  ASSUME NEW c, NEW k, Served(c, k), pc[c] = "destroy"
  PROVE  PlayInv(c)'
<1>0. /\ c \in Suites /\ RpcInv /\ PlayInv(c) /\ SameLeg(c)
      /\ reply[c].status = "none" /\ k.awaited /\ k.req.op = "destroy"
      /\ k.req.lease = lease[c] /\ lease[c] \in DOMAIN slots
      /\ \A answer : Deliver(k, answer) => reply'[c] = answer
  BY ServedFacts DEF AtSlot
<1>1. k \in calls /\ Handle(k) BY DEF Served
<1>2. DestroyVm(k) BY <1>0, <1>1, Serves DEF Handle
<1>3. Deliver(k, [status |-> "ok"]) BY <1>2 DEF DestroyVm
<1>4. reply'[c].status = "ok" BY <1>0, <1>3
<1>5. pc'[c] = "destroy" /\ frame'[c] = opts'[c].frames BY <1>0 DEF SameLeg, Stays, PlayInv
<1>6. QED BY <1>0, <1>4, <1>5 DEF PlayInv, SameLeg

LEMMA HandlePlays ==
  ASSUME RpcInv, StoreOK, PlaysInv, NEW own, OwnInv(own), NEW k \in calls, Handle(k),
         UNCHANGED driverVars
  PROVE  PlaysInv'
<1>1. /\ corrupt' = corrupt /\ snapshots' = snapshots /\ calls' = calls \ {k}
      /\ SuiteShapes /\ SealsRan /\ \A d \in Suites : Stays(d) /\ (Playing(d) => PlayInv(d))
  BY HandleRests, AllStay DEF PlaysInv, Playing
<1>2. SealsRan' BY <1>1, HandleSeals
<1>3. ASSUME NEW d \in Suites, Playing(d)' PROVE PlayInv(d)'
  <2>1. d \in Clients /\ Stays(d) BY <1>1, Kinds
  <2>2. CASE d = k.client
    <3>1. CASE Playing(d)
      <4>1. Served(d, k) BY <1>1, <2>2, <3>1 DEF Served
      <4>2. pc[d] \in {"restore", "inject", "run", "snapshot", "destroy"}
        BY <3>1 DEF Playing, AtSlot
      <4>3. QED BY <4>1, <4>2, RestoreServed, InjectServed, RunServed, SnapshotServed, DestroyServed
    <3>2. CASE ~Playing(d)
      <4>1. reply[d].status = "rpc" /\ pc[d] \in AtSlot \cup {"restore"}
        BY <1>3, <2>1, <3>2 DEF Playing, Stays
      <4>2. ~k.awaited BY <2>2, <4>1 DEF RpcInv, CallOK
      <4>3. reply'[d] = reply[d] BY <2>1, <4>2, Answered1
      <4>4. QED BY <1>3, <4>1, <4>3 DEF Playing
    <3>3. QED BY <3>1, <3>2
  <2>3. CASE d # k.client
    <3>1. reply'[d] = reply[d] BY <2>1, <2>3, Answered1
    <3>2. Playing(d) /\ PlayInv(d) BY <1>1, <1>3, <2>1, <3>1 DEF Playing, Stays
    <3>3. \A j \in sealing' : j.client = d => j \in sealing BY <2>3, HandleShape
    <3>4. Rests(d) BY <1>1, <2>1, <3>1, <3>3 DEF Rests, Stays, MidSaved, MidGuest
    <3>5. \A i \in DOMAIN slots : own[i] = d => SlotRests(i) BY <2>3, OthersSlots
    <3>6. /\ pc[d] = "restore" /\ reply[d].status = "ok" => SlotRests(reply[d].lease)
          /\ pc[d] \in AtSlot \ {"destroy"} => SlotRests(lease[d])
          /\ pc[d] = "destroy" /\ lease[d] \in DOMAIN slots => SlotRests(lease[d])
      BY <3>2, <3>5, OwnSlot DEF AtSlot
    <3>7. QED BY <3>2, <3>4, <3>6, PlayRests
  <2>4. QED BY <2>2, <2>3
<1>4. QED BY <1>1, <1>2, <1>3, PlaysStill

\* A snapshot is stored for the suite that waits for it.
LEMMA StorePlays ==
  ASSUME RpcInv, StoreOK, PlaysInv, NEW k \in sealing, StoreSnapshot(k), UNCHANGED driverVars
  PROVE  PlaysInv'
<1>0. /\ SuiteShapes /\ SealsRan /\ \A d \in Suites : Stays(d) /\ (Playing(d) => PlayInv(d))
  BY AllStay DEF PlaysInv, Playing
<1>1. /\ UNCHANGED <<corrupt, slots, calls>> /\ sealing' = sealing \ {k}
      /\ snapshots' = Over(Entry(SnapshotRef(k.guest), k.guest), snapshots)
      /\ Deliver(k, [status |-> "ok", ref |-> SnapshotRef(k.guest)])
  BY DEF StoreSnapshot
<1>2. SealsRan' BY <1>0, <1>1 DEF SealsRan
<1>3. /\ GuestOK(k.guest) /\ k.guest.running = TRUE
      /\ SealOK(k) /\ k.client \in Clients /\ k.awaited \in BOOLEAN
  BY <1>0 DEF StoreOK, SealsRan, RpcInv, SealOK
<1>4. ASSUME NEW d \in Suites, Playing(d)' PROVE PlayInv(d)'
  <2>1. d \in Clients /\ Stays(d) /\ opts'[d] = opts[d] BY <1>0, Kinds DEF Stays
  <2>2. MidSaved(d) => MidSaved(d)' BY <1>0, <1>1, <1>3, <2>1, MidStored
  <2>3. CASE d # k.client \/ ~k.awaited
    <3>1. reply'[d] = reply[d] BY <1>1, <1>3, <2>1, <2>3, Answers
    <3>2. Playing(d) /\ PlayInv(d) BY <1>0, <1>4, <2>1, <3>1 DEF Playing, Stays
    <3>3. Rests(d) /\ \A i : SlotRests(i) BY <1>1, <2>1, <2>2, <3>1 DEF Rests, Stays, SlotRests
    <3>4. QED BY <3>2, <3>3, PlayRests
  <2>4. CASE d = k.client /\ k.awaited
    <3>1. reply[d].status = "none" /\ pc[d] = "snapshot" BY <1>3, <2>1, <2>4, Stages DEF SealOK
    <3>2. Playing(d) /\ PlayInv(d) /\ Snapshotting(d) BY <1>0, <3>1 DEF Playing, AtSlot, PlayInv
    <3>3. PICK slot : slot = slots[lease[d]] OBVIOUS
    <3>4. k.guest = slot.state BY <2>4, <3>2, <3>3 DEF Snapshotting
    <3>5. PICK ref : ref = SnapshotRef(k.guest) OBVIOUS
    <3>6. reply'[d] = [status |-> "ok", ref |-> ref] BY <1>1, <1>3, <2>1, <2>4, <3>5, Answers
    <3>7. k.guest = MidGuest(d)
      BY <3>2, <3>3, <3>4 DEF Snapshotting, HasPlayed, LegGuest, ScriptOfLeg, MidGuest
    <3>8. snapshots'[ref] = k.guest /\ ref \in DOMAIN snapshots'
      <4>1. snapshots' = Over(Entry(ref, k.guest), snapshots) BY <1>1, <3>5
      <4>2. QED BY <4>1 DEF Over, Entry
    <3>9. /\ pc'[d] = "snapshot" /\ lease'[d] = lease[d] /\ frame'[d] = frame[d]
          /\ leg'[d] = leg[d] /\ slots'[lease'[d]] = slot /\ base'[d] = base[d]
      BY <1>1, <2>1, <3>1, <3>3 DEF Stays
    <3>10. MidSaved(d)'
      <4>1. MidGuest(d)' = MidGuest(d) BY <2>1 DEF MidGuest
      <4>2. QED BY <3>5, <3>7, <3>8, <4>1 DEF MidSaved
    <3>11. /\ (\A j : LegGuest(d, j)' = LegGuest(d, j)) /\ ScriptOfLeg(d)' = ScriptOfLeg(d)
           /\ StartFrame(d)' = StartFrame(d)
      BY <1>1, <2>1, <3>9 DEF LegGuest, ScriptOfLeg, StartFrame
    <3>12. /\ HasPlayed(d, slot.state, frame[d])'
           /\ Follows(d, slot.state, slot.scheduled, frame[d], frame[d])'
      BY <3>2, <3>3, <3>9, <3>11 DEF HasPlayed, Follows, Snapshotting
    <3>13. reply'[d].status = "ok" /\ reply'[d].ref = SnapshotRef(slot.state) BY <3>4, <3>5, <3>6
    <3>14. Snapshotting(d)' BY <1>1, <2>1, <3>2, <3>3, <3>9, <3>10, <3>12, <3>13 DEF Snapshotting
    <3>15. ~HasMid(d)' BY <3>2, <3>9 DEF HasMid, Snapshotting
    <3>16. HeadOnly(d, slots[lease[d]].scheduled)'
      BY <2>1, <3>1, <3>2, <3>3, <3>9 DEF PlayInv, HeadOnly, AtSlot
    <3>17. base'[d] = ReadyFrame + StartFrame(d)' BY <3>1, <3>2, <3>9, <3>11 DEF PlayInv, AtSlot
    <3>18. QED BY <3>9, <3>13, <3>14, <3>15, <3>16, <3>17 DEF PlayInv
  <2>5. QED BY <2>3, <2>4
<1>5. QED BY <1>1, <1>2, <1>4, PlaysStill

\* A suite that has given up its call plays no more.
LEMMA FailsPlays ==
  ASSUME RpcInv, PlaysInv, NEW c \in Clients, RpcFails(c), UNCHANGED driverVars
  PROVE  PlaysInv'
<1>0. /\ SuiteShapes /\ SealsRan /\ \A d \in Suites : Stays(d) /\ (Playing(d) => PlayInv(d))
  BY AllStay DEF PlaysInv, Playing
<1>1. /\ UNCHANGED <<corrupt, slots, snapshots>>
      /\ calls' = GiveUp(calls, c) /\ sealing' = GiveUp(sealing, c)
      /\ \A d \in Clients : reply'[d] = IF d = c THEN RpcError ELSE reply[d]
  BY DEF RpcFails, RpcInv, Shapes
<1>2. ASSUME NEW j \in calls'
      PROVE  \E i \in calls : j.req = i.req /\ j.client = i.client /\ (i.client # c => j = i)
  <2>1. PICK i \in calls : LeftOver(j, i, c) BY <1>1, GivenUp
  <2>2. QED BY <2>1, LeftCall DEF RpcInv
<1>3. ASSUME NEW j \in sealing'
      PROVE  \E i \in sealing : j.guest = i.guest /\ j.client = i.client /\ (i.client # c => j = i)
  <2>1. PICK i \in sealing : LeftOver(j, i, c) BY <1>1, GivenUp
  <2>2. QED BY <2>1, LeftSeal DEF RpcInv
<1>4. SealsRan' BY <1>0, <1>1, <1>2, <1>3 DEF SealsRan
<1>5. ASSUME NEW d \in Suites, Playing(d)' PROVE PlayInv(d)'
  <2>1. d \in Clients /\ Stays(d) BY <1>0, Kinds
  <2>2. d # c BY <1>1, <1>5, <2>1 DEF Playing, RpcError
  <2>3. reply'[d] = reply[d] BY <1>1, <2>1, <2>2
  <2>4. Playing(d) /\ PlayInv(d) BY <1>0, <1>5, <2>1, <2>3 DEF Playing, Stays
  <2>5. Rests(d) /\ \A i : SlotRests(i)
    BY <1>1, <1>2, <1>3, <2>1, <2>2, <2>3 DEF Rests, Stays, SlotRests, MidSaved, MidGuest
  <2>6. QED BY <2>4, <2>5, PlayRests
<1>6. QED BY <1>1, <1>4, <1>5, PlaysStill

LEMMA NothingPlays ==
  ASSUME RpcInv, PlaysInv, UNCHANGED allVars
  PROVE  PlaysInv'
<1>1. /\ UNCHANGED <<corrupt, slots, snapshots, calls, sealing, reply>> /\ UNCHANGED driverVars
  BY DEF allVars, workerVars
<1>2. SuiteShapes /\ \A d \in Suites : Stays(d) /\ (Playing(d) => PlayInv(d))
  BY <1>1, AllStay DEF PlaysInv, Playing
<1>3. ASSUME NEW d \in Suites, Playing(d)' PROVE PlayInv(d)'
  <2>1. Stays(d) BY <1>2
  <2>2. Playing(d) /\ PlayInv(d) BY <1>1, <1>2, <1>3, <2>1 DEF Playing, Stays
  <2>3. Rests(d) /\ \A i : SlotRests(i)
    BY <1>1, <2>1 DEF Rests, Stays, SlotRests, MidSaved, MidGuest
  <2>4. QED BY <2>2, <2>3, PlayRests
<1>4. SealsRan' BY <1>1 DEF PlaysInv, SealsRan
<1>5. QED BY <1>1, <1>3, <1>4, PlaysStill

----
(* Every step. *)

\* The stages of a suite.
Staged == \A c \in Suites : pc[c] \in Fresh \cup Gone \cup {"restore"} \cup AtSlot

LEMMA StagedKept ==
  ASSUME Shapes, SuiteShapes, Staged, [Next]_allVars
  PROVE  Staged'
<1>1. ASSUME NEW c \in Suites, SuiteSteps(c) PROVE Staged'
  BY <1>1, SuiteTurns, SuiteStays DEF Staged, Stays
<1>2. CASE UNCHANGED driverVars BY <1>2 DEF Staged, driverVars
<1>3. QED BY <1>1, <1>2 DEF Next, GateSteps, WorkerSteps, Ended, allVars

LEMMA PlaysKept ==
  ASSUME VmInv, PlaysInv, Staged, [Next]_allVars
  PROVE  PlaysInv' /\ Staged'
<1>1. RpcInv /\ RpcInv' /\ StoreOK BY RpcKept DEF VmInv, WorkInv
<1>2. PICK own : OwnInv(own) BY DEF VmInv
<1>3. Staged' BY <1>1, StagedKept DEF RpcInv, PlaysInv
<1>4. ASSUME NEW c \in Suites, SuiteSteps(c) PROVE PlaysInv' BY <1>1, <1>2, <1>4, SuitePlays
<1>5. ASSUME NEW c \in Gates, GateSteps(c) PROVE PlaysInv' BY <1>1, <1>5, GatePlays
<1>6. ASSUME WorkerNext, UNCHANGED driverVars PROVE PlaysInv'
  <2>1. ASSUME NEW k \in calls, Handle(k) PROVE PlaysInv' BY <1>1, <1>2, <1>6, <2>1, HandlePlays
  <2>2. ASSUME NEW k \in sealing, StoreSnapshot(k) PROVE PlaysInv' BY <1>1, <1>6, <2>2, StorePlays
  <2>3. ASSUME NEW c \in Clients, RpcFails(c) PROVE PlaysInv' BY <1>1, <1>6, <2>3, FailsPlays
  <2>4. QED BY <1>6, <2>1, <2>2, <2>3 DEF WorkerNext, Serve, ServeGivenUp, Store
<1>7. CASE UNCHANGED allVars BY <1>1, <1>3, <1>7, NothingPlays
<1>8. QED BY <1>3, <1>4, <1>5, <1>6, <1>7 DEF Next, WorkerSteps, Ended

LEMMA PlaysStart == BothInit => PlaysInv /\ Staged
<1> SUFFICES ASSUME BothInit PROVE PlaysInv /\ Staged OBVIOUS
<1>1. /\ opts \in [Suites -> Options] /\ pc \in [Suites -> {"start", "off"}]
      /\ leg = [c \in Suites |-> 0] /\ frame = [c \in Suites |-> 0]
      /\ current = [c \in Suites |-> << >>] /\ mid = [c \in Suites |-> READY]
      /\ base = [c \in Suites |-> 0] /\ calls = {} /\ sealing = {}
  BY DEF BothInit, Init, WorkerInit
<1>2. SuiteShapes BY <1>1 DEF SuiteShapes
<1>3. SealsRan BY <1>1 DEF SealsRan
<1>4. \A c \in Suites : pc[c] \in Fresh /\ leg[c] = 0 BY <1>1 DEF Fresh
<1>5. QED BY <1>2, <1>3, <1>4 DEF PlaysInv, Staged, Fresh, AtSlot

\* No call of a suite is refused, and each frame it hashes is that of its script.
LEMMA PlaysScript ==
  ASSUME RpcInv, PlaysInv, Staged
  PROVE  InjectionPlaysScript
<1>1. ASSUME NEW c \in Suites PROVE reply[c].status \notin Refusals
  <2>1. CASE pc[c] \in Fresh \cup Gone BY <2>1, Stages DEF RpcInv, ReplyOK, Refusals
  <2>2. CASE pc[c] \in AtSlot \cup {"restore"} /\ reply[c].status # "rpc"
    BY <2>2 DEF PlaysInv, PlayInv, Refusals
  <2>3. CASE reply[c].status = "rpc" BY <2>3 DEF Refusals
  <2>4. QED BY <2>1, <2>2, <2>3 DEF Staged
<1>2. ASSUME NEW c \in Suites, pc[c] \in AtSlot, ~(corrupt /\ leg[c] = 2), NEW i \in DOMAIN current[c]
      PROVE  current[c][i] = FrameHash(Played(ScriptOfLeg(c),
                               IF leg[c] = 2 THEN opts[c].snapshotAt + i ELSE i))
  <2>1. Hashed(c) BY <1>2 DEF PlaysInv
  <2>2. i \in 1..Len(current[c]) /\ Len(current[c]) \in Nat BY <1>2, <2>1 DEF Hashed
  <2>3. StartFrame(c) + i = IF leg[c] = 2 THEN opts[c].snapshotAt + i ELSE i BY <2>2 DEF StartFrame
  <2>4. LegGuest(c, StartFrame(c) + i) = Played(ScriptOfLeg(c), StartFrame(c) + i)
    <3>1. CASE leg[c] # 2 BY <3>1 DEF LegGuest
    <3>2. CASE leg[c] = 2
      <4>1. opts[c].snapshotAt \in Nat /\ StartFrame(c) = opts[c].snapshotAt
        BY <3>2, OptionsFacts DEF PlaysInv, StartFrame
      <4>2. ~corrupt BY <1>2, <3>2
      <4>3. Resumed(corrupt, opts[c], opts[c].snapshotAt + i) = Played(opts[c].script, opts[c].snapshotAt + i)
        BY <2>2, <4>1, <4>2, ResumedPlays
      <4>4. QED BY <3>2, <4>1, <4>3 DEF LegGuest, ScriptOfLeg
    <3>3. QED BY <3>1, <3>2
  <2>5. QED BY <1>2, <2>1, <2>3, <2>4 DEF Hashed
<1>3. HashesPlayScript BY <1>2 DEF HashesPlayScript, AtSlot
<1>4. QED BY <1>1, <1>3 DEF InjectionPlaysScript, NeverRefused

----
(* The suites' guests play their scripts: inject_with_boundary's change- *)
(* only events, split at the snapshot by cold_run and seeded with the *)
(* boundary word by continue_run, are never refused by the worker, and *)
(* every frame hash a leg records is the hash of that frame played word by *)
(* word, whatever other suites, gates, failing RPCs and late calls do *)
(* (vm_suite.rs, mock.rs). *)

THEOREM InjectionPlaysScriptHolds == Spec => []InjectionPlaysScript
<1>1. BothInit => VmInv /\ PlaysInv /\ Staged BY VmStarts, PlaysStart
<1>2. VmInv /\ PlaysInv /\ Staged /\ [Next]_allVars => (VmInv /\ PlaysInv /\ Staged)'
  BY VmKept, PlaysKept
<1>3. VmInv /\ PlaysInv /\ Staged => InjectionPlaysScript BY PlaysScript DEF VmInv
<1>4. QED BY <1>1, <1>2, <1>3, PTL DEF Spec

----
(* Comparing two runs. *)

\* The first frame of a set, and 0 if it has none.
Earliest(D) == IF D = {} THEN 0 ELSE CHOOSE i \in D : \A j \in D : i <= j

LEMMA EarliestIs ==
  ASSUME NEW D \in SUBSET Nat, NEW m \in D, \A j \in D : m <= j
  PROVE  Earliest(D) = m /\ (CHOOSE i \in D : \A j \in D : i <= j) = m
<1>1. \A x, y \in D : (\A j \in D : x <= j) /\ (\A j \in D : y <= j) => x = y OBVIOUS
<1>2. (CHOOSE i \in D : \A j \in D : i <= j) = m BY <1>1
<1>3. QED BY <1>2 DEF Earliest

\* The frames after frame k whose hashes differ.
Differing(expected, other, k, n) == {i \in (k + 1)..(k + n) : expected[i - k] # other[i - k]}

\* Compare finds the first frame that differs.
LEMMA CompareIs ==
  ASSUME NEW n \in Nat, NEW expected, NEW other, Len(expected) = n,
         Len(other) = n, NEW k \in Nat
  PROVE  Compare(expected, other, k + 1) = Verdict(Earliest(Differing(expected, other, k, n)))
<1>0. PICK D : D = Differing(expected, other, k, n) OBVIOUS
<1>a. D = {i \in (k + 1)..(k + n) : expected[i - k] # other[i - k]} BY <1>0 DEF Differing
<1> DEFINE common == 1..(IF Len(expected) <= Len(other) THEN Len(expected) ELSE Len(other))
           differ == {i \in common : expected[i] # other[i]}
           first  == CHOOSE i \in differ : \A j \in differ : i <= j
<1>1. common = 1..n OBVIOUS
<1>2. Compare(expected, other, k + 1) =
        IF differ # {} THEN [ok |-> FALSE, at |-> (k + 1) + first - 1] ELSE [ok |-> TRUE, at |-> 0]
  BY DEF Compare
<1>3. \A i \in differ : i \in 1..n /\ i + k \in D
  <2> SUFFICES ASSUME NEW i \in 1..n, expected[i] # other[i] PROVE i + k \in D BY <1>1
  <2>1. i + k \in (k + 1)..(k + n) /\ (i + k) - k = i OBVIOUS
  <2>2. QED BY <1>a, <2>1
<1>4. \A j \in D : j - k \in differ /\ j \in Nat
  <2> SUFFICES ASSUME NEW j \in (k + 1)..(k + n), expected[j - k] # other[j - k]
               PROVE  j - k \in differ BY <1>a
  <2>1. j - k \in 1..n OBVIOUS
  <2>2. QED BY <1>1, <2>1
<1> HIDE DEF differ
<1>5. CASE D = {}
  <2>1. differ = {} BY <1>3, <1>5
  <2>2. Earliest(D) = 0 BY <1>5 DEF Earliest
  <2>3. Verdict(0) = [ok |-> TRUE, at |-> 0] BY DEF Verdict
  <2>4. QED BY <1>0, <1>2, <2>1, <2>2, <2>3
<1>6. CASE D # {}
  <2>0. \A i \in differ : i \in Nat BY <1>3
  <2>1. differ # {} /\ differ \in SUBSET Nat
    <3>1. PICK j \in D : j - k \in differ BY <1>4, <1>6
    <3>2. QED BY <2>0, <3>1
  <2>2. PICK m \in differ : \A y \in differ : m <= y BY <2>1, Least
  <2>3. first = m BY <2>1, <2>2, EarliestIs
  <2>4. m \in Nat /\ m >= 1 /\ m + k \in D BY <1>3, <2>2
  <2>5. \A j \in D : m + k <= j
    <3> SUFFICES ASSUME NEW j \in D PROVE m + k <= j OBVIOUS
    <3>1. j - k \in differ /\ j \in Nat BY <1>4
    <3>2. m <= j - k BY <2>2, <3>1
    <3>3. QED BY <2>4, <3>1, <3>2
  <2>6. Earliest(D) = m + k
    <3>1. D \in SUBSET Nat BY <1>4
    <3>2. PICK d \in D : d = m + k BY <2>4
    <3>3. \A j \in D : d <= j BY <2>5, <3>2
    <3>4. QED BY <3>1, <3>2, <3>3, EarliestIs
  <2>7. (k + 1) + m - 1 = m + k /\ (m + k = 0) = FALSE BY <2>4
  <2>8. Verdict(m + k) = [ok |-> FALSE, at |-> m + k] BY <2>7 DEF Verdict
  <2>9. QED BY <1>0, <1>2, <2>1, <2>3, <2>6, <2>7, <2>8
<1>7. QED BY <1>0, <1>5, <1>6

\* The hashes of a play of a script up to the last frame.
Hashes(script, n) == [i \in 1..n |-> FrameHash(Played(script, i))]

\* Scripts with the same words up to a frame play the same up to it.
LEMMA SamePlay ==
  ASSUME NEW script, NEW other, NEW n \in Nat,
         \A i \in 1..n : LiveWord(script, i) = LiveWord(other, i)
  PROVE  \A i \in 0..n : Played(script, i) = Played(other, i)
<1> DEFINE T == {i \in Nat : i <= n => Played(script, i) = Played(other, i)}
<1>1. 0 \in T BY PlayedStarts
<1>2. ASSUME NEW i \in Nat, i \in T PROVE i + 1 \in T
  <2>1. SUFFICES ASSUME i + 1 <= n PROVE Played(script, i + 1) = Played(other, i + 1) OBVIOUS
  <2>2. Played(script, i) = Played(other, i) /\ LiveWord(script, i + 1) = LiveWord(other, i + 1)
    BY <1>2, <2>1
  <2>3. /\ Played(script, i + 1) = Next1(script, Played(script, i), i + 1)
        /\ Played(other, i + 1) = Next1(other, Played(other, i), i + 1)
    BY PlayedGoesOn
  <2>4. QED BY <2>2, <2>3 DEF Next1
<1> HIDE DEF T
<1>3. \A i \in Nat : i \in T BY <1>1, <1>2, Up
<1>4. QED BY <1>3 DEF T

\* A frame hash tells the word played in the frame.
LEMMA HashTellsWord ==
  ASSUME NEW script, NEW other, NEW n \in Nat, n >= 1,
         LiveWord(script, n) # LiveWord(other, n)
  PROVE  FrameHash(Played(script, n)) # FrameHash(Played(other, n))
<1>1. PICK g, h : g = Played(script, n) /\ h = Played(other, n) OBVIOUS
<1>2. g.lastPad # h.lastPad BY <1>1, PlayedCounts DEF PlayedOK
<1>3. Regions(g) # Regions(h)
  <2>1. Regions(g).lastPad = g.lastPad /\ Regions(h).lastPad = h.lastPad BY DEF Regions
  <2>2. QED BY <1>2, <2>1
<1>4. QED BY <1>1, <1>3 DEF FrameHash

\* The perturbed word is in the script, within the snapshot's frames, and differs.
LEMMA Perturbed ==
  ASSUME NEW o, ValidOptions(o), o.nondet, o.script # << >>,
         NEW p, p = PerturbedIndex(o)
  PROVE  /\ p \in Nat /\ p >= 1 /\ p <= o.frames
         /\ \A i \in 1..(p - 1) : LiveWord(o.script, i) = LiveWord(SecondScript(o), i)
         /\ LiveWord(o.script, p) # LiveWord(SecondScript(o), p)
<1>1. PICK script, k : script = o.script /\ k = o.snapshotAt OBVIOUS
<1>2. /\ script \in Seq(Pads) /\ script # << >> /\ k \in Nat /\ k >= 1 /\ k < o.frames
      /\ o.frames \in Nat
  BY <1>1 DEF ValidOptions
<1>3. Len(script) \in Nat /\ Len(script) >= 1 BY <1>2
<1>4. p = IF k <= Len(script) THEN k ELSE Len(script) BY <1>1 DEF PerturbedIndex
<1>5. p \in Nat /\ p >= 1 /\ p <= o.frames /\ p <= Len(script) BY <1>2, <1>3, <1>4
<1>6. PICK word : word = FlipLowBit(script[p]) OBVIOUS
<1>7. PICK second : second = SecondScript(o) OBVIOUS
<1>8. second = [script EXCEPT ![p] = word] BY <1>1, <1>6, <1>7 DEF SecondScript
<1>9. /\ Len(second) = Len(script) /\ second # << >> /\ second[p] = word
      /\ \A i \in 1..(p - 1) : second[i] = script[i]
  BY <1>2, <1>3, <1>5, <1>8
<1>10. word # script[p]
  <2>1. script[p] \in Nat
    <3>1. p \in 1..Len(script) BY <1>3, <1>5
    <3>2. script[p] \in Pads BY <1>2, <3>1
    <3>3. QED BY <3>2, PadsAssumption
  <2>2. QED BY <1>6, <2>1 DEF FlipLowBit
<1>11. \A i \in 1..p : LiveWord(script, i) = script[i] /\ LiveWord(second, i) = second[i]
  BY <1>2, <1>5, <1>9 DEF LiveWord
<1>12. \A i \in 1..(p - 1) : LiveWord(script, i) = LiveWord(second, i) BY <1>5, <1>9, <1>11
<1>13. LiveWord(script, p) # LiveWord(second, p) BY <1>5, <1>9, <1>10, <1>11
<1>14. QED BY <1>1, <1>5, <1>7, <1>12, <1>13

\* What the double run must report.
DoubleIs(o) == Verdict(IF o.nondet THEN PerturbedIndex(o) ELSE 0)

LEMMA HashesSeq ==
  ASSUME NEW script, NEW n \in Nat, NEW s, s = Hashes(script, n)
  PROVE  Len(s) = n /\ DOMAIN s = 1..n /\ \E S : s \in Seq(S)
<1>1. PICK S : S = {FrameHash(Played(script, i)) : i \in 1..n} OBVIOUS
<1>2. s \in [1..n -> S] /\ s = [i \in 1..n |-> s[i]] BY <1>1 DEF Hashes
<1>3. s \in Seq(S) /\ Len(s) = n BY <1>2
<1>4. QED BY <1>2, <1>3

LEMMA DoubleCompares ==
  ASSUME NEW o, ValidOptions(o), o.nondet => o.script # << >>
  PROVE  Compare(Hashes(o.script, o.frames), Hashes(SecondScript(o), o.frames), 1) = DoubleIs(o)
<1>1. PICK expected, other, n : /\ expected = Hashes(o.script, o.frames) /\ n = o.frames
                                /\ other = Hashes(SecondScript(o), o.frames)
  OBVIOUS
<1>2. n \in Nat BY <1>1 DEF ValidOptions
<1>3. PICK S1 : Len(expected) = n /\ DOMAIN expected = 1..n /\ expected \in Seq(S1)
  BY <1>1, <1>2, HashesSeq
<1>4. PICK S2 : Len(other) = n /\ DOMAIN other = 1..n /\ other \in Seq(S2) BY <1>1, <1>2, HashesSeq
<1>7. PICK k \in Nat : k = 0 OBVIOUS
<1>8. PICK D : D = Differing(expected, other, k, n) OBVIOUS
<1>9. Compare(expected, other, 1) = Verdict(Earliest(D))
  <2>1. Compare(expected, other, k + 1) = Verdict(Earliest(D)) BY <1>2, <1>3, <1>4, <1>8, CompareIs
  <2>2. QED BY <1>7, <2>1
<1>10. \A i \in 1..n : /\ expected[i] = FrameHash(Played(o.script, i))
                       /\ other[i] = FrameHash(Played(SecondScript(o), i))
  BY <1>1 DEF Hashes
<1>11. D = {i \in 1..n : expected[i] # other[i]}
  <2>1. D = {i \in (k + 1)..(k + n) : expected[i - k] # other[i - k]} BY <1>8 DEF Differing
  <2>2. \A i \in 1..n : i - k = i BY <1>7
  <2>3. (k + 1)..(k + n) = 1..n BY <1>2, <1>7
  <2>4. QED BY <2>1, <2>2, <2>3
<1>12. CASE ~o.nondet
  <2>1. SecondScript(o) = o.script BY <1>12 DEF SecondScript
  <2>2. D = {} BY <1>10, <1>11, <2>1
  <2>3. Earliest(D) = 0 /\ DoubleIs(o) = Verdict(0) BY <1>12, <2>2 DEF Earliest, DoubleIs
  <2>4. QED BY <1>1, <1>9, <2>3
<1>13. CASE o.nondet
  <2>1. PICK p : p = PerturbedIndex(o) OBVIOUS
  <2>2. /\ p \in Nat /\ p >= 1 /\ p <= n
        /\ \A i \in 1..(p - 1) : LiveWord(o.script, i) = LiveWord(SecondScript(o), i)
        /\ LiveWord(o.script, p) # LiveWord(SecondScript(o), p)
    BY <1>1, <1>13, <2>1, Perturbed
  <2>3. PICK q \in Nat : q = p - 1 BY <2>2
  <2>4. \A i \in 0..q : Played(o.script, i) = Played(SecondScript(o), i) BY <2>2, <2>3, SamePlay
  <2>5. p \in D BY <1>10, <1>11, <2>2, HashTellsWord
  <2>6. \A j \in D : p <= j
    <3> SUFFICES ASSUME NEW j \in D, j < p PROVE FALSE BY <1>11, <1>2, <2>2
    <3>1. j \in 0..q /\ j \in 1..n BY <1>11, <2>2, <2>3
    <3>2. QED BY <1>10, <1>11, <2>4, <3>1
  <2>7. D \in SUBSET Nat BY <1>11
  <2>8. Earliest(D) = p BY <2>5, <2>6, <2>7, EarliestIs
  <2>9. QED BY <1>1, <1>9, <1>13, <2>1, <2>8 DEF DoubleIs
<1>14. QED BY <1>12, <1>13

\* What the continuation must report.
Differ(bad, o) ==
  {i \in (o.snapshotAt + 1)..o.frames :
     FrameHash(Played(o.script, i)) # FrameHash(Resumed(bad, o, i))}
ContinuityIs(bad, o) == Verdict(Earliest(Differ(bad, o)))

LEMMA ContinuityCompares ==
  ASSUME NEW bad, NEW o, ValidOptions(o), NEW S, NEW other \in Seq(S),
         Len(other) = o.frames - o.snapshotAt,
         \A i \in DOMAIN other : other[i] = FrameHash(Resumed(bad, o, o.snapshotAt + i)),
         NEW all, all = Hashes(o.script, o.frames)
  PROVE  Compare(SubSeq(all, o.snapshotAt + 1, Len(all)), other, o.snapshotAt + 1) =
           ContinuityIs(bad, o)
<1>1. PICK k, f : k = o.snapshotAt /\ f = o.frames OBVIOUS
<1>2. k \in Nat /\ f \in Nat /\ k >= 1 /\ k < f BY <1>1 DEF ValidOptions
<1>3. PICK S1 : Len(all) = f /\ DOMAIN all = 1..f /\ all \in Seq(S1) BY <1>1, <1>2, HashesSeq
<1>4. PICK n \in Nat : n = f - k BY <1>2
<1>5. PICK rest : rest = SubSeq(all, k + 1, f) OBVIOUS
<1>6. /\ rest \in Seq(S1) /\ Len(rest) = n
      /\ \A i \in 1..n : rest[i] = all[k + i]
  BY <1>2, <1>3, <1>4, <1>5
<1>8. Len(other) = n BY <1>1, <1>4
<1>9. PICK D : D = Differing(rest, other, k, n) OBVIOUS
<1>10. Compare(rest, other, k + 1) = Verdict(Earliest(D)) BY <1>2, <1>6, <1>8, <1>9, CompareIs
<1>11. D = Differ(bad, o)
  <2>1. k + n = f BY <1>2, <1>4
  <2>2. ASSUME NEW i \in (k + 1)..f
        PROVE  /\ rest[i - k] = FrameHash(Played(o.script, i))
               /\ other[i - k] = FrameHash(Resumed(bad, o, i))
    <3>1. i - k \in 1..n /\ k + (i - k) = i /\ i \in 1..f BY <1>2, <1>4
    <3>2. PICK j \in 1..n : j = i - k BY <3>1
    <3>3. rest[j] = all[i] /\ all[i] = FrameHash(Played(o.script, i))
      BY <1>1, <1>6, <3>1, <3>2 DEF Hashes
    <3>4. j \in DOMAIN other /\ k + j = i BY <1>8, <3>1, <3>2
    <3>5. other[j] = FrameHash(Resumed(bad, o, i)) BY <1>1, <3>4
    <3>6. QED BY <3>2, <3>3, <3>5
  <2>3. Differ(bad, o) =
          {i \in (k + 1)..f : FrameHash(Played(o.script, i)) # FrameHash(Resumed(bad, o, i))}
    BY <1>1 DEF Differ
  <2>4. D = {i \in (k + 1)..(k + n) : rest[i - k] # other[i - k]} BY <1>9 DEF Differing
  <2>5. QED BY <2>1, <2>2, <2>3, <2>4
<1>12. QED BY <1>1, <1>3, <1>5, <1>10, <1>11 DEF ContinuityIs

----
(* What a report says. *)

IterationOK(bad, o, r) == r.double = DoubleIs(o) /\ r.continuity = ContinuityIs(bad, o)

\* The whole suite passes exactly when every leg of every iteration held.
Passed(c) ==
  /\ report[c].failure = "none"
  /\ Len(report[c].iterations) = opts[c].iterations
  /\ \A i \in 1..opts[c].iterations :
        report[c].iterations[i].double.ok /\ report[c].iterations[i].continuity.ok

ResultOK(c) ==
  /\ iteration[c] \in 1..opts[c].iterations
  /\ report[c] = [iterations |-> report[c].iterations, failure |-> report[c].failure,
                  result |-> report[c].result]
  /\ report[c].iterations \in Seq(Range(report[c].iterations))
  /\ pc[c] # "done" => /\ report[c].result = "fail" /\ report[c].failure = "none"
                       /\ Len(report[c].iterations) = iteration[c] - 1
  /\ pc[c] = "done" => (report[c].result = "pass" <=> Passed(c))

\* What the legs of this iteration have found, and what the report says of those before.
VerdictOf(c) ==
  /\ leg[c] \in {1, 2} => reference[c] = Hashes(opts[c].script, opts[c].frames)
  /\ leg[c] = 2 => double[c] = DoubleIs(opts[c])
  /\ pc[c] \in {"restore"} \cup AtSlot /\ opts[c].nondet => opts[c].script # << >>
  /\ \A i \in DOMAIN report[c].iterations : IterationOK(corrupt, opts[c], report[c].iterations[i])
  /\ ResultOK(c)

VerdictShapes ==
  /\ iteration = [c \in Suites |-> iteration[c]] /\ reference = [c \in Suites |-> reference[c]]
  /\ double = [c \in Suites |-> double[c]] /\ report = [c \in Suites |-> report[c]]

VerdictInv == VerdictShapes /\ \A c \in Suites : VerdictOf(c)

\* What the report of suite d rests on does not change.
Abides(d) ==
  /\ corrupt' = corrupt /\ opts'[d] = opts[d] /\ leg'[d] = leg[d] /\ iteration'[d] = iteration[d]
  /\ reference'[d] = reference[d] /\ double'[d] = double[d]

LEMMA VerdictAbides ==
  ASSUME NEW d \in Suites, VerdictOf(d), Abides(d), report'[d] = report[d],
         pc'[d] # "done", pc[d] # "done",
         pc'[d] \in {"restore"} \cup AtSlot =>
           pc[d] \in {"restore"} \cup AtSlot \/ ~(opts[d].nondet /\ opts[d].script = << >>)
  PROVE  VerdictOf(d)'
<1>1. ResultOK(d)' BY DEF VerdictOf, ResultOK, Abides
<1>2. /\ leg'[d] \in {1, 2} => reference'[d] = Hashes(opts'[d].script, opts'[d].frames)
      /\ leg'[d] = 2 => double'[d] = DoubleIs(opts'[d])
      /\ \A i \in DOMAIN report'[d].iterations :
            IterationOK(corrupt', opts'[d], report'[d].iterations[i])
  BY DEF VerdictOf, Abides
<1>3. pc'[d] \in {"restore"} \cup AtSlot /\ opts'[d].nondet => opts'[d].script # << >>
  BY DEF VerdictOf, Abides
<1>4. QED BY <1>1, <1>2, <1>3 DEF VerdictOf

\* Nothing of a suite changes.
LEMMA VerdictRests ==
  ASSUME NEW d \in Suites, VerdictOf(d), Abides(d), report'[d] = report[d], pc'[d] = pc[d]
  PROVE  VerdictOf(d)'
<1>1. ResultOK(d)' BY DEF VerdictOf, ResultOK, Abides, Passed
<1>2. /\ leg'[d] \in {1, 2} => reference'[d] = Hashes(opts'[d].script, opts'[d].frames)
      /\ leg'[d] = 2 => double'[d] = DoubleIs(opts'[d])
      /\ \A i \in DOMAIN report'[d].iterations :
            IterationOK(corrupt', opts'[d], report'[d].iterations[i])
  BY DEF VerdictOf, Abides
<1>3. pc'[d] \in {"restore"} \cup AtSlot /\ opts'[d].nondet => opts'[d].script # << >>
  BY DEF VerdictOf, Abides
<1>4. QED BY <1>1, <1>2, <1>3 DEF VerdictOf

\* A step of suite c leaves the reports of the others.
LEMMA ReportStays ==
  ASSUME VerdictShapes, NEW c \in Suites, SuiteSteps(c)
  PROVE  /\ VerdictShapes'
         /\ \A d \in Suites : d # c =>
              /\ iteration'[d] = iteration[d] /\ reference'[d] = reference[d]
              /\ double'[d] = double[d] /\ report'[d] = report[d]
<1>1. /\ iteration' = iteration \/ \E x : iteration' = [iteration EXCEPT ![c] = x]
      /\ reference' = reference \/ \E x : reference' = [reference EXCEPT ![c] = x]
      /\ double' = double \/ \E x : double' = [double EXCEPT ![c] = x]
      /\ report' = report \/ \E x : report' = [report EXCEPT ![c] = x]
  <2>1. CASE Connect(c) \/ Restored(c) \/ Injected(c) \/ Ran(c) \/ Snapshotted(c)
    BY <2>1, Zenon DEF Connect, Restored, Injected, Ran, Snapshotted
  <2>2. CASE ConnectFails(c) \/ Fails(c) BY <2>2, Zenon DEF ConnectFails, Fails
  <2>3. CASE ReferenceDone(c) BY <2>3, Zenon DEF ReferenceDone
  <2>4. CASE SecondDone(c) BY <2>4, Zenon DEF SecondDone
  <2>5. CASE ContinuedDone(c) BY <2>5, Zenon DEF ContinuedDone
  <2>6. QED BY <2>1, <2>2, <2>3, <2>4, <2>5 DEF SuiteSteps, Step, DriverStep
<1>2. QED BY <1>1 DEF VerdictShapes

----
(* The steps of a suite. *)

\* In the middle of a leg.
LEMMA VerdictWithin ==
  ASSUME NEW c \in Suites, VerdictOf(c), corrupt' = corrupt, pc = [d \in Suites |-> pc[d]],
         Restored(c) \/ Injected(c) \/ Ran(c) \/ Snapshotted(c)
  PROVE  VerdictOf(c)'
<1>1. /\ UNCHANGED <<opts, iteration, leg, reference, double, report>>
      /\ pc[c] \in {"restore"} \cup AtSlot
  BY Zenon DEF Restored, Injected, Ran, Snapshotted, Answered, AtSlot
<1>2. \E s : pc' = [pc EXCEPT ![c] = s] /\ s \in AtSlot
  <2>1. CASE Restored(c) \/ Snapshotted(c)
    BY <2>1, Zenon DEF Restored, Snapshotted, InjectThenRun, Goto, AtSlot
  <2>2. CASE Injected(c) BY <2>2, Zenon DEF Injected, Goto, AtSlot
  <2>3. CASE Ran(c) BY <2>3, Zenon DEF Ran, Goto, AtSlot
  <2>4. QED BY <2>1, <2>2, <2>3
<1>3. pc'[c] \in AtSlot BY <1>2
<1>4. pc[c] # "done" /\ pc'[c] # "done" BY <1>1, <1>3 DEF AtSlot
<1>5. Abides(c) /\ report'[c] = report[c] BY <1>1 DEF Abides
<1>6. QED BY <1>1, <1>4, <1>5, VerdictAbides

\* An empty script cannot be perturbed.
LEMMA VerdictConnects ==
  ASSUME NEW c \in Suites, VerdictOf(c), corrupt' = corrupt, pc = [d \in Suites |-> pc[d]],
         Connect(c)
  PROVE  VerdictOf(c)'
<1>1. /\ UNCHANGED <<opts, iteration, leg, reference, double, report>> /\ pc[c] = "start"
  BY DEF Connect
<1>2. /\ pc'[c] = "panicked" \/ pc'[c] = "restore"
      /\ pc'[c] = "restore" => ~(opts[c].nondet /\ opts[c].script = << >>)
  <2>1. CASE opts[c].nondet /\ opts[c].script = << >>
    <3>1. pc' = [pc EXCEPT ![c] = "panicked"] BY <2>1 DEF Connect, Goto
    <3>2. QED BY <3>1
  <2>2. CASE ~(opts[c].nondet /\ opts[c].script = << >>)
    <3>1. pc' = [pc EXCEPT ![c] = "restore"] BY <2>2 DEF Connect, Goto
    <3>2. QED BY <2>2, <3>1
  <2>3. QED BY <2>1, <2>2
<1>3. pc[c] # "done" /\ pc'[c] # "done" BY <1>1, <1>2
<1>4. pc'[c] \in {"restore"} \cup AtSlot => pc'[c] = "restore" BY <1>2 DEF AtSlot
<1>5. Abides(c) /\ report'[c] = report[c] BY <1>1 DEF Abides
<1>6. QED BY <1>2, <1>3, <1>4, <1>5, VerdictAbides

\* A call that fails fails the suite.
LEMMA VerdictFails ==
  ASSUME NEW c \in Suites, VerdictOf(c), VerdictShapes, corrupt' = corrupt,
         pc = [d \in Suites |-> pc[d]], ConnectFails(c) \/ Fails(c)
  PROVE  VerdictOf(c)'
<1>1. /\ UNCHANGED <<opts, iteration, leg, reference, double>>
      /\ pc' = [pc EXCEPT ![c] = "done"] /\ pc[c] # "done"
      /\ \E f : f # "none" /\ report' = [report EXCEPT ![c].failure = f]
  <2>1. CASE ConnectFails(c)
    <3>1. "connect" # "none" OBVIOUS
    <3>2. QED BY <2>1, <3>1 DEF ConnectFails, Goto
  <2>2. CASE Fails(c)
    <3>1. pc[c] # "none" /\ pc[c] # "done" BY <2>2 DEF Fails
    <3>2. QED BY <2>2, <3>1 DEF Fails, Goto
  <2>3. QED BY <2>1, <2>2
<1>2. PICK f : f # "none" /\ report' = [report EXCEPT ![c].failure = f] BY <1>1
<1>3. PICK rep : rep = report[c] OBVIOUS
<1>4. /\ rep = [iterations |-> rep.iterations, failure |-> rep.failure, result |-> rep.result]
      /\ rep.result = "fail" /\ iteration[c] \in 1..opts[c].iterations
      /\ rep.iterations \in Seq(Range(rep.iterations))
  BY <1>1, <1>3 DEF VerdictOf, ResultOK
<1>5. PICK new : new = [rep EXCEPT !.failure = f] OBVIOUS
<1>6. new = [iterations |-> rep.iterations, failure |-> f, result |-> "fail"] BY <1>4, <1>5
<1>7. report'[c] = new BY <1>2, <1>3, <1>5 DEF VerdictShapes
<1>8. pc'[c] = "done" BY <1>1
<1>9. ~Passed(c)' /\ report'[c].result # "pass" BY <1>2, <1>6, <1>7 DEF Passed
<1>10. ResultOK(c)' BY <1>1, <1>4, <1>6, <1>7, <1>8, <1>9 DEF ResultOK
<1>11. \A i \in DOMAIN report'[c].iterations :
         IterationOK(corrupt', opts'[c], report'[c].iterations[i])
  BY <1>1, <1>3, <1>6, <1>7 DEF VerdictOf
<1>12. QED BY <1>1, <1>8, <1>10, <1>11 DEF VerdictOf, AtSlot

\* A finished leg has hashed every frame of its script.
LEMMA LegHashes ==
  ASSUME NEW c, Before(c), Hashed(c), pc[c] = "destroy", leg[c] # 2
  PROVE  current[c] = Hashes(ScriptOfLeg(c), opts[c].frames)
<1>1. /\ c \in Suites /\ PlayInv(c) /\ opts[c].frames \in Nat BY BeforeFacts
<1>2. PICK cur, n, script : cur = current[c] /\ n = opts[c].frames /\ script = ScriptOfLeg(c)
  OBVIOUS
<1>3. n \in Nat /\ frame[c] = n /\ StartFrame(c) = 0 BY <1>1, <1>2 DEF PlayInv, StartFrame
<1>4. PICK S : cur \in Seq(S) /\ Len(cur) = n BY <1>2, <1>3 DEF Hashed
<1>5. \A i \in 1..n : 0 + i = i BY <1>3
<1>6. \A i \in DOMAIN cur : cur[i] = FrameHash(LegGuest(c, 0 + i)) BY <1>2, <1>3 DEF Hashed
<1>7. \A i \in 1..n : LegGuest(c, i) = Played(script, i) BY <1>2 DEF LegGuest
<1>8. DOMAIN cur = 1..n /\ cur = [i \in 1..n |-> cur[i]] BY <1>4
<1>9. \A i \in 1..n : cur[i] = FrameHash(Played(script, i)) BY <1>5, <1>6, <1>7, <1>8
<1>10. cur = Hashes(script, n) BY <1>8, <1>9, Zenon DEF Hashes
<1>11. QED BY <1>2, <1>10

\* The reference run is over.
LEMMA VerdictReference ==
  ASSUME NEW c, Before(c), Hashed(c), VerdictOf(c), VerdictShapes, corrupt' = corrupt,
         ReferenceDone(c)
  PROVE  VerdictOf(c)'
<1>1. /\ c \in Suites /\ pc = [d \in Suites |-> pc[d]] /\ leg = [d \in Suites |-> leg[d]]
  BY BeforeFacts
<1>2. /\ pc[c] = "destroy" /\ leg[c] = 0 /\ UNCHANGED <<opts, iteration, double, report>>
      /\ reference' = [reference EXCEPT ![c] = current[c]] /\ leg' = [leg EXCEPT ![c] = 1]
      /\ pc' = [pc EXCEPT ![c] = "restore"]
  BY DEF ReferenceDone, Answered, Goto
<1>3. pc'[c] = "restore" /\ leg'[c] = 1 /\ reference'[c] = current[c]
  BY <1>1, <1>2 DEF VerdictShapes
<1>4. ScriptOfLeg(c) = opts[c].script BY <1>2 DEF ScriptOfLeg
<1>5. reference'[c] = Hashes(opts[c].script, opts[c].frames) BY <1>2, <1>3, <1>4, LegHashes
<1>6. ResultOK(c)' BY <1>2, <1>3 DEF VerdictOf, ResultOK
<1>7. \A i \in DOMAIN report'[c].iterations :
         IterationOK(corrupt', opts'[c], report'[c].iterations[i])
  BY <1>2 DEF VerdictOf
<1>8. opts[c].nondet => opts[c].script # << >> BY <1>2 DEF VerdictOf, AtSlot
<1>9. QED BY <1>2, <1>3, <1>5, <1>6, <1>7, <1>8 DEF VerdictOf

\* The second run is over.
LEMMA VerdictSecond ==
  ASSUME NEW c, Before(c), Hashed(c), VerdictOf(c), VerdictShapes, corrupt' = corrupt, SecondDone(c)
  PROVE  VerdictOf(c)'
<1>1. /\ c \in Suites /\ pc = [d \in Suites |-> pc[d]] /\ leg = [d \in Suites |-> leg[d]]
      /\ SuiteShapes
  BY BeforeFacts
<1>2. /\ pc[c] = "destroy" /\ leg[c] = 1 /\ UNCHANGED <<opts, iteration, reference, report>>
      /\ double' = [double EXCEPT ![c] = Compare(reference[c], current[c], 1)]
      /\ leg' = [leg EXCEPT ![c] = 2] /\ pc' = [pc EXCEPT ![c] = "restore"]
  BY DEF SecondDone, Answered, Goto
<1>3. pc'[c] = "restore" /\ leg'[c] = 2 /\ double'[c] = Compare(reference[c], current[c], 1)
  BY <1>1, <1>2 DEF VerdictShapes
<1>4. /\ reference[c] = Hashes(opts[c].script, opts[c].frames)
      /\ opts[c].nondet => opts[c].script # << >>
  BY <1>2 DEF VerdictOf, AtSlot
<1>5. current[c] = Hashes(SecondScript(opts[c]), opts[c].frames) BY <1>2, LegHashes DEF ScriptOfLeg
<1>6. ValidOptions(opts[c]) BY <1>1, OptionsFacts
<1>7. double'[c] = DoubleIs(opts[c]) BY <1>3, <1>4, <1>5, <1>6, DoubleCompares
<1>8. ResultOK(c)' BY <1>2, <1>3 DEF VerdictOf, ResultOK
<1>9. \A i \in DOMAIN report'[c].iterations :
         IterationOK(corrupt', opts'[c], report'[c].iterations[i])
  BY <1>2 DEF VerdictOf
<1>10. QED BY <1>2, <1>3, <1>4, <1>7, <1>8, <1>9 DEF VerdictOf

\* One more result at the end.
Grown(its, r, all) ==
  /\ all \in Seq(Range(all)) /\ Len(all) = Len(its) + 1
  /\ \A i \in DOMAIN all : (i \in DOMAIN its /\ all[i] = its[i]) \/ all[i] = r

LEMMA Appended ==
  \A its, r, all : its \in Seq(Range(its)) /\ all = Append(its, r) => Grown(its, r, all)
<1>1. SUFFICES ASSUME NEW its, NEW r, NEW all, its \in Seq(Range(its)), all = Append(its, r)
               PROVE  Grown(its, r, all) OBVIOUS
<1>2. PICK n : n = Len(its) OBVIOUS
<1>3. PICK S : S = Range(its) \cup {r} OBVIOUS
<1>4. its \in Seq(S) /\ r \in S BY <1>1, <1>3
<1>5. /\ all \in Seq(S) /\ Len(all) = n + 1 /\ DOMAIN all = 1..(n + 1)
      /\ n \in Nat /\ DOMAIN its = 1..n
      /\ all[n + 1] = r /\ \A i \in 1..n : all[i] = its[i]
  BY <1>1, <1>2, <1>4
<1>6. all \in Seq(Range(all))
  <2>1. all = [i \in 1..Len(all) |-> all[i]] /\ Len(all) \in Nat BY <1>5
  <2>2. \A i \in 1..Len(all) : all[i] \in Range(all) BY <1>5 DEF Range
  <2>3. [i \in 1..Len(all) |-> all[i]] \in Seq(Range(all)) BY <2>1, <2>2
  <2>4. QED BY <2>1, <2>3
<1>7. QED BY <1>2, <1>5, <1>6 DEF Grown

\* The continuation is over, and with it the iteration.
LEMMA VerdictContinued ==
  ASSUME NEW c, Before(c), Hashed(c), VerdictOf(c), VerdictShapes, corrupt' = corrupt,
         ContinuedDone(c)
  PROVE  VerdictOf(c)'
<1>0. /\ c \in Suites /\ pc = [d \in Suites |-> pc[d]] /\ leg = [d \in Suites |-> leg[d]]
      /\ SuiteShapes /\ PlayInv(c) /\ opts[c].frames \in Nat /\ opts[c].snapshotAt \in Nat
  BY BeforeFacts
<1>1. PICK o, k, cont : /\ o = opts[c] /\ k = opts[c].snapshotAt
                        /\ cont = Compare(SubSeq(reference[c], k + 1, Len(reference[c])),
                                          current[c], k + 1)
  OBVIOUS
<1>2. PICK its, outcome : its = report[c].iterations
                          /\ outcome = [double |-> double[c], continuity |-> cont]
  OBVIOUS
<1>3. PICK results : results = Append(its, outcome) OBVIOUS
<1>4. /\ pc[c] = "destroy" /\ leg[c] = 2 /\ UNCHANGED <<opts, reference, double>>
      /\ IF iteration[c] < o.iterations
         THEN /\ iteration' = [iteration EXCEPT ![c] = @ + 1]
              /\ leg' = [leg EXCEPT ![c] = 0]
              /\ report' = [report EXCEPT ![c].iterations = results]
              /\ pc' = [pc EXCEPT ![c] = "restore"]
         ELSE /\ report' = [report EXCEPT ![c].iterations = results,
                                          ![c].result = IF Flakes(results) THEN "fail" ELSE "pass"]
              /\ pc' = [pc EXCEPT ![c] = "done"]
              /\ UNCHANGED <<iteration, leg>>
  BY <1>1, <1>2, <1>3, Zenon DEF ContinuedDone, Answered, Goto
<1>5. ValidOptions(o) /\ o.iterations \in Nat BY <1>0, <1>1, OptionsFacts DEF ValidOptions
<1>6. /\ reference[c] = Hashes(o.script, o.frames) /\ double[c] = DoubleIs(o)
      /\ o.nondet => o.script # << >>
  BY <1>1, <1>4 DEF VerdictOf, AtSlot
<1>7. cont = ContinuityIs(corrupt, o)
  <2>1. PICK cur, all, S, bad : /\ cur = current[c] /\ all = reference[c] /\ S = Range(cur)
                                /\ bad = corrupt
    OBVIOUS
  <2>2. StartFrame(c) = k /\ frame[c] = o.frames BY <1>0, <1>1, <1>4 DEF StartFrame, PlayInv
  <2>3. cur \in Seq(S) /\ Len(cur) = o.frames - o.snapshotAt BY <1>1, <2>1, <2>2 DEF Hashed
  <2>4. \A i \in DOMAIN cur : cur[i] = FrameHash(Resumed(bad, o, o.snapshotAt + i))
    BY <1>1, <1>4, <2>1, <2>2 DEF Hashed, LegGuest
  <2>5. all = Hashes(o.script, o.frames) BY <1>6, <2>1
  <2>6. Compare(SubSeq(all, o.snapshotAt + 1, Len(all)), cur, o.snapshotAt + 1) = ContinuityIs(bad, o)
    BY <1>5, <2>3, <2>4, <2>5, ContinuityCompares
  <2>7. QED BY <1>1, <2>1, <2>6
<1>8. IterationOK(corrupt, o, outcome) BY <1>2, <1>6, <1>7 DEF IterationOK
<1>9. PICK rep : rep = report[c] OBVIOUS
<1>10. /\ iteration[c] \in Nat /\ iteration[c] >= 1 /\ iteration[c] <= o.iterations
       /\ rep = [iterations |-> its, failure |-> "none", result |-> "fail"]
       /\ Len(its) = iteration[c] - 1 /\ its \in Seq(Range(its))
       /\ \A i \in DOMAIN its : IterationOK(corrupt, o, its[i])
  BY <1>1, <1>2, <1>4, <1>5, <1>9 DEF VerdictOf, ResultOK
<1>11. /\ results \in Seq(Range(results)) /\ Len(results) = Len(its) + 1
       /\ \A i \in DOMAIN results : (i \in DOMAIN its /\ results[i] = its[i]) \/ results[i] = outcome
  <2>1. Grown(its, outcome, results) BY <1>3, <1>10, Appended, Zenon
  <2>2. QED BY <2>1 DEF Grown
<1>12. Len(results) = iteration[c] /\ DOMAIN results = 1..iteration[c] BY <1>10, <1>11
<1>13. \A i \in DOMAIN results : IterationOK(corrupt, o, results[i]) BY <1>8, <1>10, <1>11
<1>14. CASE iteration[c] < o.iterations
  <2>1. PICK new : new = [rep EXCEPT !.iterations = results] OBVIOUS
  <2>2. new = [iterations |-> results, failure |-> "none", result |-> "fail"] BY <1>10, <2>1
  <2>3. report'[c] = new BY <1>0, <1>4, <1>9, <1>14, <2>1 DEF VerdictShapes
  <2>4. pc'[c] = "restore" /\ leg'[c] = 0 /\ iteration'[c] = iteration[c] + 1 /\ opts'[c] = o
    BY <1>0, <1>1, <1>4, <1>14 DEF VerdictShapes
  <2>5. iteration'[c] \in 1..o.iterations /\ Len(results) = iteration'[c] - 1
    BY <1>5, <1>10, <1>12, <1>14, <2>4
  <2>6. ResultOK(c)' BY <1>11, <2>2, <2>3, <2>4, <2>5 DEF ResultOK
  <2>7. QED BY <1>6, <1>13, <2>2, <2>3, <2>4, <2>6 DEF VerdictOf
<1>15. CASE ~(iteration[c] < o.iterations)
  <2>1. PICK res : res = IF Flakes(results) THEN "fail" ELSE "pass" OBVIOUS
  <2>2. PICK new : new = [rep EXCEPT !.iterations = results, !.result = res] OBVIOUS
  <2>3. new = [iterations |-> results, failure |-> "none", result |-> res] BY <1>10, <2>2
  <2>4. report'[c] = new BY <1>0, <1>4, <1>9, <1>15, <2>1, <2>2 DEF VerdictShapes
  <2>5. pc'[c] = "done" /\ leg'[c] = 2 /\ iteration'[c] = iteration[c] /\ opts'[c] = o
    BY <1>0, <1>1, <1>4, <1>15
  <2>6. iteration[c] = o.iterations /\ iteration[c] \in 1..o.iterations BY <1>5, <1>10, <1>15
  <2>7. res = "pass" <=> \A i \in 1..o.iterations : results[i].double.ok /\ results[i].continuity.ok
    <3>1. res = "pass" <=> ~Flakes(results) BY <2>1
    <3>2. DOMAIN results = 1..o.iterations BY <1>12, <2>6
    <3>3. QED BY <3>1, <3>2, Zenon DEF Flakes
  <2>8. report'[c].result = "pass" <=> Passed(c)'
    <3>1. /\ report'[c].result = res /\ report'[c].failure = "none" /\ report'[c].iterations = results
          /\ Len(results) = o.iterations
      BY <1>12, <2>3, <2>4, <2>6
    <3>2. QED BY <2>5, <2>7, <3>1, Zenon DEF Passed
  <2>9. /\ report'[c] = [iterations |-> report'[c].iterations, failure |-> report'[c].failure,
                         result |-> report'[c].result]
        /\ report'[c].iterations = results
    BY <2>3, <2>4
  <2>10. ResultOK(c)' BY <1>11, <2>5, <2>6, <2>8, <2>9, Zenon DEF ResultOK
  <2>11. reference'[c] = reference[c] /\ double'[c] = double[c] BY <1>4
  <2>12. QED BY <1>6, <1>13, <2>5, <2>9, <2>10, <2>11 DEF VerdictOf, AtSlot
<1>16. QED BY <1>14, <1>15

----
(* Every step. *)

LEMMA VerdictKept ==
  ASSUME VmInv, PlaysInv, VerdictInv, [Next]_allVars
  PROVE  VerdictInv'
<1>0. /\ RpcInv /\ Shapes /\ SuiteShapes /\ VerdictShapes /\ pc = [d \in Suites |-> pc[d]]
      /\ \A d \in Suites : VerdictOf(d)
  BY DEF VmInv, RpcInv, Shapes, PlaysInv, VerdictInv
<1>1. ASSUME NEW c \in Suites, SuiteSteps(c) PROVE VerdictInv'
  <2>1. /\ VerdictShapes' /\ corrupt' = corrupt /\ opts' = opts
        /\ \A d \in Suites : d # c =>
             /\ Stays(d) /\ iteration'[d] = iteration[d] /\ reference'[d] = reference[d]
             /\ double'[d] = double[d] /\ report'[d] = report[d]
    BY <1>0, <1>1, SuiteStays, ReportStays
  <2>2. ASSUME NEW d \in Suites, d # c PROVE VerdictOf(d)'
    <3>1. Abides(d) /\ report'[d] = report[d] /\ pc'[d] = pc[d] BY <2>1, <2>2 DEF Abides, Stays
    <3>2. QED BY <1>0, <3>1, VerdictRests
  <2>3. VerdictOf(c)'
    <3>1. CASE Connect(c) BY <1>0, <2>1, <3>1, VerdictConnects
    <3>2. CASE ConnectFails(c) \/ Fails(c) BY <1>0, <2>1, <3>2, VerdictFails
    <3>3. CASE Restored(c) \/ Injected(c) \/ Ran(c) \/ Snapshotted(c)
      BY <1>0, <2>1, <3>3, VerdictWithin
    <3>4. CASE ReferenceDone(c) \/ SecondDone(c) \/ ContinuedDone(c)
      <4>1. pc[c] = "destroy" /\ reply[c].status = "ok"
        BY <3>4 DEF ReferenceDone, SecondDone, ContinuedDone, Answered
      <4>2. Playing(c) /\ PlayInv(c) /\ Hashed(c) BY <4>1 DEF Playing, PlaysInv, AtSlot
      <4>3. Before(c) BY <1>0, <4>2 DEF Before, VmInv
      <4>4. QED BY <1>0, <2>1, <3>4, <4>2, <4>3, VerdictReference, VerdictSecond, VerdictContinued
    <3>5. QED BY <1>1, <3>1, <3>2, <3>3, <3>4 DEF SuiteSteps, Step, DriverStep
  <2>4. QED BY <2>1, <2>2, <2>3 DEF VerdictInv
<1>2. CASE UNCHANGED driverVars /\ corrupt' = corrupt
  <2>1. VerdictShapes' BY <1>0, <1>2 DEF VerdictShapes, driverVars
  <2>2. ASSUME NEW d \in Suites PROVE VerdictOf(d)'
    <3>1. Abides(d) /\ report'[d] = report[d] /\ pc'[d] = pc[d] BY <1>2 DEF Abides, driverVars
    <3>2. QED BY <1>0, <3>1, VerdictRests
  <2>3. QED BY <2>1, <2>2 DEF VerdictInv
<1>3. ASSUME NEW c \in Gates, GateSteps(c) PROVE corrupt' = corrupt
  <2>1. Client(c) BY <1>0, <1>3, GateClient
  <2>2. QED BY <2>1 DEF Client, Goes, Issue, Stops
<1>4. WorkerNext => corrupt' = corrupt
  BY HandleRests DEF WorkerNext, Serve, ServeGivenUp, Store, StoreSnapshot, RpcFails
<1>5. QED BY <1>1, <1>2, <1>3, <1>4 DEF Next, GateSteps, WorkerSteps, Ended, allVars, workerVars

LEMMA VerdictStarts == BothInit => VerdictInv
<1> SUFFICES ASSUME BothInit PROVE VerdictInv OBVIOUS
<1>1. /\ opts \in [Suites -> Options] /\ pc \in [Suites -> {"start", "off"}]
      /\ iteration = [c \in Suites |-> 1] /\ leg = [c \in Suites |-> 0]
      /\ reference = [c \in Suites |-> << >>] /\ double = [c \in Suites |-> NoResult]
      /\ report = [c \in Suites |->
                     [iterations |-> << >>, failure |-> "none", result |-> "fail"]]
  BY DEF BothInit, Init
<1>2. VerdictShapes BY <1>1 DEF VerdictShapes
<1>3. ASSUME NEW c \in Suites PROVE VerdictOf(c)
  <2>1. /\ pc[c] \in {"start", "off"} /\ iteration[c] = 1 /\ leg[c] = 0
        /\ report[c] = [iterations |-> << >>, failure |-> "none", result |-> "fail"]
    BY <1>1
  <2>2. opts[c].iterations \in Nat /\ opts[c].iterations >= 1
    BY <1>1, OptionsAssumption DEF ValidOptions
  <2>3. 1 \in 1..opts[c].iterations BY <2>2
  <2>4. << >> \in Seq(Range(<< >>)) /\ Len(<< >>) = 0 /\ DOMAIN << >> = {} /\ 1 - 1 = 0 OBVIOUS
  <2>5. ResultOK(c) BY <2>1, <2>3, <2>4 DEF ResultOK
  <2>6. QED BY <2>1, <2>4, <2>5 DEF VerdictOf, AtSlot
<1>4. QED BY <1>2, <1>3 DEF VerdictInv

\* What the reports say.
LEMMA VerdictTold ==
  ASSUME VerdictInv
  PROVE  SuiteVerdict
<1>1. ASSUME NEW c \in Suites, NEW i \in DOMAIN report[c].iterations
      PROVE  /\ report[c].iterations[i].double = DoubleIs(opts[c])
             /\ report[c].iterations[i].continuity = ContinuityIs(corrupt, opts[c])
  BY <1>1 DEF VerdictInv, VerdictOf, IterationOK
<1>2. DoubleRunVerdict BY <1>1 DEF DoubleRunVerdict, DoubleIs
<1>3. ContinuityVerdict
  <2> SUFFICES ASSUME NEW c \in Suites, NEW i \in DOMAIN report[c].iterations
               PROVE  LET o    == opts[c]
                          G1(n) == Played(o.script, n)
                          H(n) == Continued(o, n)
                      IN  report[c].iterations[i].continuity =
                            Verdict(FirstDiff(G1, H, o.snapshotAt + 1, o.frames))
    BY DEF ContinuityVerdict
  <2>1. PICK o : o = opts[c] OBVIOUS
  <2>2. \A n : Continued(o, n) = Resumed(corrupt, o, n) BY DEF Continued, Resumed, SavedGuest
  <2> DEFINE G1(n) == Played(o.script, n)
             H(n) == Continued(o, n)
  <2>3. FirstDiff(G1, H, o.snapshotAt + 1, o.frames) = Earliest(Differ(corrupt, o))
    <3>1. FirstDiff(G1, H, o.snapshotAt + 1, o.frames) =
             LET differ == {j \in (o.snapshotAt + 1)..o.frames : FrameHash(G1(j)) # FrameHash(H(j))}
             IN  IF differ = {} THEN 0 ELSE CHOOSE j \in differ : \A m \in differ : j <= m
      BY DEF FirstDiff
    <3>2. QED BY <2>2, <3>1 DEF Earliest, Differ
  <2>4. QED BY <1>1, <2>1, <2>3 DEF ContinuityIs
<1>4. PassMeansZeroFlakes
  <2> SUFFICES ASSUME NEW c \in Suites, pc[c] = "done"
               PROVE  report[c].result = "pass" <=> Passed(c) BY DEF PassMeansZeroFlakes, Passed
  <2>1. QED BY DEF VerdictInv, VerdictOf, ResultOK
<1>5. QED BY <1>2, <1>3, <1>4 DEF SuiteVerdict

----
(* A suite's report says what its guests did: the double run diverges at *)
(* the perturbed word's frame and nowhere without one, the continuation at *)
(* the first frame at which a corrupted restore shows in a hash, and the *)
(* suite passes exactly when every leg of every iteration held (compare, *)
(* zero_flake and the iteration loop of vm_suite.rs). *)

THEOREM SuiteVerdictHolds == Spec => []SuiteVerdict
<1>1. BothInit => VmInv /\ PlaysInv /\ Staged /\ VerdictInv BY VmStarts, PlaysStart, VerdictStarts
<1>2. VmInv /\ PlaysInv /\ Staged /\ VerdictInv /\ [Next]_allVars =>
        (VmInv /\ PlaysInv /\ Staged /\ VerdictInv)'
  BY VmKept, PlaysKept, VerdictKept
<1>3. VerdictInv => SuiteVerdict BY VerdictTold
<1>4. QED BY <1>1, <1>2, <1>3, PTL DEF Spec

----
(* The gates: the operators they take from their instance of the worker. *)

LEMMA GateOperators ==
  /\ \A g, s : G!FrameMark(g, s) = FrameMark(g, s)
  /\ \A k, v : G!Entry(k, v) = Entry(k, v)
  /\ \A script, i : G!LiveWord(script, i) = LiveWord(script, i)
  /\ \A g : G!Framebuffer(g) = Framebuffer(g)
  /\ G!ReadyGuest = ReadyGuest /\ G!READY = READY
<1>1. \A g, s, n : G!LivePad(g, s, n) = LivePad(g, s, n) BY Zenon DEF G!LivePad, LivePad
<1>2. \A g, s : G!FrameMark(g, s) = FrameMark(g, s) BY <1>1 DEF G!FrameMark, FrameMark
<1>3. QED
  BY <1>2 DEF G!Entry, Entry, G!LiveWord, LiveWord, G!Framebuffer, Framebuffer, G!ReadyGuest,
     ReadyGuest, G!READY, READY

----
(* The guest of a gate. *)

\* One frame of the script of o.
Marks(o, g, i) ==
  FrameMark(g, IF o.script = << >> THEN << >>
               ELSE Entry(g.counter + 1, LiveWord(o.script, i)))

IsMarked(f, o, n) ==
  f = [i \in 0..n |-> IF i = 0 THEN G!RestoredGuest(o) ELSE Marks(o, f[i-1], i)]

LEMMA MarkedExists ==
  ASSUME NEW o
  PROVE  \A n \in Nat : \E f : IsMarked(f, o, n)
<1> DEFINE T == {n \in Nat : \E f : IsMarked(f, o, n)}
<1>1. 0 \in T
  <2>1. IsMarked([i \in 0..0 |-> G!RestoredGuest(o)], o, 0) BY DEF IsMarked
  <2>2. QED BY <2>1
<1>2. ASSUME NEW n \in Nat, n \in T PROVE n + 1 \in T
  <2>1. PICK f : IsMarked(f, o, n) BY <1>2
  <2> DEFINE g == [i \in 0..(n+1) |-> IF i = n + 1 THEN Marks(o, f[n], n + 1) ELSE f[i]]
  <2>2. IsMarked(g, o, n + 1) BY <2>1 DEF IsMarked
  <2>3. QED BY <2>2
<1> HIDE DEF T
<1>3. \A n \in Nat : n \in T BY <1>1, <1>2, Up
<1>4. QED BY <1>3 DEF T

LEMMA MarkedAgree ==
  ASSUME NEW o, NEW n \in Nat, NEW m \in Nat, n <= m,
         NEW f, NEW g, IsMarked(f, o, n), IsMarked(g, o, m)
  PROVE  f[n] = g[n]
<1> DEFINE T == {i \in Nat : i <= n => f[i] = g[i]}
<1>1. 0 \in T BY DEF IsMarked
<1>2. ASSUME NEW i \in Nat, i \in T PROVE i + 1 \in T
  <2>1. SUFFICES ASSUME i + 1 <= n PROVE f[i + 1] = g[i + 1] OBVIOUS
  <2>2. i + 1 \in 0..n /\ i + 1 \in 0..m /\ (i + 1) - 1 = i /\ i + 1 # 0 BY <2>1
  <2>3. f[i + 1] = Marks(o, f[i], i + 1) /\ g[i + 1] = Marks(o, g[i], i + 1) BY <2>2 DEF IsMarked
  <2>4. QED BY <1>2, <2>1, <2>3
<1> HIDE DEF T
<1>3. \A i \in Nat : i \in T BY <1>1, <1>2, Up
<1>4. QED BY <1>3 DEF T

LEMMA GatePlayedIs ==
  ASSUME NEW o, NEW n \in Nat
  PROVE  \E f : IsMarked(f, o, n) /\ G!Played(o, n) = f[n]
<1> DEFINE f == CHOOSE f : IsMarked(f, o, n)
<1>1. IsMarked(f, o, n) BY MarkedExists
<1>2. G!Played(o, n) = f[n] BY GateOperators DEF G!Played, IsMarked, Marks
<1>3. QED BY <1>1, <1>2

LEMMA GateStarts ==
  ASSUME NEW o
  PROVE  G!Played(o, 0) = G!RestoredGuest(o)
<1>1. PICK f : IsMarked(f, o, 0) /\ G!Played(o, 0) = f[0] BY GatePlayedIs
<1>2. QED BY <1>1 DEF IsMarked

LEMMA GateGoesOn ==
  ASSUME NEW o, NEW n \in Nat
  PROVE  G!Played(o, n + 1) = Marks(o, G!Played(o, n), n + 1)
<1>1. PICK f : IsMarked(f, o, n) /\ G!Played(o, n) = f[n] BY GatePlayedIs
<1>2. PICK g : IsMarked(g, o, n + 1) /\ G!Played(o, n + 1) = g[n + 1] BY GatePlayedIs
<1>3. g[n] = f[n] BY <1>1, <1>2, MarkedAgree
<1>4. g[n + 1] = Marks(o, g[n], n + 1) BY <1>2 DEF IsMarked
<1>5. QED BY <1>1, <1>2, <1>3, <1>4

\* The pad a gate's guest hears in frame i.
Heard(o, i) ==
  IF o.script = << >> \/ i = 0 THEN G!RestoredGuest(o).lastPad ELSE LiveWord(o.script, i)

\* What a guest that has played n frames shows.
GateShows(o, n) ==
  /\ GuestOK(G!Played(o, n)) /\ G!Played(o, n).counter = G!RestoredGuest(o).counter + n
  /\ G!Played(o, n).lastPad = Heard(o, n)

LEMMA RestoredShape ==
  ASSUME NEW o, G!RestoredGuest(o).counter \in Nat
  PROVE  GuestOK(G!RestoredGuest(o))
<1>1. CASE o.ref = READY
  BY <1>1, GateOperators, FixtureAssumption DEF G!RestoredGuest, GuestOK, ReadyGuest
<1>2. CASE o.ref # READY BY <1>2, GateOperators DEF G!RestoredGuest, GuestOK
<1>3. QED BY <1>1, <1>2

LEMMA GatePlayedShows ==
  ASSUME NEW o, G!RestoredGuest(o).counter \in Nat
  PROVE  \A n \in Nat : GateShows(o, n)
<1> DEFINE T == {n \in Nat : GateShows(o, n)}
<1>1. 0 \in T BY GateStarts, RestoredShape DEF GateShows, Heard
<1>2. ASSUME NEW n \in Nat, n \in T PROVE n + 1 \in T
  <2>1. PICK g : g = G!Played(o, n) OBVIOUS
  <2>2. g.counter \in Nat /\ g.counter = G!RestoredGuest(o).counter + n /\ g.lastPad = Heard(o, n)
    BY <1>2, <2>1 DEF GateShows, GuestOK
  <2>3. PICK s : s = IF o.script = << >> THEN << >>
                     ELSE Entry(g.counter + 1, LiveWord(o.script, n + 1))
    OBVIOUS
  <2>4. G!Played(o, n + 1) = FrameMark(g, s) BY <2>1, <2>3, GateGoesOn DEF Marks
  <2>5. GuestOK(G!Played(o, n + 1)) BY <2>2, <2>4, FrameCounts
  <2>6. /\ G!Played(o, n + 1).counter = g.counter + 1
        /\ G!Played(o, n + 1).lastPad = LivePad(g, s, g.counter + 1)
    BY <2>4, MarkFields
  <2>7. LivePad(g, s, g.counter + 1) = Heard(o, n + 1)
    <3>1. CASE o.script = << >> BY <2>2, <2>3, <3>1, EmptySchedule DEF Heard
    <3>2. CASE o.script # << >>
      <4>1. g.counter + 1 \in Nat BY <2>2
      <4>2. LivePad(g, Entry(g.counter + 1, LiveWord(o.script, n + 1)), g.counter + 1)
              = LiveWord(o.script, n + 1)
        BY <4>1, EntryLives
      <4>3. QED BY <2>3, <3>2, <4>2 DEF Heard
    <3>3. QED BY <3>1, <3>2
  <2>8. QED BY <2>2, <2>5, <2>6, <2>7 DEF GateShows
<1> HIDE DEF T
<1>3. \A n \in Nat : n \in T BY <1>1, <1>2, Up
<1>4. QED BY <1>3 DEF T

\* Once its room has changed, a guest stays in the target room.
LEMMA RoomsStay ==
  ASSUME NEW o, NEW i \in Nat
  PROVE  \A k \in Nat : \/ G!Played(o, i + k).room = G!Played(o, i).room
                        \/ G!Played(o, i + k).room = TargetRoom
<1> DEFINE T == {k \in Nat : \/ G!Played(o, i + k).room = G!Played(o, i).room
                             \/ G!Played(o, i + k).room = TargetRoom}
<1>1. 0 \in T OBVIOUS
<1>2. ASSUME NEW k \in Nat, k \in T PROVE k + 1 \in T
  <2>1. G!Played(o, (i + k) + 1) = Marks(o, G!Played(o, i + k), (i + k) + 1) BY GateGoesOn
  <2>2. \A g, j : Marks(o, g, j).room = g.room \/ Marks(o, g, j).room = TargetRoom
    BY DEF Marks, FrameMark
  <2>3. PICK g : g = G!Played(o, i + k) OBVIOUS
  <2>4. PICK h : h = Marks(o, g, (i + k) + 1) OBVIOUS
  <2>5. h.room = g.room \/ h.room = TargetRoom BY <2>2, <2>4
  <2>6. i + (k + 1) = (i + k) + 1 OBVIOUS
  <2>7. G!Played(o, i + (k + 1)) = h BY <2>1, <2>3, <2>4, <2>6
  <2>8. QED BY <1>2, <2>3, <2>5, <2>7
<1> HIDE DEF T
<1>3. \A k \in Nat : k \in T BY <1>1, <1>2, Up
<1>4. QED BY <1>3 DEF T

----
(* A guest in a slot is the gate's when they show the same. *)

\* They differ in `running` at most.
Like(g, h) ==
  /\ g.counter = h.counter /\ g.room = h.room /\ g.nonzero = h.nonzero
  /\ g.lastPad = h.lastPad /\ g.metaFrame = h.metaFrame

LEMMA LikeMarks ==
  ASSUME NEW g, NEW h, Like(g, h), NEW s
  PROVE  FrameMark(g, s) = FrameMark(h, s)
<1>1. \A n : LivePad(g, s, n) = LivePad(h, s, n) BY DEF Like, LivePad
<1>2. QED BY <1>1 DEF Like, FrameMark

\* From frame n on, the pads live for guest g are the script's words.
Hears(o, g, scheduled, n) ==
  /\ DOMAIN scheduled \subseteq Nat
  /\ \A i \in Nat : i > n =>
       LivePad(g, scheduled, G!RestoredGuest(o).counter + i) = Heard(o, i)

\* Guest g has played n frames of its script, and its schedule plays the rest.
GatePlaying(o, g, scheduled, n) == Like(g, G!Played(o, n)) /\ Hears(o, g, scheduled, n)

LEMMA HearsOn ==
  ASSUME NEW o, G!RestoredGuest(o).counter \in Nat, NEW n \in Nat, NEW g, NEW scheduled,
         GatePlaying(o, g, scheduled, n)
  PROVE  GatePlaying(o, FrameMark(g, scheduled), scheduled, n + 1)
<1>1. PICK h : h = G!Played(o, n) OBVIOUS
<1>2. PICK start : start = G!RestoredGuest(o).counter OBVIOUS
<1>3. Like(g, h) /\ h.counter = start + n /\ start \in Nat /\ g.counter = start + n
  BY <1>1, <1>2, GatePlayedShows DEF GateShows, GatePlaying, Like
<1>4. LivePad(g, scheduled, start + (n + 1)) = Heard(o, n + 1) BY <1>2 DEF GatePlaying, Hears
<1>5. g.counter + 1 = start + (n + 1) /\ g.counter + 1 \in Nat BY <1>3
<1>6. FrameMark(g, scheduled) = G!Played(o, n + 1)
  <2>1. PICK s : s = IF o.script = << >> THEN << >>
                     ELSE Entry(h.counter + 1, LiveWord(o.script, n + 1))
    OBVIOUS
  <2>2. G!Played(o, n + 1) = FrameMark(h, s) BY <1>1, <2>1, GateGoesOn DEF Marks
  <2>3. FrameMark(h, s) = FrameMark(g, s) BY <1>3, LikeMarks
  <2>4. LivePad(g, s, g.counter + 1) = Heard(o, n + 1)
    <3>1. CASE o.script = << >>
      <4>1. h.lastPad = Heard(o, n) BY <1>1, GatePlayedShows DEF GateShows
      <4>2. Heard(o, n) = Heard(o, n + 1) /\ g.lastPad = h.lastPad BY <1>3, <3>1 DEF Heard, Like
      <4>3. LivePad(g, s, g.counter + 1) = g.lastPad BY <2>1, <3>1, EmptySchedule
      <4>4. QED BY <4>1, <4>2, <4>3
    <3>2. CASE o.script # << >>
      <4>1. LivePad(g, Entry(g.counter + 1, LiveWord(o.script, n + 1)), g.counter + 1)
              = LiveWord(o.script, n + 1)
        BY <1>5, EntryLives
      <4>2. h.counter = g.counter BY <1>3 DEF Like
      <4>3. QED BY <2>1, <3>2, <4>1, <4>2 DEF Heard
    <3>3. QED BY <3>1, <3>2
  <2>5. LivePad(g, scheduled, g.counter + 1) = LivePad(g, s, g.counter + 1) BY <1>4, <1>5, <2>4
  <2>6. QED BY <2>2, <2>3, <2>5, MarkByPad
<1>7. Hears(o, FrameMark(g, scheduled), scheduled, n + 1)
  <2>1. DOMAIN scheduled \subseteq Nat BY DEF GatePlaying, Hears
  <2>2. ASSUME NEW i \in Nat, i > n + 1
        PROVE  LivePad(FrameMark(g, scheduled), scheduled, start + i) = Heard(o, i)
    <3>1. start + i \in Nat /\ start + i > g.counter /\ g.counter \in Nat BY <1>3, <2>2
    <3>2. LivePad(FrameMark(g, scheduled), scheduled, start + i) = LivePad(g, scheduled, start + i)
      BY <2>1, <3>1, LiveLater
    <3>3. LivePad(g, scheduled, start + i) = Heard(o, i) BY <1>2, <2>2 DEF GatePlaying, Hears
    <3>4. QED BY <3>2, <3>3
  <2>3. QED BY <1>2, <2>1, <2>2 DEF Hears
<1>8. QED BY <1>6, <1>7 DEF GatePlaying, Like

\* A run to a later frame takes the guest there.
LEMMA RunsThere ==
  ASSUME NEW o, G!RestoredGuest(o).counter \in Nat, NEW n \in Nat, NEW g, NEW scheduled,
         GatePlaying(o, g, scheduled, n), NEW budget \in Nat
  PROVE  GatePlaying(o, RunFrames(g, scheduled, budget), scheduled, n + budget)
<1> DEFINE f == CHOOSE f : IsRun(f, g, scheduled, budget)
           T == {k \in Nat : k <= budget => GatePlaying(o, f[k], scheduled, n + k)}
<1>1. IsRun(f, g, scheduled, budget) BY RunExists
<1>2. RunFrames(g, scheduled, budget) = f[budget] BY DEF RunFrames, IsRun
<1> HIDE DEF f
<1>3. 0 \in T BY <1>1 DEF IsRun
<1>4. ASSUME NEW k \in Nat, k \in T PROVE k + 1 \in T
  <2>1. SUFFICES ASSUME k + 1 <= budget PROVE GatePlaying(o, f[k + 1], scheduled, n + (k + 1))
    OBVIOUS
  <2>2. k + 1 \in 0..budget /\ k + 1 # 0 /\ (k + 1) - 1 = k BY <2>1
  <2>3. f[k + 1] = FrameMark(f[k], scheduled) BY <1>1, <2>2 DEF IsRun
  <2>4. PICK h : h = f[k] OBVIOUS
  <2>5. PICK m \in Nat : m = n + k OBVIOUS
  <2>6. GatePlaying(o, h, scheduled, m) BY <1>4, <2>1, <2>4, <2>5
  <2>7. GatePlaying(o, FrameMark(h, scheduled), scheduled, m + 1) BY <2>6, HearsOn
  <2>8. m + 1 = n + (k + 1) BY <2>5
  <2>9. QED BY <2>3, <2>4, <2>7, <2>8
<1> HIDE DEF T
<1>5. \A k \in Nat : k \in T BY <1>3, <1>4, Up
<1>6. budget \in T BY <1>5
<1>7. QED BY <1>2, <1>6 DEF T

----
(* The whole script in one injection. *)

\* The words up to the i-th are live at their frames.
GateHolds(E, words, start, i) ==
  i >= 1 /\ words # << >> => \E m : LastDue(E, start + i, m) /\ E[m] = LiveWord(words, i)

LEMMA GateEventFacts ==
  ASSUME NEW words \in Seq(Pads), NEW start \in Nat
  PROVE  LET E == G!ChangeEvents(words, start) IN
         /\ \A at \in DOMAIN E : at \in Nat /\ at > start /\ at <= start + Len(words)
         /\ \A i \in 1..Len(words) : start + i \in DOMAIN E <=> i = 1 \/ words[i] # words[i-1]
         /\ \A i \in 1..Len(words) : start + i \in DOMAIN E => E[start + i] = words[i]
<1> DEFINE changed == {i \in DOMAIN words : i = 1 \/ words[i] # words[i-1]}
           E == G!ChangeEvents(words, start)
<1>1. E = [at \in {start + i : i \in changed} |-> words[at - start]] BY DEF G!ChangeEvents
<1>2. changed \subseteq 1..Len(words) OBVIOUS
<1>c. \A i \in 1..Len(words) : i \in changed <=> i = 1 \/ words[i] # words[i-1] OBVIOUS
<1> HIDE DEF changed, E
<1>3. \A at \in DOMAIN E : at \in Nat /\ at > start /\ at <= start + Len(words) BY <1>1, <1>2
<1>4. \A i \in 1..Len(words) : start + i \in DOMAIN E <=> i \in changed BY <1>1, <1>2
<1>5. \A i \in 1..Len(words) : start + i \in DOMAIN E => E[start + i] = words[i] BY <1>1
<1>6. \A i \in 1..Len(words) : start + i \in DOMAIN E <=> i = 1 \/ words[i] # words[i-1]
  BY <1>4, <1>c
<1>7. QED BY <1>3, <1>5, <1>6 DEF E

LEMMA GateEventsPlay ==
  ASSUME NEW words \in Seq(Pads), NEW start \in Nat
  PROVE  \A i \in Nat : GateHolds(G!ChangeEvents(words, start), words, start, i)
<1> DEFINE E == G!ChangeEvents(words, start)
           T == {i \in Nat : GateHolds(E, words, start, i)}
<1>0. /\ \A at \in DOMAIN E : at \in Nat /\ at > start /\ at <= start + Len(words)
      /\ \A i \in 1..Len(words) : start + i \in DOMAIN E <=> i = 1 \/ words[i] # words[i-1]
      /\ \A i \in 1..Len(words) : start + i \in DOMAIN E => E[start + i] = words[i]
  BY GateEventFacts
<1> HIDE DEF E
<1>1. 0 \in T BY DEF GateHolds
<1>2. ASSUME NEW i \in Nat, i \in T PROVE i + 1 \in T
  <2>0. SUFFICES ASSUME words # << >>
                 PROVE  \E m : LastDue(E, start + (i + 1), m) /\ E[m] = LiveWord(words, i + 1)
    BY DEF GateHolds
  <2>1. Len(words) \in Nat /\ Len(words) >= 1 BY <2>0
  <2>2. CASE i + 1 > Len(words)
    <3>1. i >= 1 /\ i >= Len(words) BY <2>1, <2>2
    <3>2. PICK m : LastDue(E, start + i, m) /\ E[m] = LiveWord(words, i)
      BY <1>2, <2>0, <3>1 DEF GateHolds
    <3>3. \A at \in DOMAIN E : at <= start + i BY <1>0, <3>1
    <3>4. LastDue(E, start + (i + 1), m) BY <1>0, <3>2, <3>3 DEF LastDue
    <3>5. LiveWord(words, i + 1) = LiveWord(words, i) BY <2>0, <2>2, <3>1 DEF LiveWord
    <3>6. QED BY <3>2, <3>4, <3>5
  <2>3. CASE i + 1 <= Len(words)
    <3>1. i + 1 \in 1..Len(words) /\ LiveWord(words, i + 1) = words[i + 1]
      BY <2>0, <2>3 DEF LiveWord
    <3>2. CASE start + (i + 1) \in DOMAIN E
      <4>1. LastDue(E, start + (i + 1), start + (i + 1)) BY <3>2 DEF LastDue
      <4>2. QED BY <1>0, <3>1, <3>2, <4>1
    <3>3. CASE start + (i + 1) \notin DOMAIN E
      <4>1. i + 1 # 1 /\ words[i + 1] = words[(i + 1) - 1] BY <1>0, <3>1, <3>3
      <4>2. i >= 1 /\ (i + 1) - 1 = i /\ i <= Len(words) BY <2>3, <4>1
      <4>3. PICK m : LastDue(E, start + i, m) /\ E[m] = LiveWord(words, i)
        BY <1>2, <2>0, <4>2 DEF GateHolds
      <4>4. LiveWord(words, i) = words[i] BY <2>0, <4>2 DEF LiveWord
      <4>5. \A at \in DOMAIN E : at <= start + (i + 1) <=> at <= start + i
        <5> TAKE at \in DOMAIN E
        <5>1. at \in Nat /\ at # start + (i + 1) BY <1>0, <3>3
        <5>2. QED BY <5>1
      <4>6. LastDue(E, start + (i + 1), m) BY <4>3, <4>5 DEF LastDue
      <4>7. QED BY <3>1, <4>1, <4>2, <4>3, <4>4, <4>6
    <3>4. QED BY <3>2, <3>3
  <2>4. QED BY <2>1, <2>2, <2>3
<1> HIDE DEF T
<1>3. \A i \in Nat : i \in T BY <1>1, <1>2, Up
<1>4. QED BY <1>3 DEF T, E

\* Injected into a guest just restored, the events play the whole script.
LEMMA GateInjects ==
  ASSUME NEW o, o.script \in Seq(Pads), NEW start \in Nat, G!RestoredGuest(o).counter = start,
         NEW g, Like(g, G!RestoredGuest(o)),
         NEW old, old = << >>, NEW all, all = Over(G!ChangeEvents(o.script, start), old)
  PROVE  GatePlaying(o, g, all, 0)
<1>1. PICK E : E = G!ChangeEvents(o.script, start) OBVIOUS
<1>2. \A at \in DOMAIN E : at \in Nat BY <1>1, GateEventFacts
<1>3. DOMAIN all = DOMAIN E /\ \A k \in DOMAIN E : all[k] = E[k]
  <2>1. DOMAIN old = {} OBVIOUS
  <2>2. all = Over(E, old) BY <1>1
  <2>3. DOMAIN all = DOMAIN E \cup DOMAIN old /\ \A k \in DOMAIN E : all[k] = E[k] BY <2>2 DEF Over
  <2>4. QED BY <2>1, <2>3
<1>4. ASSUME NEW i \in Nat, i > 0
      PROVE  LivePad(g, all, start + i) = Heard(o, i)
  <2>1. CASE o.script = << >>
    <3>1. DOMAIN E = {} BY <1>1, <2>1 DEF G!ChangeEvents
    <3>2. LivePad(g, all, start + i) = g.lastPad BY <1>3, <3>1 DEF LivePad
    <3>3. QED BY <2>1, <3>2 DEF Heard, Like
  <2>2. CASE o.script # << >>
    <3>1. PICK m : LastDue(E, start + i, m) /\ E[m] = LiveWord(o.script, i)
      <4>1. GateHolds(E, o.script, start, i) BY <1>1, GateEventsPlay
      <4>2. QED BY <1>4, <2>2, <4>1 DEF GateHolds
    <3>2. LastDue(all, start + i, m) /\ all[m] = E[m] BY <1>3, <3>1 DEF LastDue
    <3>3. DOMAIN all \subseteq Nat /\ start + i \in Nat BY <1>2, <1>3
    <3>4. LivePad(g, all, start + i) = all[m] BY <3>2, <3>3, LastDueLives
    <3>5. QED BY <1>4, <2>2, <3>1, <3>2, <3>4 DEF Heard
  <2>3. QED BY <2>1, <2>2
<1>5. DOMAIN all \subseteq Nat BY <1>2, <1>3
<1>6. Like(g, G!Played(o, 0)) BY GateStarts
<1>7. QED BY <1>4, <1>5, <1>6 DEF GatePlaying, Hears

----
(* Where a gate is. *)

\* A gate whose calls have all succeeded so far.
Engaged(c) ==
  c \in Gates /\ gPc[c] \in AtWork \cup {"restore"} /\ reply[c].status \in {"none", "ok"}

\* The slot is as it was restored.
AtBoundary(c) ==
  LET slot == slots[gLease[c]] IN
  Like(slot.state, G!RestoredGuest(gOpts[c])) /\ slot.scheduled = << >>

\* The slot before and after the call of the stage.
GateRestoring(c) ==
  /\ reply[c].status = "none" => \A k \in calls : k.client = c => k.req.ref = gOpts[c].ref
  /\ reply[c].status = "ok" =>
       /\ reply[c].guest = slots[reply[c].lease].state
       /\ slots[reply[c].lease].scheduled = << >>
       /\ Like(reply[c].guest, G!RestoredGuest(gOpts[c]))
GateInjecting(c) ==
  LET slot == slots[gLease[c]] IN
  /\ reply[c].status = "none" =>
       /\ AtBoundary(c)
       /\ \A k \in calls : k.client = c =>
            k.req.events = G!ChangeEvents(gOpts[c].script, gBase[c])
  /\ reply[c].status = "ok" => GatePlaying(gOpts[c], slot.state, slot.scheduled, 0)
GateRunning(c) ==
  LET slot == slots[gLease[c]] IN
  /\ reply[c].status = "none" =>
       /\ GatePlaying(gOpts[c], slot.state, slot.scheduled, gFramesRun[c])
       /\ \A k \in calls : k.client = c => k.req.budget = G!Least(gStops[c]) - gFramesRun[c]
  /\ reply[c].status = "ok" =>
       /\ GatePlaying(gOpts[c], slot.state, slot.scheduled, G!Least(gStops[c]))
       /\ reply[c].guest = slot.state
GateShowing(c) ==
  LET slot == slots[gLease[c]] IN
  /\ GatePlaying(gOpts[c], slot.state, slot.scheduled, gFramesRun[c])
  /\ reply[c].status = "ok" => reply[c].guest = slot.state

GateAt(c) ==
  /\ gPc[c] = "restore" => GateRestoring(c)
  /\ gPc[c] \in {"ready-proof", "geometry"} => AtBoundary(c)
  /\ gPc[c] = "inject" => GateInjecting(c)
  /\ gPc[c] = "run" => GateRunning(c)
  /\ gPc[c] = "framebuffer" => GateShowing(c)

----
(* What a gate has written down: of the stops D it has told, and of those *)
(* of them, E, whose framebuffers it has captured. *)

VerdictAt(o, s) ==
  G!Matched(o.checkpoints[G!Least(G!CheckpointAt(o, s))].expected, G!Framebuffer(G!Played(o, s)))

Shots(o, D) == {s \in D : G!CheckpointAt(o, s) # {}}

Told(c, D) ==
  LET o == gOpts[c] IN
  /\ D \subseteq G!Stops(o) /\ \A d \in D, s \in G!Stops(o) : s <= d => s \in D
  /\ D # {} => o.step # 0 /\ G!RestoredGuest(o).counter \in Nat
  /\ gTransition[c] = << >> => \A s \in D : G!Played(o, s).room # o.target
  /\ gTransition[c] # << >> => \E at \in D :
       /\ gTransition[c] = <<at>> /\ G!Played(o, at).room = o.target
       /\ \A s \in D : s < at => G!Played(o, s).room # o.target
  /\ gPadTraceOk[c] <=> \A s \in D : G!Played(o, s).lastPad = G!ExpectedPad(o.script, s)

Shown(c, E) ==
  /\ gCaptured[c] \in Seq(Range(gCaptured[c]))
  /\ \A i \in DOMAIN gCaptured[c] : \E s \in E : gCaptured[c][i].verdict = VerdictAt(gOpts[c], s)
  /\ \A s \in E : \E i \in DOMAIN gCaptured[c] : gCaptured[c][i].verdict = VerdictAt(gOpts[c], s)

\* The run has gone through every stop, or through enough of them.
Through(c, D, E) ==
  LET o == gOpts[c] IN
  /\ gFramesRun[c] \in D /\ \A d \in D : d <= gFramesRun[c]
  /\ E = Shots(o, D) /\ gReadyProof[c] # << >>
  /\ D = G!Stops(o) \/ G!Enough(o, gFramesRun[c], gTransition[c], gCaptured[c])

\* The script, played from the restored state, is what the gate passes for.
PlayedRight(c) ==
  LET o == gOpts[c] IN
  /\ \E s \in G!Stops(o) : G!Played(o, s).room = o.target
  /\ \A s \in {t \in G!Stops(o) : t <= gFramesRun[c]} :
       G!Played(o, s).lastPad = G!ExpectedPad(o.script, s)
  /\ \A i \in G!Compared(o) :
       o.checkpoints[i].expected \in
         {<< >>, G!Framebuffer(G!Played(o, o.checkpoints[i].frame))}

Early == Fresh \cup {"restore", "ready-proof", "geometry", "inject"}

AtStage(c, D, E) ==
  LET o == gOpts[c] IN
  /\ gPc[c] \in Early => D = {} /\ E = {} /\ gFramesRun[c] = 0
  /\ gPc[c] \in {"geometry", "inject", "run", "framebuffer"} => gReadyProof[c] # << >>
  /\ gPc[c] \in {"run", "framebuffer"} =>
       o.step # 0 /\ G!RestoredGuest(o).counter \in Nat /\ gStops[c] = G!Stops(o) \ D
  /\ gPc[c] = "run" => E = Shots(o, D) /\ \A s \in gStops[c] : gFramesRun[c] <= s
  /\ gPc[c] = "framebuffer" =>
       /\ gFramesRun[c] \in D /\ \A d \in D : d <= gFramesRun[c]
       /\ G!CheckpointAt(o, gFramesRun[c]) # {} /\ E = Shots(o, D) \ {gFramesRun[c]}
  /\ gPc[c] = "destroy" /\ gFailures[c] = {} => Through(c, D, E)
  /\ gPc[c] = "cleanup" => gFailures[c] # {}
  /\ gPc[c] = "done" /\ gFailures[c] = {} => (gResult[c] = "pass" <=> PlayedRight(c))

Tells(c) == \E D, E : Told(c, D) /\ Shown(c, E) /\ AtStage(c, D, E)

GateShapes ==
  /\ gTransition = [c \in Gates |-> gTransition[c]] /\ gCaptured = [c \in Gates |-> gCaptured[c]]
  /\ gPadTraceOk = [c \in Gates |-> gPadTraceOk[c]]
  /\ gReadyProof = [c \in Gates |-> gReadyProof[c]] /\ gResult = [c \in Gates |-> gResult[c]]

\* A snapshot is stored under the ref of its guest.
RefsOK == \A ref \in DOMAIN snapshots : SnapshotRef(snapshots[ref]) = ref

GateInv ==
  /\ GateShapes /\ RefsOK
  /\ \A c \in Gates : gPc[c] # "snapshot" /\ Tells(c) /\ (Engaged(c) => GateAt(c))

----
(* Steps that leave a gate as it is. *)

\* The guest that plays a script from `first` on.
PlayedFrom(first, o, n) ==
  LET after[i \in 0..n] ==
        IF i = 0 THEN first
        ELSE G!FrameMark(after[i-1],
               IF o.script = << >> THEN << >>
               ELSE G!Entry(after[i-1].counter + 1, G!LiveWord(o.script, i)))
  IN  after[n]

LEMMA PlayedStays ==
  ASSUME corrupt' = corrupt
  PROVE  \A o, n : /\ G!RestoredGuest(o)' = G!RestoredGuest(o)
                   /\ G!Played(o, n)' = G!Played(o, n)
<1>1. SUFFICES ASSUME NEW o, NEW n
               PROVE  /\ G!RestoredGuest(o)' = G!RestoredGuest(o)
                      /\ G!Played(o, n)' = G!Played(o, n)
  OBVIOUS
<1>2. G!RestoredGuest(o)' = G!RestoredGuest(o) BY DEF G!RestoredGuest
<1>3. G!Played(o, n) = PlayedFrom(G!RestoredGuest(o), o, n) BY DEF G!Played, PlayedFrom
<1>4. G!Played(o, n)' = PlayedFrom(G!RestoredGuest(o)', o, n) BY DEF G!Played, PlayedFrom
<1>5. QED BY <1>2, <1>3, <1>4

\* What is said of the play-through of a gate is said of the same guests.
LEMMA GateSame ==
  ASSUME corrupt' = corrupt, NEW d, gOpts'[d] = gOpts[d]
  PROVE  LET o == gOpts[d] IN
         /\ \A g, s, n : GatePlaying(o, g, s, n) => GatePlaying(gOpts[d], g, s, n)'
         /\ \A s : VerdictAt(gOpts[d], s)' = VerdictAt(o, s)
<1>1. PICK o : o = gOpts[d] OBVIOUS
<1>2. o = gOpts'[d] BY <1>1
<1>3. \A n : G!RestoredGuest(o)' = G!RestoredGuest(o) /\ G!Played(o, n)' = G!Played(o, n)
  BY PlayedStays
<1>4. \A n : Heard(o, n)' = Heard(o, n) BY <1>3 DEF Heard
<1>5. ASSUME NEW g, NEW s, NEW n, GatePlaying(o, g, s, n)
      PROVE  GatePlaying(o, g, s, n)' BY <1>3, <1>4, <1>5 DEF GatePlaying, Hears
<1>6. \A s : VerdictAt(o, s)' = VerdictAt(o, s) BY <1>3 DEF VerdictAt
<1>7. QED BY <1>1, <1>2, <1>5, <1>6

\* Nothing a gate knows of its slot changes.
GateRests(d) ==
  /\ corrupt' = corrupt /\ gOpts'[d] = gOpts[d] /\ gPc'[d] = gPc[d] /\ gLease'[d] = gLease[d]
  /\ gBase'[d] = gBase[d] /\ gStops'[d] = gStops[d] /\ gFramesRun'[d] = gFramesRun[d]
  /\ reply'[d] = reply[d] /\ \A k \in calls' : k.client = d => k \in calls

LEMMA GateAtRests ==
  ASSUME NEW d \in Gates, GateRests(d), GateAt(d),
         gPc[d] = "restore" /\ reply[d].status = "ok" => SlotRests(reply[d].lease),
         gPc[d] \in AtWork => SlotRests(gLease[d])
  PROVE  GateAt(d)'
<1>1. PICK o : o = gOpts[d] OBVIOUS
<1>2. /\ \A g, s, n : GatePlaying(o, g, s, n) => GatePlaying(gOpts[d], g, s, n)'
      /\ G!RestoredGuest(o)' = G!RestoredGuest(o)
  BY <1>1, GateSame, PlayedStays DEF GateRests
<1>3. gOpts'[d] = o /\ G!RestoredGuest(gOpts[d])' = G!RestoredGuest(o) BY <1>1, <1>2 DEF GateRests
<1>4. gPc'[d] = "restore" => GateRestoring(d)'
  BY <1>1, <1>3 DEF GateAt, GateRestoring, GateRests, SlotRests
<1>5. gPc[d] \in AtWork /\ AtBoundary(d) => AtBoundary(d)'
  BY <1>1, <1>3 DEF AtBoundary, GateRests, SlotRests
<1>6. gPc'[d] \in {"ready-proof", "geometry"} => AtBoundary(d)'
  BY <1>5 DEF GateAt, GateRests, AtWork
<1>7. gPc'[d] = "inject" => GateInjecting(d)'
  BY <1>1, <1>2, <1>3, <1>5 DEF GateAt, GateInjecting, GateRests, SlotRests, AtWork
<1>8. gPc'[d] = "run" => GateRunning(d)'
  BY <1>1, <1>2, <1>3 DEF GateAt, GateRunning, GateRests, SlotRests, AtWork
<1>9. gPc'[d] = "framebuffer" => GateShowing(d)'
  BY <1>1, <1>2, <1>3 DEF GateAt, GateShowing, GateRests, SlotRests, AtWork
<1>10. QED BY <1>4, <1>6, <1>7, <1>8, <1>9 DEF GateAt

LEMMA GateStages ==
  ASSUME NEW c \in Gates
  PROVE  /\ c \in Clients /\ c \notin Suites /\ Stage(c) = gPc[c] /\ Lease(c) = gLease[c]
         /\ Stage(c)' = gPc'[c] /\ Lease(c)' = gLease'[c]
  BY Kinds DEF Stage, Lease

\* The only call of a gate under way is the one of its stage, and it waits for it.
LEMMA OwnGateCall ==
  ASSUME RpcInv, NEW c, Engaged(c)
  PROVE  \A k \in calls : k.client = c =>
           /\ k.awaited /\ reply[c].status = "none" /\ k.req.op = Asks(gPc[c])
           /\ gPc[c] # "restore" => k.req.lease = gLease[c]
           /\ \A l \in calls : l.client = c => l = k
<1>1. /\ c \in Gates /\ c \notin Suites /\ Stage(c) = gPc[c] /\ Lease(c) = gLease[c]
      /\ ~GaveUp(c)
  BY GateStages DEF Engaged, GaveUp, AtWork, Leaving, Gone
<1>2. ASSUME NEW k \in calls, k.client = c
      PROVE  /\ k.awaited /\ reply[c].status = "none" /\ k.req.op = Asks(gPc[c])
             /\ gPc[c] # "restore" => k.req.lease = gLease[c]
  <2>1. CallOK(k) BY DEF RpcInv
  <2>2. /\ k.awaited /\ reply[c].status = "none" /\ k.req.op = Asks(gPc[c])
    BY <1>1, <1>2, <2>1 DEF CallOK
  <2>3. gPc[c] # "restore" => k.req.op # "restore" BY <2>2, AsksWhat DEF Engaged
  <2>4. QED BY <1>1, <1>2, <2>1, <2>2, <2>3 DEF CallOK
<1>3. QED BY <1>2 DEF RpcInv, OneAwaited

\* The slot a gate works on is its own.
LEMMA OwnGateSlot ==
  ASSUME NEW own, OwnInv(own), NEW c, Engaged(c)
  PROVE  /\ gPc[c] = "restore" /\ reply[c].status = "ok" =>
              reply[c].lease \in DOMAIN slots /\ own[reply[c].lease] = c
         /\ gPc[c] \in AtWork => gLease[c] \in DOMAIN slots /\ own[gLease[c]] = c
<1>1. c \in Gates /\ c \in Clients /\ Stage(c) = gPc[c] /\ Lease(c) = gLease[c]
  BY GateStages DEF Engaged
<1>2. Holding(own, c) BY <1>1 DEF OwnInv
<1>3. QED BY <1>1, <1>2 DEF Holding

----
(* A gate's call is served. *)

GateAsked(c, k) ==
  /\ RpcInv /\ StoreOK /\ ReportShapes /\ GateCounts(c) /\ RefsOK
  /\ Engaged(c) /\ GateAt(c) /\ Tells(c) /\ (\E own : OwnInv(own))
  /\ k \in calls /\ k.client = c /\ Handle(k) /\ UNCHANGED gateVars

\* Where gate c is in its run is as before.
SameRun(c) ==
  /\ corrupt' = corrupt /\ gOpts'[c] = gOpts[c] /\ gPc'[c] = gPc[c] /\ gLease'[c] = gLease[c]
  /\ gBase'[c] = gBase[c] /\ gStops'[c] = gStops[c] /\ gFramesRun'[c] = gFramesRun[c]

LEMMA AskedFacts ==
  ASSUME NEW c, NEW k, GateAsked(c, k)
  PROVE  /\ c \in Gates /\ SlotsOK /\ GateAt(c) /\ SameRun(c) /\ Handle(k)
         /\ reply[c].status = "none" /\ k.awaited /\ k.req.op = Asks(gPc[c])
         /\ gPc[c] # "restore" => k.req.lease = gLease[c]
         /\ \A j \in calls' : j.client # c
         /\ \A answer : Deliver(k, answer) => reply'[c] = answer
         /\ gPc[c] \in AtWork => gLease[c] \in DOMAIN slots
         /\ G!ValidOptions(gOpts[c]) /\ gBase[c] \in Nat /\ gFramesRun[c] \in Nat
         /\ gStops[c] \subseteq Nat
<1>0. /\ RpcInv /\ Engaged(c) /\ GateAt(c) /\ k \in calls /\ k.client = c /\ Handle(k)
      /\ UNCHANGED gateVars /\ ReportShapes /\ SlotsOK
  BY DEF GateAsked, StoreOK
<1>1. c \in Gates /\ c \in Clients /\ k.awaited \in BOOLEAN
  BY <1>0, GateStages DEF Engaged, RpcInv, CallOK
<1>2. /\ k.awaited /\ reply[c].status = "none" /\ k.req.op = Asks(gPc[c])
      /\ gPc[c] # "restore" => k.req.lease = gLease[c]
      /\ \A j \in calls : j.client = c => j = k
  BY <1>0, OwnGateCall
<1>3. corrupt' = corrupt /\ calls' = calls \ {k} BY <1>0, HandleRests
<1>4. SameRun(c) BY <1>0, <1>3 DEF SameRun, gateVars
<1>5. \A answer : Deliver(k, answer) => reply'[c] = answer BY <1>0, <1>1, <1>2, Answers
<1>6. gPc[c] \in AtWork => gLease[c] \in DOMAIN slots BY <1>0, OwnGateSlot DEF GateAsked
<1>7. /\ G!ValidOptions(gOpts[c]) /\ gBase[c] \in Nat /\ gFramesRun[c] \in Nat
      /\ gStops[c] \subseteq Nat
  BY <1>0, <1>1, GatesAssumption DEF ReportShapes
<1>8. QED BY <1>0, <1>1, <1>2, <1>3, <1>4, <1>5, <1>6, <1>7

\* Guest and counter of a gate that works on what it restored.
LEMMA BoundaryCounts ==
  ASSUME NEW c \in Gates, AtBoundary(c), GateCounts(c), ReportShapes,
         gPc[c] \in {"ready-proof", "geometry", "inject"}, reply[c].status \in {"none", "ok"}
  PROVE  G!RestoredGuest(gOpts[c]).counter = gBase[c] /\ gBase[c] \in Nat
  BY DEF AtBoundary, Like, GateCounts, ReportShapes

\* The restored guest is the one the ref stands for.
LEMMA RestoresRef ==
  ASSUME NEW o, NEW ref, ref = o.ref, ref # READY, NEW saved, GuestOK(saved),
         SnapshotRef(saved) = ref,
         NEW guest, guest = IF corrupt THEN [saved EXCEPT !.nonzero = @ + 1] ELSE saved
  PROVE  Like(guest, G!RestoredGuest(o))
<1>1. saved = [counter |-> saved.counter, room |-> saved.room, nonzero |-> saved.nonzero,
               lastPad |-> saved.lastPad, metaFrame |-> saved.metaFrame, running |-> saved.running]
  BY DEF GuestOK
<1>2. ref = <<"mid">> \o <<saved.counter, saved.room, saved.nonzero, saved.lastPad, saved.metaFrame>>
  BY DEF SnapshotRef, StateHash
<1>3. /\ ref[2] = saved.counter /\ ref[3] = saved.room /\ ref[4] = saved.nonzero
      /\ ref[5] = saved.lastPad /\ ref[6] = saved.metaFrame
  BY <1>2
<1>4. PICK n : n = IF corrupt THEN saved.nonzero + 1 ELSE saved.nonzero OBVIOUS
<1>5. G!RestoredGuest(o) = [counter |-> ref[2], room |-> ref[3],
                            nonzero |-> IF corrupt THEN ref[4] + 1 ELSE ref[4],
                            lastPad |-> ref[5], metaFrame |-> ref[6], running |-> TRUE]
  BY GateOperators DEF G!RestoredGuest
<1>6. (IF corrupt THEN ref[4] + 1 ELSE ref[4]) = n BY <1>3, <1>4
<1>7. G!RestoredGuest(o) = [counter |-> ref[2], room |-> ref[3], nonzero |-> n,
                            lastPad |-> ref[5], metaFrame |-> ref[6], running |-> TRUE]
  BY <1>5, <1>6
<1>8. CASE corrupt
  <2>1. guest = [saved EXCEPT !.nonzero = saved.nonzero + 1] /\ n = saved.nonzero + 1 BY <1>4, <1>8
  <2>2. guest = [saved EXCEPT !.nonzero = n] BY <2>1
  <2>3. /\ guest.counter = saved.counter /\ guest.room = saved.room /\ guest.nonzero = n
        /\ guest.lastPad = saved.lastPad /\ guest.metaFrame = saved.metaFrame
    BY <1>1, <2>2
  <2>4. QED BY <1>3, <1>7, <2>3 DEF Like
<1>9. CASE ~corrupt
  <2>1. guest = saved BY <1>9
  <2>2. QED BY <1>3, <1>4, <1>7, <1>9, <2>1 DEF Like
<1>10. QED BY <1>8, <1>9

LEMMA GateRestores ==
  ASSUME NEW c, NEW k, GateAsked(c, k), gPc[c] = "restore"
  PROVE  Engaged(c)' => GateAt(c)'
<1>0. /\ c \in Gates /\ GateAt(c) /\ SameRun(c) /\ Handle(k)
      /\ reply[c].status = "none" /\ k.awaited /\ k.req.op = "restore"
      /\ \A j \in calls' : j.client # c
      /\ \A answer : Deliver(k, answer) => reply'[c] = answer
  BY AskedFacts DEF Asks
<1>1. RestoreSnapshot(k) BY <1>0, Serves DEF Handle
<1>2. PICK o, ref : o = gOpts[c] /\ ref = k.req.ref OBVIOUS
<1>3. ref = o.ref BY <1>0, <1>2 DEF GateAt, GateRestoring, GateAsked
<1> DEFINE saved == snapshots[ref]
           made == CASE ref = READY -> ReadyGuest
                     [] ref # READY /\ corrupt -> [saved EXCEPT !.nonzero = @ + 1]
                     [] OTHER -> saved
<1>4. PICK guest : guest = made OBVIOUS
<1>5. PICK id : id = nextSlot + 1 OBVIOUS
<1>6. PICK slot : slot = [state |-> guest, scheduled |-> << >>] OBVIOUS
<1>7. CASE ref = READY \/ ref \in DOMAIN snapshots
  <2>1. slots' = Over(Entry(id, slot), slots) /\ Deliver(k, [status |-> "ok", lease |-> id, guest |-> guest])
    BY <1>1, <1>2, <1>4, <1>5, <1>6, <1>7 DEF RestoreSnapshot, NextSlotId
  <2>2. slots'[id] = slot BY <2>1 DEF Over, Entry
  <2>3. reply'[c] = [status |-> "ok", lease |-> id, guest |-> guest] BY <1>0, <2>1
  <2>4. Like(guest, G!RestoredGuest(o))
    <3>1. CASE ref = READY
      <4>1. guest = ReadyGuest /\ G!RestoredGuest(o) = ReadyGuest
        BY <1>3, <1>4, <3>1, GateOperators DEF G!RestoredGuest
      <4>2. QED BY <4>1 DEF Like
    <3>2. CASE ref # READY
      <4>1. GuestOK(saved) /\ SnapshotRef(saved) = ref BY <1>7, <3>2 DEF GateAsked, StoreOK, RefsOK
      <4>2. guest = IF corrupt THEN [saved EXCEPT !.nonzero = @ + 1] ELSE saved BY <1>4, <3>2
      <4>3. PICK s : s = saved OBVIOUS
      <4>4. GuestOK(s) /\ SnapshotRef(s) = ref
            /\ guest = IF corrupt THEN [s EXCEPT !.nonzero = @ + 1] ELSE s
        BY <4>1, <4>2, <4>3
      <4>5. QED BY <1>3, <3>2, <4>4, RestoresRef
    <3>3. QED BY <3>1, <3>2
  <2> HIDE DEF saved, made
  <2>5. /\ reply'[c].status = "ok" /\ reply'[c].lease = id /\ reply'[c].guest = guest
        /\ slots'[id].state = guest /\ slots'[id].scheduled = << >>
    BY <1>6, <2>2, <2>3
  <2>6. gPc'[c] = "restore" /\ gOpts'[c] = o /\ corrupt' = corrupt BY <1>0, <1>2 DEF SameRun
  <2>7. G!RestoredGuest(gOpts[c])' = G!RestoredGuest(o) BY <1>2, <2>6, PlayedStays
  <2>8. GateRestoring(c)' BY <2>4, <2>5, <2>7 DEF GateRestoring
  <2>9. QED BY <2>6, <2>8 DEF GateAt
<1>8. CASE ref # READY /\ ref \notin DOMAIN snapshots
  <2>1. Deliver(k, Refused("not_found")) BY <1>1, <1>2, <1>8 DEF RestoreSnapshot
  <2>2. reply'[c].status = "not_found" BY <1>0, <2>1 DEF Refused
  <2>3. QED BY <2>2 DEF Engaged
<1>9. QED BY <1>7, <1>8

\* Reading changes nothing.
LEMMA GateReads ==
  ASSUME NEW c, NEW k, GateAsked(c, k), gPc[c] \in {"ready-proof", "geometry", "framebuffer"}
  PROVE  GateAt(c)'
<1>0. /\ c \in Gates /\ GateAt(c) /\ SameRun(c) /\ Handle(k) /\ gPc[c] \in AtWork
      /\ reply[c].status = "none" /\ k.req.op \in {"read", "framebuffer"}
      /\ k.req.lease = gLease[c] /\ gLease[c] \in DOMAIN slots
      /\ \A answer : Deliver(k, answer) => reply'[c] = answer
  BY AskedFacts DEF Asks, AtWork
<1>1. Read(k) BY <1>0, Serves DEF Handle
<1>2. PICK l, o : l = gLease[c] /\ o = gOpts[c] OBVIOUS
<1>3. slots' = slots /\ Deliver(k, Answer(slots[l].state)) BY <1>0, <1>1, <1>2 DEF Read
<1>4. reply'[c].status = "ok" /\ reply'[c].guest = slots[l].state BY <1>0, <1>3 DEF Answer
<1>5. /\ gPc'[c] = gPc[c] /\ gOpts'[c] = o /\ gLease'[c] = l /\ gFramesRun'[c] = gFramesRun[c]
  BY <1>0, <1>2 DEF SameRun
<1>6. /\ G!RestoredGuest(gOpts[c])' = G!RestoredGuest(o)
      /\ \A g, s, n : GatePlaying(o, g, s, n) => GatePlaying(gOpts[c], g, s, n)'
  BY <1>0, <1>2, GateSame, PlayedStays DEF SameRun
<1>7. gPc[c] \in {"ready-proof", "geometry"} => AtBoundary(c)'
  BY <1>0, <1>2, <1>3, <1>5, <1>6 DEF AtBoundary, GateAt
<1>8. gPc[c] = "framebuffer" => GateShowing(c)'
  BY <1>0, <1>2, <1>3, <1>4, <1>5, <1>6 DEF GateShowing, GateAt
<1>9. QED BY <1>5, <1>7, <1>8 DEF GateAt

\* The events of the whole script are scheduled.
LEMMA GateInjected ==
  ASSUME NEW c, NEW k, GateAsked(c, k), gPc[c] = "inject"
  PROVE  GateAt(c)'
<1>0. /\ c \in Gates /\ GateAt(c) /\ SameRun(c) /\ Handle(k) /\ SlotsOK
      /\ reply[c].status = "none" /\ k.req.op = "inject"
      /\ k.req.lease = gLease[c] /\ gLease[c] \in DOMAIN slots
      /\ \A answer : Deliver(k, answer) => reply'[c] = answer
      /\ G!ValidOptions(gOpts[c])
  BY AskedFacts DEF Asks, AtWork
<1>a. k \in calls /\ k.client = c /\ GateCounts(c) /\ ReportShapes BY DEF GateAsked
<1>1. PICK l, o, start : l = gLease[c] /\ o = gOpts[c] /\ start = gBase[c] OBVIOUS
<1>2. PICK g, old : g = slots[l].state /\ old = slots[l].scheduled OBVIOUS
<1>3. PICK E : E = G!ChangeEvents(o.script, start) OBVIOUS
<1>4. AtBoundary(c) /\ k.req.events = E BY <1>0, <1>a, <1>1, <1>3 DEF GateAt, GateInjecting
<1>5. /\ Like(g, G!RestoredGuest(o)) /\ old = << >> /\ o.script \in Seq(Pads)
      /\ G!RestoredGuest(o).counter = start /\ start \in Nat
  BY <1>0, <1>a, <1>1, <1>2, <1>4, BoundaryCounts DEF AtBoundary, G!ValidOptions
<1>6. PICK all : all = Over(E, old) OBVIOUS
<1>7. GatePlaying(o, g, all, 0)
  <2>1. all = Over(G!ChangeEvents(o.script, start), old) BY <1>3, <1>6
  <2>2. QED BY <1>5, <2>1, GateInjects
<1>8. InjectInputs(k) BY <1>0, Serves DEF Handle
<1>9. g.counter = start /\ \A at \in DOMAIN E : at \in Nat /\ at > start
  BY <1>3, <1>5, EventsAhead DEF Like
<1>10. ~\E at \in DOMAIN E : at <= g.counter BY <1>5, <1>9
<1>11. Deliver(k, Answer(g)) /\ slots' = [slots EXCEPT ![l].scheduled = Over(E, @)]
  BY <1>0, <1>1, <1>2, <1>4, <1>8, <1>10 DEF InjectInputs
<1>12. slots'[l].state = g /\ slots'[l].scheduled = all
  <2>1. /\ slots = [i \in DOMAIN slots |-> slots[i]] /\ l \in DOMAIN slots
        /\ slots[l] = [state |-> g, scheduled |-> old]
    BY <1>0, <1>1, <1>2 DEF SlotsOK
  <2>2. slots' = [slots EXCEPT ![l].scheduled = all] BY <1>2, <1>6, <1>11, <2>1
  <2>3. PICK s : s = [slots[l] EXCEPT !.scheduled = all] OBVIOUS
  <2>4. s = [state |-> g, scheduled |-> all] BY <2>1, <2>3
  <2>5. slots' = [slots EXCEPT ![l] = s] BY <2>1, <2>2, <2>3
  <2>6. QED BY <2>1, <2>4, <2>5
<1>13. reply'[c].status = "ok" BY <1>0, <1>11 DEF Answer
<1>14. gPc'[c] = "inject" /\ gOpts'[c] = o /\ gLease'[c] = l BY <1>0, <1>1 DEF SameRun, GateAsked
<1>15. GatePlaying(gOpts[c], g, all, 0)' BY <1>0, <1>1, <1>7, GateSame DEF SameRun
<1>16. GateInjecting(c)' BY <1>12, <1>13, <1>14, <1>15 DEF GateInjecting
<1>17. QED BY <1>14, <1>16 DEF GateAt

\* The run reaches its stop, and the guest is where the play-through is.
LEMMA GateRuns ==
  ASSUME NEW c, NEW k, GateAsked(c, k), gPc[c] = "run", GatePlan(c)
  PROVE  GateAt(c)'
<1>0. /\ c \in Gates /\ GateAt(c) /\ SameRun(c) /\ Handle(k) /\ SlotsOK
      /\ reply[c].status = "none" /\ k.req.op = "run"
      /\ k.req.lease = gLease[c] /\ gLease[c] \in DOMAIN slots
      /\ \A answer : Deliver(k, answer) => reply'[c] = answer
      /\ gFramesRun[c] \in Nat /\ gStops[c] \subseteq Nat
  BY AskedFacts DEF Asks, AtWork
<1>a. k \in calls /\ k.client = c /\ Tells(c) BY DEF GateAsked
<1>1. PICK l, o, n, m : l = gLease[c] /\ o = gOpts[c] /\ n = gFramesRun[c] /\ m = G!Least(gStops[c])
  OBVIOUS
<1>2. PICK g, all : g = slots[l].state /\ all = slots[l].scheduled OBVIOUS
<1>3. GatePlaying(o, g, all, n) /\ k.req.budget = m - n
  BY <1>0, <1>a, <1>1, <1>2 DEF GateAt, GateRunning
<1>4. gStops[c] # {} BY DEF GatePlan
<1>5. m \in gStops[c] /\ m \in Nat BY <1>0, <1>1, <1>4, LeastStop
<1>6. n \in Nat /\ n <= m /\ G!RestoredGuest(o).counter \in Nat
  BY <1>0, <1>a, <1>1, <1>5 DEF Tells, AtStage
<1>7. PICK b : b = m - n OBVIOUS
<1>8. b \in Nat /\ n + b = m BY <1>5, <1>6, <1>7
<1>9. PICK h : h = RunFrames(g, all, b) OBVIOUS
<1>10. GatePlaying(o, h, all, m) BY <1>3, <1>6, <1>8, <1>9, RunsThere
<1>11. Run(k) BY <1>0, Serves DEF Handle
<1>12. slots'[l].state = h /\ slots'[l].scheduled = all
  BY <1>0, <1>1, <1>2, <1>3, <1>7, <1>9, <1>11, RunsSlot
<1>13. Deliver(k, Answer(h)) BY <1>0, <1>1, <1>2, <1>3, <1>7, <1>9, <1>11 DEF Run
<1>14. reply'[c].status = "ok" /\ reply'[c].guest = h BY <1>0, <1>13 DEF Answer
<1>15. gPc'[c] = "run" /\ gOpts'[c] = o /\ gLease'[c] = l /\ G!Least(gStops[c])' = m
  BY <1>0, <1>1 DEF SameRun, G!Least
<1>16. GatePlaying(gOpts[c], h, all, m)' BY <1>0, <1>1, <1>10, GateSame DEF SameRun
<1>17. GateRunning(c)' BY <1>12, <1>14, <1>15, <1>16 DEF GateRunning
<1>18. QED BY <1>15, <1>17 DEF GateAt

----
(* Steps of the others. *)

\* Gate d is where it was, and has written nothing down.
GateStays(d) ==
  /\ gOpts'[d] = gOpts[d] /\ gPc'[d] = gPc[d] /\ gLease'[d] = gLease[d] /\ gBase'[d] = gBase[d]
  /\ gStops'[d] = gStops[d] /\ gFramesRun'[d] = gFramesRun[d]
  /\ gReadyProof'[d] = gReadyProof[d] /\ gTransition'[d] = gTransition[d]
  /\ gCaptured'[d] = gCaptured[d] /\ gPadTraceOk'[d] = gPadTraceOk[d]
  /\ gFailures'[d] = gFailures[d] /\ gResult'[d] = gResult[d]

LEMMA ToldStays ==
  ASSUME corrupt' = corrupt, NEW d, gOpts'[d] = gOpts[d], gTransition'[d] = gTransition[d],
         gPadTraceOk'[d] = gPadTraceOk[d], NEW D, Told(d, D)
  PROVE  Told(d, D)'
<1>1. \A o, n : /\ G!RestoredGuest(o)' = G!RestoredGuest(o)
                /\ G!Played(o, n)' = G!Played(o, n)
  BY PlayedStays
<1>2. PICK o : o = gOpts[d] OBVIOUS
<1>3. o = gOpts'[d] BY <1>2
<1>4. /\ D \subseteq G!Stops(o) /\ \A e \in D, s \in G!Stops(o) : s <= e => s \in D
      /\ D # {} => o.step # 0 /\ G!RestoredGuest(o).counter \in Nat
      /\ gTransition[d] = << >> => \A s \in D : G!Played(o, s).room # o.target
      /\ gTransition[d] # << >> => \E at \in D :
           /\ gTransition[d] = <<at>> /\ G!Played(o, at).room = o.target
           /\ \A s \in D : s < at => G!Played(o, s).room # o.target
  BY <1>2 DEF Told
<1>5. gPadTraceOk[d] <=> \A s \in D : G!Played(o, s).lastPad = G!ExpectedPad(o.script, s)
  BY <1>2, Zenon DEF Told
<1>6. /\ D \subseteq G!Stops(o) /\ \A e \in D, s \in G!Stops(o) : s <= e => s \in D
      /\ D # {} => o.step # 0 /\ G!RestoredGuest(o)'.counter \in Nat
      /\ gTransition'[d] = << >> => \A s \in D : G!Played(o, s)'.room # o.target
      /\ gTransition'[d] # << >> => \E at \in D :
           /\ gTransition'[d] = <<at>> /\ G!Played(o, at)'.room = o.target
           /\ \A s \in D : s < at => G!Played(o, s)'.room # o.target
  BY <1>1, <1>4
<1>7. gPadTraceOk'[d] <=> \A s \in D : G!Played(o, s)'.lastPad = G!ExpectedPad(o.script, s)
  BY <1>1, <1>5, Zenon
<1>8. QED BY <1>3, <1>6, <1>7, Zenon DEF Told

LEMMA ShownStays ==
  ASSUME corrupt' = corrupt, NEW d, gOpts'[d] = gOpts[d], gCaptured'[d] = gCaptured[d],
         NEW E, Shown(d, E)
  PROVE  Shown(d, E)'
<1>1. \A s : VerdictAt(gOpts[d], s)' = VerdictAt(gOpts[d], s) BY GateSame
<1>2. QED BY <1>1 DEF Shown

LEMMA PlayedRightStays ==
  ASSUME corrupt' = corrupt, NEW d, gOpts'[d] = gOpts[d], gFramesRun'[d] = gFramesRun[d]
  PROVE  PlayedRight(d)' <=> PlayedRight(d)
<1>1. \A o, n : G!Played(o, n)' = G!Played(o, n) BY PlayedStays
<1>2. PICK o : o = gOpts[d] OBVIOUS
<1>3. o = gOpts'[d] BY <1>2
<1> DEFINE right == /\ \E s \in G!Stops(o) : G!Played(o, s).room = o.target
                    /\ \A s \in {t \in G!Stops(o) : t <= gFramesRun[d]} :
                         G!Played(o, s).lastPad = G!ExpectedPad(o.script, s)
                    /\ \A i \in G!Compared(o) :
                         o.checkpoints[i].expected \in
                           {<< >>, G!Framebuffer(G!Played(o, o.checkpoints[i].frame))}
           after == /\ \E s \in G!Stops(o) : G!Played(o, s)'.room = o.target
                    /\ \A s \in {t \in G!Stops(o) : t <= gFramesRun'[d]} :
                         G!Played(o, s)'.lastPad = G!ExpectedPad(o.script, s)
                    /\ \A i \in G!Compared(o) :
                         o.checkpoints[i].expected \in
                           {<< >>, G!Framebuffer(G!Played(o, o.checkpoints[i].frame)')}
<1>4. PlayedRight(d) <=> right BY <1>2, Zenon DEF PlayedRight
<1>5. PlayedRight(d)' <=> after BY <1>3, Zenon DEF PlayedRight
<1>6. right <=> after BY <1>1
<1>7. QED BY <1>4, <1>5, <1>6

LEMMA TellsStays ==
  ASSUME corrupt' = corrupt, NEW d, GateStays(d), Tells(d)
  PROVE  Tells(d)'
<1>1. PICK D, E : Told(d, D) /\ Shown(d, E) /\ AtStage(d, D, E) BY DEF Tells
<1>2. Told(d, D)' /\ Shown(d, E)' BY <1>1, ToldStays, ShownStays DEF GateStays
<1>3. AtStage(d, D, E)'
  <2>1. G!RestoredGuest(gOpts[d])' = G!RestoredGuest(gOpts[d]) BY PlayedStays DEF GateStays
  <2>2. gPc'[d] = "destroy" /\ gFailures'[d] = {} => Through(d, D, E)'
    BY <1>1 DEF AtStage, GateStays, Through
  <2>3. gPc'[d] = "done" /\ gFailures'[d] = {} => (gResult'[d] = "pass" <=> PlayedRight(d)')
    BY <1>1, PlayedRightStays DEF AtStage, GateStays
  <2>4. QED BY <1>1, <2>1, <2>2, <2>3 DEF AtStage, GateStays
<1>4. QED BY <1>2, <1>3 DEF Tells

LEMMA GatesStay ==
  ASSUME GateInv, UNCHANGED gateVars, corrupt' = corrupt, RefsOK',
         \A d \in Gates : Engaged(d)' => GateAt(d)'
  PROVE  GateInv'
<1>1. GateShapes' BY DEF GateInv, GateShapes, gateVars
<1>2. \A d \in Gates : gPc'[d] # "snapshot" /\ Tells(d)'
  BY TellsStays DEF GateInv, GateStays, gateVars
<1>3. QED BY <1>1, <1>2 DEF GateInv

\* A gate that nothing has happened to.
LEMMA GateLeft ==
  ASSUME NEW d \in Gates, GateRests(d), Engaged(d) => GateAt(d),
         gPc[d] = "restore" /\ reply[d].status = "ok" => SlotRests(reply[d].lease),
         gPc[d] \in AtWork => SlotRests(gLease[d])
  PROVE  Engaged(d)' => GateAt(d)'
<1>1. Engaged(d)' => Engaged(d) BY DEF Engaged, GateRests
<1>2. QED BY <1>1, GateAtRests

LEMMA HandleGates ==
  ASSUME RpcInv, WorkInv, GateInv, NEW own, OwnInv(own), NEW k \in calls, Handle(k),
         UNCHANGED gateVars
  PROVE  GateInv'
<1>1. /\ corrupt' = corrupt /\ snapshots' = snapshots /\ calls' = calls \ {k}
      /\ StoreOK /\ ReportShapes /\ \A d \in Gates : GateCounts(d) /\ GatePlan(d)
  BY HandleRests DEF WorkInv, GateOK
<1>2. RefsOK' BY <1>1 DEF GateInv, RefsOK
<1>3. ASSUME NEW d \in Gates, Engaged(d)' PROVE GateAt(d)'
  <2>1. d \in Clients BY Kinds
  <2>2. CASE d = k.client /\ Engaged(d)
    <3>1. GateAsked(d, k) BY <1>1, <2>2 DEF GateAsked, GateInv
    <3>2. k.req.op = Asks(gPc[d]) BY <3>1, AskedFacts
    <3>3. gPc[d] # "snapshot" BY DEF GateInv
    <3>4. gPc[d] \in {"restore", "ready-proof", "geometry", "framebuffer", "inject", "run"}
      BY <2>2, <3>3 DEF Engaged, AtWork
    <3>5. QED BY <1>1, <1>3, <3>1, <3>4, GateRestores, GateReads, GateInjected, GateRuns
  <2>3. CASE ~(d = k.client /\ Engaged(d))
    <3>1. reply'[d] = reply[d]
      <4>1. CASE d # k.client BY <2>1, <4>1, Answered1
      <4>2. CASE d = k.client /\ ~Engaged(d)
        <5>1. gPc'[d] = gPc[d] BY DEF gateVars
        <5>2. reply[d].status \notin {"none", "ok"} /\ gPc[d] \in AtWork \cup {"restore"}
          BY <1>3, <4>2, <5>1 DEF Engaged
        <5>3. ~k.awaited BY <4>2, <5>2 DEF RpcInv, CallOK
        <5>4. QED BY <2>1, <5>3, Answered1
      <4>3. QED BY <2>3, <4>1, <4>2
    <3>2. GateRests(d) BY <1>1, <3>1 DEF GateRests, gateVars
    <3>3. Engaged(d) /\ GateAt(d) BY <1>3, <3>2 DEF Engaged, GateRests, GateInv
    <3>4. \A i \in DOMAIN slots : own[i] = d => SlotRests(i) BY <2>3, <3>3, OthersSlots
    <3>5. QED BY <1>3, <3>2, <3>3, <3>4, OwnGateSlot, GateLeft
  <2>4. QED BY <2>2, <2>3
<1>4. QED BY <1>1, <1>2, <1>3, GatesStay

LEMMA StoreGates ==
  ASSUME RpcInv, GateInv, NEW k \in sealing, StoreSnapshot(k), UNCHANGED gateVars
  PROVE  GateInv'
<1>1. /\ UNCHANGED <<corrupt, slots, calls>>
      /\ snapshots' = Over(Entry(SnapshotRef(k.guest), k.guest), snapshots)
      /\ Deliver(k, [status |-> "ok", ref |-> SnapshotRef(k.guest)])
  BY DEF StoreSnapshot
<1>2. SealOK(k) /\ k.client \in Clients /\ k.awaited \in BOOLEAN BY DEF RpcInv, SealOK
<1>3. RefsOK'
  <2>1. PICK g, r : g = k.guest /\ r = SnapshotRef(g) OBVIOUS
  <2>2. snapshots' = Over(Entry(r, g), snapshots) BY <1>1, <2>1
  <2>3. /\ DOMAIN snapshots' = DOMAIN snapshots \cup {r} /\ snapshots'[r] = g
        /\ \A ref \in DOMAIN snapshots : ref # r => snapshots'[ref] = snapshots[ref]
    BY <2>2 DEF Over, Entry
  <2>4. QED BY <2>1, <2>3 DEF GateInv, RefsOK
<1>4. ASSUME NEW d \in Gates, Engaged(d)' PROVE GateAt(d)'
  <2>1. d \in Clients /\ d \notin Suites /\ Stage(d) = gPc[d] BY GateStages
  <2>2. ~(d = k.client /\ k.awaited) BY <1>2, <2>1 DEF SealOK, GateInv
  <2>3. reply'[d] = reply[d] BY <1>1, <1>2, <2>1, <2>2, Answers
  <2>4. GateRests(d) /\ \A i : SlotRests(i) BY <1>1, <2>3 DEF GateRests, gateVars, SlotRests
  <2>5. QED BY <1>4, <2>4, GateLeft DEF GateInv
<1>5. QED BY <1>1, <1>3, <1>4, GatesStay

LEMMA FailsGates ==
  ASSUME RpcInv, GateInv, NEW c \in Clients, RpcFails(c), UNCHANGED gateVars
  PROVE  GateInv'
<1>1. /\ UNCHANGED <<corrupt, slots, snapshots>> /\ calls' = GiveUp(calls, c)
      /\ \A d \in Clients : reply'[d] = IF d = c THEN RpcError ELSE reply[d]
  BY DEF RpcFails, RpcInv, Shapes
<1>2. ASSUME NEW j \in calls'
      PROVE  \E i \in calls : j.client = i.client /\ (i.client # c => j = i)
  <2>1. PICK i \in calls : LeftOver(j, i, c) BY <1>1, GivenUp
  <2>2. QED BY <2>1, LeftCall DEF RpcInv
<1>3. RefsOK' BY <1>1 DEF GateInv, RefsOK
<1>4. ASSUME NEW d \in Gates, Engaged(d)' PROVE GateAt(d)'
  <2>1. d \in Clients BY Kinds
  <2>2. d # c BY <1>1, <1>4, <2>1 DEF Engaged, RpcError
  <2>3. GateRests(d) /\ \A i : SlotRests(i)
    BY <1>1, <1>2, <2>1, <2>2 DEF GateRests, gateVars, SlotRests
  <2>4. QED BY <1>4, <2>3, GateLeft DEF GateInv
<1>5. QED BY <1>1, <1>3, <1>4, GatesStay

LEMMA StillGates ==
  ASSUME GateInv, UNCHANGED allVars
  PROVE  GateInv'
<1>1. UNCHANGED <<corrupt, slots, snapshots, calls, reply>> /\ UNCHANGED gateVars
  BY DEF allVars, workerVars
<1>2. RefsOK' BY <1>1 DEF GateInv, RefsOK
<1>3. ASSUME NEW d \in Gates, Engaged(d)' PROVE GateAt(d)'
  <2>1. GateRests(d) /\ \A i : SlotRests(i) BY <1>1 DEF GateRests, gateVars, SlotRests
  <2>2. QED BY <1>3, <2>1, GateLeft DEF GateInv
<1>4. QED BY <1>1, <1>2, <1>3, GatesStay

\* What a step of another process leaves to gate d.
LEMMA GateAside ==
  ASSUME RpcInv, NEW c \in Clients, Client(c), NEW d \in Gates, d # c, GateStays(d),
         corrupt' = corrupt, Tells(d), Engaged(d) => GateAt(d)
  PROVE  Tells(d)' /\ (Engaged(d)' => GateAt(d)')
<1>1. /\ UNCHANGED <<slots, snapshots>> /\ reply'[d] = reply[d]
      /\ \A k \in calls' : k.client = d => k \in calls
  BY ClientEffect, GateStages
<1>2. GateRests(d) /\ \A i : SlotRests(i) BY <1>1 DEF GateRests, GateStays, SlotRests
<1>3. QED BY <1>2, TellsStays, GateLeft

LEMMA SuiteAsideGates ==
  ASSUME RpcInv, GateInv, NEW c \in Suites, SuiteSteps(c), corrupt' = corrupt
  PROVE  GateInv'
<1>1. Client(c) /\ c \in Clients /\ c \notin Gates /\ UNCHANGED gateVars
  BY SuiteClient, Kinds DEF SuiteSteps
<1>2. RefsOK' BY <1>1, ClientEffect DEF GateInv, RefsOK
<1>3. ASSUME NEW d \in Gates PROVE Engaged(d)' => GateAt(d)'
  <2>1. GateStays(d) BY <1>1 DEF GateStays, gateVars
  <2>2. QED BY <1>1, <2>1, GateAside DEF GateInv
<1>4. QED BY <1>1, <1>2, <1>3, GatesStay

----
(* A gate's own steps. *)

\* A step of gate c writes to its own records only.
LEMMA GateApart ==
  ASSUME RpcInv, WorkInv, GateShapes, NEW own, OwnInv(own), NEW c \in Gates, GateSteps(c)
  PROVE  /\ GateShapes' /\ corrupt' = corrupt /\ gOpts' = gOpts
         /\ \A d \in Gates \ {c} : GateStays(d)
<1>1. /\ corrupt' = corrupt /\ gOpts' = gOpts
      /\ gReadyProof' = gReadyProof \/ \E x : gReadyProof' = [gReadyProof EXCEPT ![c] = x]
      /\ gTransition' = gTransition \/ \E x : gTransition' = [gTransition EXCEPT ![c] = x]
      /\ gCaptured' = gCaptured \/ \E x : gCaptured' = [gCaptured EXCEPT ![c] = x]
      /\ gPadTraceOk' = gPadTraceOk \/ \E x : gPadTraceOk' = [gPadTraceOk EXCEPT ![c] = x]
      /\ gResult' = gResult \/ \E x : gResult' = [gResult EXCEPT ![c] = x]
  <2>1. CASE G!Connect(c) BY <2>1, Zenon DEF G!Connect, G!Call, G!Issue
  <2>2. CASE G!ConnectFails(c) BY <2>2, Zenon DEF G!ConnectFails
  <2>3. CASE G!Restored(c) BY <2>3, Zenon DEF G!Restored, G!Call, G!Issue
  <2>4. CASE G!ReadyRead(c) BY <2>4, Zenon DEF G!ReadyRead, G!Call, G!Issue
  <2>5. CASE G!Inject(c) BY <2>5, Zenon DEF G!Inject, G!Call, G!Issue
  <2>6. CASE G!Injected(c) BY <2>6, Zenon DEF G!Injected, G!Call, G!Issue, G!HangUp
  <2>7. CASE G!Ran(c)
    <3>1. /\ UNCHANGED <<gOpts, gReadyProof, gCaptured, gResult>>
          /\ \E x : gTransition' = [gTransition EXCEPT ![c] = x]
          /\ \E x : gPadTraceOk' = [gPadTraceOk EXCEPT ![c] = x]
      BY <2>7, Zenon DEF G!Ran
    <3>2. corrupt' = corrupt BY <2>7 DEF G!Ran, G!Call, G!Issue, G!Proceed, G!Destroy
    <3>3. QED BY <3>1, <3>2, Zenon
  <2>8. CASE G!RanAtZeroPanics(c) BY <2>8, Zenon DEF G!RanAtZeroPanics, G!HangUp
  <2>9. CASE G!Captured(c)
    <3>1. /\ UNCHANGED <<gOpts, gReadyProof, gTransition, gPadTraceOk, gResult>>
          /\ \E x : gCaptured' = [gCaptured EXCEPT ![c] = x]
      BY <2>9, Zenon DEF G!Captured
    <3>2. corrupt' = corrupt BY <2>9 DEF G!Captured, G!Call, G!Issue, G!Proceed, G!Destroy
    <3>3. QED BY <3>1, <3>2, Zenon
  <2>10. CASE G!RestoreFails(c) BY <2>10, Zenon DEF G!RestoreFails, G!HangUp
  <2>11. CASE G!CallFails(c) BY <2>11, Zenon DEF G!CallFails, G!CleanUp, G!Call, G!Issue
  <2>12. CASE G!CaptureFails(c) BY <2>12, Zenon DEF G!CaptureFails, G!Destroy, G!Call, G!Issue
  <2>13. CASE G!CleanedUp(c) BY <2>13, Zenon DEF G!CleanedUp, G!HangUp
  <2>14. CASE G!Judge(c) BY <2>14, Zenon DEF G!Judge, G!HangUp
  <2>15. CASE G!GeometryMismatch(c) BY <2>15, Zenon DEF G!GeometryMismatch, G!Issue
  <2>16. CASE G!UnexpectedStop(c) BY <2>16, Zenon DEF G!UnexpectedStop, G!Issue
  <2>17. QED BY <2>1, <2>2, <2>3, <2>4, <2>5, <2>6, <2>7, <2>8, <2>9, <2>10, <2>11, <2>12, <2>13,
       <2>14, <2>15, <2>16 DEF GateSteps, G!Step, G!DriverStep
<1>2. /\ GateShapes'
      /\ \A d \in Gates : d # c =>
           /\ gReadyProof'[d] = gReadyProof[d] /\ gTransition'[d] = gTransition[d]
           /\ gCaptured'[d] = gCaptured[d] /\ gPadTraceOk'[d] = gPadTraceOk[d]
           /\ gResult'[d] = gResult[d]
  BY <1>1 DEF GateShapes
<1>3. Alone(c) BY GatePlanned
<1>4. QED BY <1>1, <1>2, <1>3 DEF GateStays, Alone

\* Gate c takes a step.
Acting(c) ==
  /\ RpcInv /\ WorkInv /\ GateShapes /\ c \in Gates /\ Tells(c) /\ (Engaged(c) => GateAt(c))
  /\ corrupt' = corrupt /\ gOpts' = gOpts

LEMMA ActingFacts ==
  ASSUME NEW c, Acting(c)
  PROVE  /\ c \in Gates /\ c \in Clients /\ RpcInv /\ ReportShapes /\ GateCounts(c) /\ GatePlan(c)
         /\ gPc = [d \in Gates |-> gPc[d]] /\ gLease = [d \in Gates |-> gLease[d]]
         /\ gBase = [d \in Gates |-> gBase[d]] /\ gStops = [d \in Gates |-> gStops[d]]
         /\ gFramesRun = [d \in Gates |-> gFramesRun[d]]
         /\ gFailures = [d \in Gates |-> gFailures[d]]
         /\ gReadyProof = [d \in Gates |-> gReadyProof[d]]
         /\ gTransition = [d \in Gates |-> gTransition[d]]
         /\ gCaptured = [d \in Gates |-> gCaptured[d]]
         /\ gPadTraceOk = [d \in Gates |-> gPadTraceOk[d]]
         /\ gResult = [d \in Gates |-> gResult[d]]
         /\ reply = [d \in Clients |-> reply[d]]
         /\ G!ValidOptions(gOpts[c]) /\ gBase[c] \in Nat /\ gFramesRun[c] \in Nat
         /\ gStops[c] \in SUBSET Nat /\ gOpts'[c] = gOpts[c] /\ corrupt' = corrupt
  BY Kinds, GatesAssumption DEF Acting, WorkInv, ReportShapes, GateOK, RpcInv, Shapes, GateShapes

LEMMA GateIssued ==
  ASSUME NEW c, Acting(c), NEW r, Issue(c, r), gPc[c] = "start" \/ (Engaged(c) /\ reply[c].status = "ok")
  PROVE  /\ reply'[c].status = "none" /\ UNCHANGED slots
         /\ \A k \in calls' : k.client = c => k.req = r
<1>0. c \in Gates /\ c \in Clients /\ RpcInv /\ reply = [d \in Clients |-> reply[d]] BY ActingFacts
<1>1. \A k \in calls : k.client # c
  <2>1. CASE gPc[c] = "start" BY <1>0, <2>1, GateStages DEF RpcInv, CallOK, Fresh
  <2>2. CASE Engaged(c) /\ reply[c].status = "ok" BY <1>0, <2>2, OwnGateCall
  <2>3. QED BY <2>1, <2>2
<1>2. \A k \in calls' : k.client = c => k.req = r BY <1>1, NewCall
<1>3. reply'[c] = NoReply /\ UNCHANGED slots BY <1>0 DEF Issue
<1>4. QED BY <1>2, <1>3 DEF NoReply

\* A gate tells on at its next stage what it has told before.
LEMMA TellsOn ==
  ASSUME NEW c, Acting(c), NEW D, NEW E, Told(c, D), Shown(c, E), UNCHANGED <<gTransition, gPadTraceOk, gCaptured>>,
         AtStage(c, D, E)'
  PROVE  Tells(c)'
<1>1. corrupt' = corrupt /\ gOpts'[c] = gOpts[c] BY ActingFacts
<1>2. Told(c, D)' /\ Shown(c, E)' BY <1>1, ToldStays, ShownStays
<1>3. QED BY <1>2 DEF Tells

\* A gate that has failed, or panicked.
LEMMA GateLeaves ==
  ASSUME NEW c, Acting(c), UNCHANGED <<gTransition, gPadTraceOk, gCaptured>>,
         gPc'[c] \in {"done", "panicked", "cleanup", "destroy"},
         gPc'[c] # "panicked" => gFailures'[c] # {}
  PROVE  Tells(c)' /\ (Engaged(c)' => GateAt(c)')
<1>1. PICK D, E : Told(c, D) /\ Shown(c, E) BY DEF Acting, Tells
<1>2. AtStage(c, D, E)' BY DEF AtStage, Early, Fresh
<1>3. Tells(c)' BY <1>1, <1>2, TellsOn
<1>4. ~Engaged(c)' BY DEF Engaged, AtWork
<1>5. QED BY <1>3, <1>4

LEMMA GateGivesUp ==
  ASSUME NEW c, Acting(c),
         \/ G!ConnectFails(c) \/ G!RanAtZeroPanics(c) \/ G!RestoreFails(c) \/ G!CallFails(c)
         \/ G!CaptureFails(c) \/ G!CleanedUp(c) \/ G!GeometryMismatch(c) \/ G!UnexpectedStop(c)
  PROVE  Tells(c)' /\ (Engaged(c)' => GateAt(c)')
<1>0. /\ c \in Gates /\ gPc = [d \in Gates |-> gPc[d]] /\ gFailures = [d \in Gates |-> gFailures[d]]
  BY ActingFacts
<1>1. ASSUME NEW stage, G!Record(c, stage) PROVE gFailures'[c] # {} BY <1>0, <1>1 DEF G!Record
<1>2. ASSUME NEW s, G!Goto(c, s) PROVE gPc'[c] = s BY <1>0, <1>2 DEF G!Goto
<1>3. CASE G!ConnectFails(c) BY <1>1, <1>2, <1>3, GateLeaves DEF G!ConnectFails
<1>4. CASE G!RanAtZeroPanics(c) BY <1>1, <1>2, <1>4, GateLeaves DEF G!RanAtZeroPanics
<1>5. CASE G!RestoreFails(c) BY <1>1, <1>2, <1>5, GateLeaves DEF G!RestoreFails
<1>6. CASE G!CallFails(c) BY <1>1, <1>2, <1>6, GateLeaves DEF G!CallFails, G!CleanUp
<1>7. CASE G!CaptureFails(c) BY <1>1, <1>2, <1>7, GateLeaves DEF G!CaptureFails, G!Destroy
<1>8. CASE G!CleanedUp(c)
  <2>1. gFailures[c] # {} BY <1>8 DEF G!CleanedUp, Acting, Tells, AtStage
  <2>2. QED BY <1>2, <1>8, <2>1, GateLeaves DEF G!CleanedUp
<1>9. CASE G!GeometryMismatch(c) BY <1>1, <1>2, <1>9, GateLeaves DEF G!GeometryMismatch
<1>10. CASE G!UnexpectedStop(c) BY <1>1, <1>2, <1>10, GateLeaves DEF G!UnexpectedStop
<1>11. QED BY <1>3, <1>4, <1>5, <1>6, <1>7, <1>8, <1>9, <1>10

\* Before the run nothing is told yet.
LEMMA EarlyOn ==
  ASSUME NEW c, Acting(c), UNCHANGED <<gTransition, gPadTraceOk, gCaptured, gFramesRun>>,
         gPc[c] \in Early, gPc'[c] \in Early,
         gPc'[c] \in {"geometry", "inject"} => gReadyProof'[c] # << >>
  PROVE  Tells(c)'
<1>1. PICK D, E : Told(c, D) /\ Shown(c, E) /\ AtStage(c, D, E) BY DEF Acting, Tells
<1>2. AtStage(c, D, E)' BY <1>1 DEF AtStage, Early, Fresh
<1>3. QED BY <1>1, <1>2, TellsOn

LEMMA GateConnects ==
  ASSUME NEW c, Acting(c), G!Connect(c)
  PROVE  Tells(c)' /\ (Engaged(c)' => GateAt(c)')
<1>0. /\ gPc = [d \in Gates |-> gPc[d]] /\ gOpts'[c] = gOpts[c] /\ c \in Gates BY ActingFacts
<1>1. PICK ref : ref = gOpts[c].ref OBVIOUS
<1>2. gPc[c] = "start" /\ gPc'[c] = "restore" /\ Issue(c, RestoreRequest(ref))
  BY <1>0, <1>1, GateIssue DEF G!Connect, G!Goto, G!Call, G!RestoreRequest, RestoreRequest
<1>3. Tells(c)' BY <1>2, EarlyOn DEF G!Connect, Early, Fresh
<1>4. reply'[c].status = "none" /\ \A k \in calls' : k.client = c => k.req = RestoreRequest(ref)
  BY <1>2, GateIssued
<1>5. GateRestoring(c)' BY <1>0, <1>1, <1>4, RequestFields DEF GateRestoring
<1>6. QED BY <1>2, <1>3, <1>5 DEF GateAt

LEMMA GateTakesLease ==
  ASSUME NEW c, Acting(c), G!Restored(c)
  PROVE  Tells(c)' /\ (Engaged(c)' => GateAt(c)')
<1>0. /\ gPc = [d \in Gates |-> gPc[d]] /\ gLease = [d \in Gates |-> gLease[d]]
      /\ gOpts'[c] = gOpts[c] /\ corrupt' = corrupt /\ c \in Gates
  BY ActingFacts
<1>1. PICK l : l = reply[c].lease OBVIOUS
<1>2. PICK r : r = G!SlotRequest("read", l) OBVIOUS
<1>3. /\ gPc[c] = "restore" /\ reply[c].status = "ok" /\ gLease'[c] = l
      /\ gPc'[c] = "ready-proof" /\ Issue(c, r)
  BY <1>0, <1>1, <1>2, GateIssue DEF G!Restored, G!Goto, G!Answered, G!Call
<1>4. Engaged(c) /\ GateRestoring(c) BY <1>0, <1>3 DEF Engaged, Acting, GateAt
<1>5. UNCHANGED slots BY <1>3, <1>4, GateIssued
<1>6. G!RestoredGuest(gOpts[c])' = G!RestoredGuest(gOpts[c]) BY <1>0, PlayedStays
<1>7. AtBoundary(c)' BY <1>1, <1>3, <1>4, <1>5, <1>6 DEF AtBoundary, GateRestoring
<1>8. Tells(c)' BY <1>3, EarlyOn DEF G!Restored, Early, Fresh
<1>9. QED BY <1>3, <1>7, <1>8 DEF GateAt

LEMMA GateProvesReady ==
  ASSUME NEW c, Acting(c), G!ReadyRead(c) \/ G!Inject(c)
  PROVE  Tells(c)' /\ (Engaged(c)' => GateAt(c)')
<1>0. /\ gPc = [d \in Gates |-> gPc[d]] /\ gReadyProof = [d \in Gates |-> gReadyProof[d]]
      /\ gOpts'[c] = gOpts[c] /\ corrupt' = corrupt /\ c \in Gates
  BY ActingFacts
<1>1. PICK l : l = gLease[c] OBVIOUS
<1>2. PICK E : E = G!ChangeEvents(gOpts[c].script, gBase[c]) OBVIOUS
<1>3. /\ reply[c].status = "ok" /\ gLease'[c] = l /\ gBase'[c] = gBase[c]
      /\ UNCHANGED <<gTransition, gPadTraceOk, gCaptured, gFramesRun>>
      /\ \/ /\ gPc[c] = "ready-proof" /\ gPc'[c] = "geometry" /\ gReadyProof'[c] # << >>
            /\ \E r : Issue(c, r)
         \/ /\ gPc[c] = "geometry" /\ gPc'[c] = "inject" /\ gReadyProof' = gReadyProof
            /\ Issue(c, InjectRequest(l, E))
  <2>1. CASE G!ReadyRead(c)
    <3>1. PICK x : gReadyProof' = [gReadyProof EXCEPT ![c] = <<x>>] BY <2>1 DEF G!ReadyRead
    <3>2. gReadyProof'[c] # << >> BY <1>0, <3>1
    <3>3. QED BY <1>0, <1>1, <2>1, <3>2, GateIssue DEF G!ReadyRead, G!Goto, G!Answered, G!Call
  <2>2. CASE G!Inject(c)
    <3>1. G!InjectRequest(l, E) = InjectRequest(l, E) BY DEF G!InjectRequest, InjectRequest
    <3>2. Issue(c, InjectRequest(l, E)) BY <1>1, <1>2, <2>2, <3>1, GateIssue DEF G!Inject, G!Call
    <3>3. QED BY <1>0, <1>1, <2>2, <3>2 DEF G!Inject, G!Goto, G!Answered
  <2>3. QED BY <2>1, <2>2
<1>4. Engaged(c) /\ AtBoundary(c) BY <1>0, <1>3 DEF Engaged, Acting, GateAt, AtWork
<1>5. /\ UNCHANGED slots /\ reply'[c].status = "none"
      /\ gPc'[c] = "inject" => \A k \in calls' : k.client = c => k.req = InjectRequest(l, E)
  BY <1>3, <1>4, GateIssued
<1>6. G!RestoredGuest(gOpts[c])' = G!RestoredGuest(gOpts[c]) BY <1>0, PlayedStays
<1>7. AtBoundary(c)' BY <1>1, <1>3, <1>4, <1>5, <1>6 DEF AtBoundary
<1>8. gPc'[c] = "inject" => GateInjecting(c)'
  <2>1. ASSUME gPc'[c] = "inject", NEW k \in calls', k.client = c
        PROVE  k.req.events = G!ChangeEvents(gOpts'[c].script, gBase'[c])
    <3>1. k.req = InjectRequest(l, E) BY <1>5, <2>1
    <3>2. k.req.events = E BY <3>1, RequestFields
    <3>3. QED BY <1>0, <1>2, <1>3, <3>2
  <2>2. QED BY <1>5, <1>7, <2>1 DEF GateInjecting
<1>9. Tells(c)'
  <2>1. gPc[c] = "geometry" => gReadyProof[c] # << >> BY DEF Acting, Tells, AtStage
  <2>2. QED BY <1>3, <2>1, EarlyOn DEF Early, Fresh
<1>10. QED BY <1>3, <1>7, <1>8, <1>9 DEF GateAt

LEMMA GateLaysOut ==
  ASSUME NEW c, Acting(c), G!Injected(c)
  PROVE  Tells(c)' /\ (Engaged(c)' => GateAt(c)')
<1>0. /\ gPc = [d \in Gates |-> gPc[d]] /\ gStops = [d \in Gates |-> gStops[d]] /\ c \in Gates
      /\ gOpts'[c] = gOpts[c] /\ corrupt' = corrupt /\ G!ValidOptions(gOpts[c])
      /\ gBase[c] \in Nat /\ GateCounts(c)
  BY ActingFacts
<1>1. PICK D, E : Told(c, D) /\ Shown(c, E) /\ AtStage(c, D, E) BY DEF Acting, Tells
<1>2. gPc[c] = "inject" /\ reply[c].status = "ok" BY DEF G!Injected, G!Answered
<1>3. Engaged(c) /\ GateInjecting(c) BY <1>0, <1>2 DEF Engaged, Acting, GateAt, AtWork
<1>4. CASE gOpts[c].step = 0
  <2>1. gPc'[c] = "panicked" BY <1>0, <1>4 DEF G!Injected, G!Goto
  <2>2. QED BY <2>1, GateLeaves DEF G!Injected
<1>5. CASE gOpts[c].step # 0
  <2>1. PICK o, l, S, m : o = gOpts[c] /\ l = gLease[c] /\ S = G!Stops(o) /\ m = G!Least(S) OBVIOUS
  <2>2. S \in SUBSET Nat /\ S # {} /\ m \in S BY <1>0, <1>5, <2>1, StopsNat, LeastStop
  <2>3. G!RunRequest(l, m) = RunRequest(l, m) BY DEF G!RunRequest, RunRequest
  <2>4. /\ gPc'[c] = "run" /\ gStops'[c] = S /\ Issue(c, RunRequest(l, m))
        /\ UNCHANGED <<gLease, gFramesRun, gReadyProof, gTransition, gCaptured, gPadTraceOk>>
    BY <1>0, <1>5, <2>1, <2>3, GateIssue DEF G!Injected, G!Goto, G!Call
  <2>5. /\ reply'[c].status = "none" /\ UNCHANGED slots
        /\ \A k \in calls' : k.client = c => k.req = RunRequest(l, m)
    BY <1>2, <1>3, <2>4, GateIssued
  <2>6. PICK g, all : g = slots[l].state /\ all = slots[l].scheduled OBVIOUS
  <2>7. GatePlaying(o, g, all, 0) /\ g.counter = gBase[c]
    BY <1>0, <1>2, <1>3, <2>1, <2>6 DEF GateInjecting, GateCounts
  <2>8. G!RestoredGuest(o).counter \in Nat BY <1>0, <2>7, GateStarts DEF GatePlaying, Like
  <2>9. D = {} /\ E = {} /\ gFramesRun[c] = 0 /\ gReadyProof[c] # << >>
    BY <1>1, <1>2 DEF AtStage, Early
  <2>10. GatePlaying(gOpts[c], g, all, 0)' BY <1>0, <2>1, <2>7, GateSame
  <2>11. \A k \in calls' : k.client = c => k.req.budget = m - 0
    <3>1. ASSUME NEW k \in calls', k.client = c
          PROVE  k.req.budget = m
      <4>1. k.req = RunRequest(l, m) BY <2>5, <3>1
      <4>2. QED BY <4>1, RequestFields
    <3>2. m \in Nat /\ m - 0 = m BY <2>2
    <3>3. QED BY <3>1, <3>2
  <2>12. GateRunning(c)'
    <3>1. gFramesRun'[c] = 0 /\ gLease'[c] = l /\ G!Least(gStops[c])' = m
      BY <2>1, <2>4, <2>9 DEF G!Least
    <3>2. QED BY <2>5, <2>6, <2>10, <2>11, <3>1 DEF GateRunning
  <2>13. AtStage(c, D, E)'
    <3>1. G!RestoredGuest(gOpts[c])' = G!RestoredGuest(o) BY <1>0, <2>1, PlayedStays
    <3>2. gStops'[c] = G!Stops(gOpts'[c]) \ D BY <1>0, <2>1, <2>4, <2>9
    <3>3. E = Shots(gOpts'[c], D) /\ \A s \in gStops'[c] : gFramesRun'[c] <= s
      <4>1. Shots(gOpts'[c], D) = {} BY <2>9 DEF Shots
      <4>2. gFramesRun'[c] = 0 /\ \A s \in S : 0 <= s BY <2>2, <2>4, <2>9
      <4>3. QED BY <2>4, <2>9, <4>1, <4>2
    <3>4. QED BY <1>0, <1>5, <2>1, <2>4, <2>8, <2>9, <3>1, <3>2, <3>3 DEF AtStage, Early, Fresh
  <2>14. Tells(c)' BY <1>1, <2>4, <2>13, TellsOn
  <2>15. QED BY <2>4, <2>12, <2>14 DEF GateAt
<1>6. QED BY <1>4, <1>5

\* A gate at a stop goes on to the next one, or gives its slot back.
LEMMA ProceedOn ==
  ASSUME NEW c, Acting(c), Engaged(c), reply[c].status = "ok", NEW stop, NEW left, NEW seen,
         NEW results, G!Proceed(c, stop, left, seen, results)
  PROVE  /\ reply'[c].status = "none" /\ UNCHANGED slots
         /\ \/ /\ gPc'[c] = "destroy"
               /\ left = {} \/ G!Enough(gOpts[c], stop, seen, results)
            \/ /\ gPc'[c] = "run" /\ left # {}
               /\ \A k \in calls' : k.client = c => k.req.budget = G!Least(left) - stop
<1>0. c \in Gates /\ gPc = [d \in Gates |-> gPc[d]] BY ActingFacts
<1>1. CASE (left = {} \/ G!Enough(gOpts[c], stop, seen, results)) /\ G!Destroy(c)
  <2>1. PICK r : Issue(c, r) BY <1>1, GateIssue DEF G!Destroy, G!Call
  <2>2. QED BY <1>0, <1>1, <2>1, GateIssued DEF G!Destroy, G!Goto
<1>2. CASE left # {} /\ G!Goto(c, "run") /\ G!Call(c, G!RunRequest(gLease[c], G!Least(left) - stop))
  <2>1. PICK l, m : l = gLease[c] /\ m = G!Least(left) - stop OBVIOUS
  <2>2. Issue(c, RunRequest(l, m))
    <3>1. G!RunRequest(l, m) = RunRequest(l, m) BY DEF G!RunRequest, RunRequest
    <3>2. QED BY <1>2, <2>1, <3>1, GateIssue DEF G!Call
  <2>3. /\ reply'[c].status = "none" /\ UNCHANGED slots
        /\ \A k \in calls' : k.client = c => k.req = RunRequest(l, m)
    BY <2>2, GateIssued
  <2>4. ASSUME NEW k \in calls', k.client = c PROVE k.req.budget = G!Least(left) - stop
    <3>1. k.req = RunRequest(l, m) BY <2>3, <2>4
    <3>2. QED BY <2>1, <3>1, RequestFields
  <2>5. QED BY <1>0, <1>2, <2>3, <2>4 DEF G!Goto
<1>3. QED BY <1>1, <1>2 DEF G!Proceed

\* What a gate writes down at its next stop.
LEMMA ToldOn ==
  ASSUME NEW c, corrupt' = corrupt, gOpts'[c] = gOpts[c], NEW D, Told(c, D),
         NEW S \in SUBSET Nat, S = G!Stops(gOpts[c]), gOpts[c].step # 0,
         G!RestoredGuest(gOpts[c]).counter \in Nat,
         NEW stop \in S, stop \notin D, \A s \in S : s \notin D => stop <= s,
         NEW guest, Like(guest, G!Played(gOpts[c], stop)),
         gTransition'[c] = G!FirstSeen(c, guest, stop),
         gPadTraceOk'[c] <=>
           (gPadTraceOk[c] /\ guest.lastPad = G!ExpectedPad(gOpts[c].script, stop)),
         NEW D1, D1 = D \cup {stop}
  PROVE  Told(c, D1)'
<1>1. \A o, n : /\ G!RestoredGuest(o)' = G!RestoredGuest(o)
                /\ G!Played(o, n)' = G!Played(o, n)
  BY PlayedStays
<1>2. PICK o : o = gOpts[c] OBVIOUS
<1>3. o = gOpts'[c] BY <1>2
<1>4. /\ D \subseteq S /\ \A e \in D, s \in S : s <= e => s \in D
      /\ gTransition[c] = << >> => \A s \in D : G!Played(o, s).room # o.target
      /\ gTransition[c] # << >> => \E at \in D :
           /\ gTransition[c] = <<at>> /\ G!Played(o, at).room = o.target
           /\ \A s \in D : s < at => G!Played(o, s).room # o.target
  BY <1>2 DEF Told
<1>5. gPadTraceOk[c] <=> \A s \in D : G!Played(o, s).lastPad = G!ExpectedPad(o.script, s)
  BY <1>2, Zenon DEF Told
<1>6. \A d \in D : d < stop BY <1>4
<1>7. guest.room = G!Played(o, stop).room /\ guest.lastPad = G!Played(o, stop).lastPad
  BY <1>2 DEF Like
<1>14. (\A s : s \in D1 <=> s \in D \/ s = stop) /\ stop \in Nat /\ \A s \in S : s \in Nat OBVIOUS
<1>8. D1 \subseteq S /\ \A e \in D1, s \in S : s <= e => s \in D1
  <2>1. ASSUME NEW s \in S, s <= stop PROVE s \in D1
    <3>1. s \in D \/ stop <= s OBVIOUS
    <3>2. s \in D \/ s = stop BY <1>14, <2>1, <3>1
    <3>3. QED BY <1>14, <3>2
  <2>2. QED BY <1>4, <1>14, <2>1
<1>9. /\ gTransition'[c] = << >> => \A s \in D1 : G!Played(o, s).room # o.target
      /\ gTransition'[c] # << >> => \E at \in D1 :
           /\ gTransition'[c] = <<at>> /\ G!Played(o, at).room = o.target
           /\ \A s \in D1 : s < at => G!Played(o, s).room # o.target
  <2>1. CASE gTransition[c] = << >> /\ guest.room = o.target
    <3>1. gTransition'[c] = <<stop>> BY <1>2, <2>1 DEF G!FirstSeen
    <3>2. \A s \in D1 : s < stop => G!Played(o, s).room # o.target
      <4>1. \A s \in D1 : s < stop => s \in D BY <1>14
      <4>2. QED BY <1>4, <2>1, <4>1
    <3>3. stop \in D1 /\ G!Played(o, stop).room = o.target /\ gTransition'[c] # << >>
      BY <1>7, <1>14, <2>1, <3>1
    <3>4. QED BY <3>1, <3>2, <3>3
  <2>2. CASE gTransition[c] = << >> /\ guest.room # o.target
    <3>1. gTransition'[c] = << >> BY <1>2, <2>2 DEF G!FirstSeen
    <3>2. QED BY <1>4, <1>7, <2>2, <3>1
  <2>3. CASE gTransition[c] # << >>
    <3>1. gTransition'[c] = gTransition[c] BY <2>3 DEF G!FirstSeen
    <3>2. PICK at \in D : /\ gTransition[c] = <<at>> /\ G!Played(o, at).room = o.target
                          /\ \A s \in D : s < at => G!Played(o, s).room # o.target
      BY <1>4, <2>3
    <3>3. at \in D1 /\ \A s \in D1 : s < at => s \in D BY <1>4, <1>6
    <3>4. QED BY <2>3, <3>1, <3>2, <3>3
  <2>4. QED BY <2>1, <2>2, <2>3
<1>10. gPadTraceOk'[c] <=> \A s \in D1 : G!Played(o, s).lastPad = G!ExpectedPad(o.script, s)
  <2>1. guest.lastPad = G!ExpectedPad(o.script, stop) <=>
          G!Played(o, stop).lastPad = G!ExpectedPad(o.script, stop)
    BY <1>7
  <2>2. QED BY <1>2, <1>5, <2>1, Zenon
<1>11. /\ D1 \subseteq G!Stops(o) /\ \A e \in D1, s \in G!Stops(o) : s <= e => s \in D1
       /\ D1 # {} => o.step # 0 /\ G!RestoredGuest(o)'.counter \in Nat
       /\ gTransition'[c] = << >> => \A s \in D1 : G!Played(o, s)'.room # o.target
       /\ gTransition'[c] # << >> => \E at \in D1 :
            /\ gTransition'[c] = <<at>> /\ G!Played(o, at)'.room = o.target
            /\ \A s \in D1 : s < at => G!Played(o, s)'.room # o.target
  BY <1>1, <1>2, <1>8, <1>9
<1>12. gPadTraceOk'[c] <=> \A s \in D1 : G!Played(o, s)'.lastPad = G!ExpectedPad(o.script, s)
  BY <1>1, <1>10, Zenon
<1>13. QED BY <1>3, <1>11, <1>12, Zenon DEF Told

\* Where a gate is that has told of every stop up to `stop`, and shown their framebuffers.
LEMMA ProceedsAt ==
  ASSUME NEW c, Acting(c), Engaged(c), reply[c].status = "ok", NEW stop, NEW left, NEW seen,
         NEW results, G!Proceed(c, stop, left, seen, results), seen = gTransition'[c], results = gCaptured'[c],
         NEW D, stop \in D, \A d \in D : d <= stop, NEW S \in SUBSET Nat, S = G!Stops(gOpts[c]),
         left = S \ D, NEW E, E = Shots(gOpts[c], D), \A s \in left : stop <= s, stop \in Nat,
         gOpts[c].step # 0, G!RestoredGuest(gOpts[c]).counter \in Nat, gReadyProof[c] # << >>,
         gReadyProof'[c] = gReadyProof[c], gStops'[c] = left, gFramesRun'[c] = stop,
         gLease'[c] = gLease[c], Told(c, D)', Shown(c, E)',
         GatePlaying(gOpts[c], slots[gLease[c]].state, slots[gLease[c]].scheduled, stop)
  PROVE  Tells(c)' /\ (Engaged(c)' => GateAt(c)')
<1>1. PICK o : o = gOpts[c] OBVIOUS
<1>2. gOpts'[c] = o /\ corrupt' = corrupt /\ c \in Gates BY <1>1, ActingFacts
<1>3. /\ reply'[c].status = "none" /\ UNCHANGED slots
      /\ \/ gPc'[c] = "destroy" /\ (left = {} \/ G!Enough(o, stop, seen, results))
         \/ /\ gPc'[c] = "run" /\ left # {}
            /\ \A k \in calls' : k.client = c => k.req.budget = G!Least(left) - stop
  BY <1>1, ProceedOn
<1>4. CASE gPc'[c] = "destroy"
  <2>1. D \subseteq G!Stops(o) BY <1>2 DEF Told
  <2>2. D = S \/ G!Enough(o, stop, seen, results) BY <1>1, <1>3, <1>4, <2>1
  <2>3. Through(c, D, E)' BY <1>1, <1>2, <2>2 DEF Through, Shots
  <2>4. AtStage(c, D, E)' BY <1>4, <2>3 DEF AtStage, Early, Fresh
  <2>5. ~Engaged(c)' BY <1>4 DEF Engaged, AtWork
  <2>6. QED BY <1>1, <2>4, <2>5 DEF Tells
<1>5. CASE gPc'[c] = "run"
  <2>1. G!RestoredGuest(gOpts[c])' = G!RestoredGuest(o) BY <1>1, <1>2, PlayedStays
  <2>2. AtStage(c, D, E)' BY <1>1, <1>2, <1>5, <2>1 DEF AtStage, Early, Fresh, Shots
  <2>3. Tells(c)' BY <1>1, <2>2 DEF Tells
  <2>4. PICK g, all : g = slots[gLease[c]].state /\ all = slots[gLease[c]].scheduled OBVIOUS
  <2>9. GatePlaying(gOpts[c], g, all, stop) BY <2>4
  <2>5. GatePlaying(gOpts[c], g, all, stop)' BY <1>1, <1>2, <2>9, GateSame
  <2>6. G!Least(gStops[c])' = G!Least(left) BY DEF G!Least
  <2>7. GateRunning(c)' BY <1>3, <1>5, <2>4, <2>5, <2>6 DEF GateRunning
  <2>8. QED BY <1>5, <2>3, <2>7 DEF GateAt
<1>6. QED BY <1>3, <1>4, <1>5

\* A gate's run has reached its stop.
LEMMA GateRan ==
  ASSUME NEW c, Acting(c), G!Ran(c)
  PROVE  Tells(c)' /\ (Engaged(c)' => GateAt(c)')
<1>0. /\ gPc = [d \in Gates |-> gPc[d]] /\ gStops = [d \in Gates |-> gStops[d]] /\ c \in Gates
      /\ gFramesRun = [d \in Gates |-> gFramesRun[d]]
      /\ gTransition = [d \in Gates |-> gTransition[d]]
      /\ gPadTraceOk = [d \in Gates |-> gPadTraceOk[d]]
      /\ gOpts'[c] = gOpts[c] /\ corrupt' = corrupt /\ G!ValidOptions(gOpts[c])
      /\ gStops[c] \in SUBSET Nat /\ GatePlan(c)
  BY ActingFacts
<1>1. PICK D, E : Told(c, D) /\ Shown(c, E) /\ AtStage(c, D, E) BY DEF Acting, Tells
<1>2. gPc[c] = "run" /\ reply[c].status = "ok" BY DEF G!Ran, G!Answered
<1>3. Engaged(c) /\ GateRunning(c) BY <1>0, <1>2 DEF Engaged, Acting, GateAt, AtWork
<1>4. PICK o, S, stop, left, guest, seen, l :
        /\ o = gOpts[c] /\ S = G!Stops(o) /\ stop = G!Least(gStops[c]) /\ left = gStops[c] \ {stop}
        /\ guest = reply[c].guest /\ seen = G!FirstSeen(c, guest, stop) /\ l = gLease[c]
  OBVIOUS
<1>5. /\ o.step # 0 /\ G!RestoredGuest(o).counter \in Nat /\ gStops[c] = S \ D
      /\ E = Shots(o, D) /\ gReadyProof[c] # << >>
  BY <1>1, <1>2, <1>4 DEF AtStage
<1>6. S \in SUBSET Nat /\ stop \in gStops[c] /\ \A s \in gStops[c] : stop <= s
  <2>1. gStops[c] # {} BY <1>0, <1>2 DEF GatePlan
  <2>2. QED BY <1>0, <1>4, <1>5, <2>1, StopsNat, LeastStop
<1>7. GatePlaying(o, slots[l].state, slots[l].scheduled, stop) /\ guest = slots[l].state
  BY <1>2, <1>3, <1>4 DEF GateRunning
<1>8. Like(guest, G!Played(o, stop)) BY <1>7 DEF GatePlaying
<1>9. PICK D1 : D1 = D \cup {stop} OBVIOUS
<1>10. /\ gStops'[c] = left /\ gFramesRun'[c] = stop /\ gTransition'[c] = seen
       /\ gLease'[c] = l /\ gReadyProof'[c] = gReadyProof[c] /\ gCaptured'[c] = gCaptured[c]
  BY <1>0, <1>4 DEF G!Ran
<1>11. gPadTraceOk'[c] <=> (gPadTraceOk[c] /\ guest.lastPad = G!ExpectedPad(o.script, stop))
  <2>1. gPadTraceOk' = [gPadTraceOk EXCEPT ![c] =
                          @ /\ guest.lastPad = G!ExpectedPad(o.script, stop)]
    BY <1>4, Zenon DEF G!Ran
  <2>2. QED BY <1>0, <2>1, Zenon
<1>12. Told(c, D1)' BY <1>0, <1>1, <1>4, <1>5, <1>6, <1>8, <1>9, <1>10, <1>11, ToldOn
<1>13. Shown(c, E)' BY <1>0, <1>1, <1>10, ShownStays
<1>14. /\ left = S \ D1 /\ stop \in D1 /\ stop \in Nat /\ \A s \in left : stop <= s
       /\ \A d \in D1 : d <= stop
  <2>1. \A d \in D : d \in Nat /\ ~(stop <= d) BY <1>1, <1>4, <1>5, <1>6 DEF Told
  <2>2. \A d \in D : d <= stop BY <1>6, <1>0, <2>1
  <2>3. \A d \in D1 : d \in D \/ d = stop BY <1>9
  <2>4. stop \in Nat /\ stop <= stop BY <1>0, <1>6
  <2>5. QED BY <1>4, <1>5, <1>6, <1>9, <2>2, <2>3, <2>4
<1>15. CASE G!CheckpointAt(o, stop) # {}
  <2>1. gPc'[c] = "framebuffer" /\ \E r : Issue(c, r)
    BY <1>0, <1>4, <1>15, GateIssue DEF G!Ran, G!Goto, G!Call
  <2>2. reply'[c].status = "none" /\ UNCHANGED slots BY <1>2, <1>3, <2>1, GateIssued
  <2>3. G!RestoredGuest(gOpts[c])' = G!RestoredGuest(o) BY <1>0, <1>4, PlayedStays
  <2>4. E = Shots(o, D1) \ {stop} BY <1>5, <1>6, <1>9 DEF Shots
  <2>5. AtStage(c, D1, E)'
    BY <1>0, <1>4, <1>5, <1>10, <1>14, <1>15, <2>1, <2>3, <2>4 DEF AtStage, Early, Fresh, Shots
  <2>6. PICK g, all : g = slots[l].state /\ all = slots[l].scheduled OBVIOUS
  <2>7. GatePlaying(gOpts[c], g, all, stop)' BY <1>0, <1>4, <1>7, <2>6, GateSame
  <2>8. GateShowing(c)' BY <1>10, <2>2, <2>6, <2>7 DEF GateShowing
  <2>9. QED BY <1>12, <1>13, <2>1, <2>5, <2>8 DEF GateAt, Tells
<1>16. CASE G!CheckpointAt(o, stop) = {}
  <2>1. G!Proceed(c, stop, left, seen, gCaptured[c]) BY <1>4, <1>16 DEF G!Ran
  <2>2. E = Shots(o, D1) BY <1>5, <1>9, <1>16 DEF Shots
  <2>3. PICK its : its = gCaptured[c] OBVIOUS
  <2>4. QED
    BY <1>0, <1>2, <1>3, <1>4, <1>5, <1>6, <1>7, <1>10, <1>12, <1>13, <1>14, <2>1, <2>2, <2>3,
       ProceedsAt
<1>17. QED BY <1>15, <1>16

\* A gate's checkpoint has been captured.
LEMMA GateCaptured ==
  ASSUME NEW c, Acting(c), G!Captured(c)
  PROVE  Tells(c)' /\ (Engaged(c)' => GateAt(c)')
<1>0. /\ gPc = [d \in Gates |-> gPc[d]] /\ c \in Gates
      /\ gCaptured = [d \in Gates |-> gCaptured[d]]
      /\ gOpts'[c] = gOpts[c] /\ corrupt' = corrupt /\ G!ValidOptions(gOpts[c])
      /\ gStops[c] \in SUBSET Nat /\ gFramesRun[c] \in Nat /\ GatePlan(c)
  BY ActingFacts
<1>1. PICK D, E : Told(c, D) /\ Shown(c, E) /\ AtStage(c, D, E) BY DEF Acting, Tells
<1>2. gPc[c] = "framebuffer" /\ reply[c].status = "ok" BY DEF G!Captured, G!Answered
<1>3. Engaged(c) /\ GateShowing(c) BY <1>0, <1>2 DEF Engaged, Acting, GateAt, AtWork
<1>4. PICK o, S, stop, left, guest, seen, l, its, checkpoint, r, all :
        /\ o = gOpts[c] /\ S = G!Stops(o) /\ stop = gFramesRun[c] /\ left = gStops[c]
        /\ guest = reply[c].guest /\ seen = gTransition[c] /\ l = gLease[c] /\ its = gCaptured[c]
        /\ checkpoint = o.checkpoints[G!Least(G!CheckpointAt(o, stop))]
        /\ r = [frame |-> stop,
                verdict |-> G!Matched(checkpoint.expected, G!Framebuffer(guest))]
        /\ all = Append(its, r)
  OBVIOUS
<1>5. /\ o.step # 0 /\ G!RestoredGuest(o).counter \in Nat /\ left = S \ D
      /\ stop \in D /\ (\A d \in D : d <= stop) /\ G!CheckpointAt(o, stop) # {}
      /\ E = Shots(o, D) \ {stop} /\ gReadyProof[c] # << >>
  BY <1>1, <1>2, <1>4 DEF AtStage
<1>6. S \in SUBSET Nat /\ stop \in Nat /\ \A s \in left : stop <= s
  BY <1>0, <1>2, <1>4, <1>5, StopsNat DEF GatePlan
<1>7. GatePlaying(o, slots[l].state, slots[l].scheduled, stop) /\ guest = slots[l].state
  BY <1>2, <1>3, <1>4 DEF GateShowing
<1>8. r.verdict = VerdictAt(o, stop)
  <2>1. Like(guest, G!Played(o, stop)) BY <1>7 DEF GatePlaying
  <2>2. G!Framebuffer(guest) = G!Framebuffer(G!Played(o, stop)) BY <2>1 DEF Like, G!Framebuffer
  <2>3. QED BY <1>4, <2>2 DEF VerdictAt
<1>9. /\ gCaptured' = [gCaptured EXCEPT ![c] = all]
      /\ G!Proceed(c, stop, left, seen, all)
      /\ UNCHANGED <<gLease, gStops, gFramesRun, gReadyProof, gTransition, gPadTraceOk>>
  BY <1>4 DEF G!Captured
<1>10. gCaptured'[c] = all BY <1>0, <1>9
<1>11. Told(c, D)' BY <1>0, <1>1, <1>9, ToldStays
<1>12. PICK F : F = Shots(o, D) OBVIOUS
<1>13. \A s : s \in F <=> s \in E \/ s = stop BY <1>5, <1>12 DEF Shots
<1>14. Grown(its, r, all) BY <1>1, <1>4, Appended DEF Shown
<1>15. Shown(c, F)'
  <2>1. \A s : VerdictAt(gOpts[c], s)' = VerdictAt(o, s) BY <1>0, <1>4, GateSame
  <2>2. /\ \A i \in DOMAIN its : \E s \in E : its[i].verdict = VerdictAt(o, s)
        /\ \A s \in E : \E i \in DOMAIN its : its[i].verdict = VerdictAt(o, s)
    BY <1>1, <1>4 DEF Shown
  <2>3. \A i \in DOMAIN all : \E s \in F : all[i].verdict = VerdictAt(o, s)
    BY <1>8, <1>13, <1>14, <2>2 DEF Grown
  <2>7. /\ \A i \in DOMAIN its : i \in DOMAIN all /\ all[i] = its[i]
        /\ \E i \in DOMAIN all : all[i] = r
    <3>1. PICK T, n : T = Range(its) \cup {r} /\ n = Len(its) OBVIOUS
    <3>2. its \in Seq(T) /\ r \in T BY <1>1, <1>4, <3>1 DEF Shown
    <3>3. /\ n \in Nat /\ DOMAIN its = 1..n /\ DOMAIN all = 1..(n + 1)
          /\ all[n + 1] = r /\ \A i \in 1..n : all[i] = its[i]
      BY <1>4, <3>1, <3>2
    <3>4. QED BY <3>3
  <2>4. \A s \in F : \E i \in DOMAIN all : all[i].verdict = VerdictAt(o, s)
    BY <1>8, <1>13, <2>2, <2>7
  <2>5. all \in Seq(Range(all)) BY <1>14 DEF Grown
  <2>6. QED BY <1>10, <2>1, <2>3, <2>4, <2>5 DEF Shown
<1>16. QED BY <1>0, <1>2, <1>3, <1>4, <1>5, <1>6, <1>7, <1>9, <1>10, <1>11, <1>12, <1>15, ProceedsAt

----
(* The verdict of a gate. *)

\* A gate stops nowhere beyond its budget.
LEMMA StopsWithin ==
  ASSUME NEW o, G!ValidOptions(o), o.step # 0, NEW s \in G!Stops(o)
  PROVE  s \in Nat /\ s <= o.budget
<1>1. PICK n, b : n = o.step /\ b = o.budget OBVIOUS
<1>2. n \in Nat \ {0} /\ b \in Nat /\ s \in Nat BY <1>1, StopsNat DEF G!ValidOptions
<1>3. ASSUME NEW k \in 1..(b \div n), s = k * n PROVE s <= b
  <2>1. PICK q, r : q = b \div n /\ r = b % n OBVIOUS
  <2>2. b = n * q + r /\ r \in Nat /\ q \in Int /\ k \in Nat /\ k <= q BY <1>2, <2>1
  <2>3. PICK d : d = q - k OBVIOUS
  <2>4. d \in Nat /\ q = k + d BY <2>2, <2>3
  <2>5. n * q = n * k + n * d /\ n * d \in Nat /\ n * k = s /\ n * k \in Nat
    BY <1>2, <1>3, <2>2, <2>4
  <2>6. QED BY <2>2, <2>5
<1>4. \/ \E k \in 1..(b \div n) : s = k * n
      \/ s = b
      \/ \E i \in DOMAIN o.checkpoints : s = o.checkpoints[i].frame /\ s <= b
  BY <1>1 DEF G!Stops
<1>5. QED BY <1>1, <1>2, <1>3, <1>4

\* The last checkpoint listed.
LastListed(o) ==
  LET frames == {o.checkpoints[i].frame : i \in DOMAIN o.checkpoints} \cup {0}
  IN  CHOOSE f \in frames : \A g \in frames : g <= f

LEMMA LastCheckpoint ==
  ASSUME NEW o, G!ValidOptions(o)
  PROVE  /\ LastListed(o) \in Nat
         /\ \A i \in DOMAIN o.checkpoints : o.checkpoints[i].frame <= LastListed(o)
<1>0. PICK frames : frames = {o.checkpoints[i].frame : i \in DOMAIN o.checkpoints} \cup {0} OBVIOUS
<1>1. PICK cps, n : cps = o.checkpoints /\ n = Len(cps) OBVIOUS
<1>2. n \in Nat /\ DOMAIN cps = 1..n /\ \A i \in 1..n : cps[i].frame \in Nat
  <2>1. n \in Nat /\ DOMAIN cps = 1..n BY <1>1 DEF G!ValidOptions
  <2>2. \A i \in DOMAIN o.checkpoints : o.checkpoints[i].frame \in Nat BY CheckpointFrames
  <2>3. QED BY <1>1, <2>1, <2>2
<1> DEFINE T == {j \in Nat : j <= n =>
                   \E f \in frames : f \in Nat /\ \A i \in 1..j : cps[i].frame <= f}
<1>3. 0 \in frames /\ \A i \in 1..n : cps[i].frame \in frames BY <1>0, <1>1, <1>2
<1>4. 0 \in T BY <1>3
<1>5. ASSUME NEW j \in Nat, j \in T PROVE j + 1 \in T
  <2>1. ASSUME j + 1 <= n
        PROVE  \E f \in frames : f \in Nat /\ \A i \in 1..(j + 1) : cps[i].frame <= f
    <3>1. PICK f \in frames : f \in Nat /\ \A i \in 1..j : cps[i].frame <= f BY <1>2, <1>5, <2>1
    <3>2. PICK h : h = cps[j + 1].frame OBVIOUS
    <3>3. h \in frames /\ h \in Nat BY <1>2, <1>3, <2>1, <3>2
    <3>4. \A i \in 1..(j + 1) : i \in 1..j \/ i = j + 1 OBVIOUS
    <3>5. \A i \in 1..j : cps[i].frame \in Nat BY <1>2, <2>1
    <3>6. CASE h <= f BY <3>1, <3>2, <3>4, <3>6
    <3>7. CASE f <= h BY <3>1, <3>2, <3>3, <3>4, <3>5, <3>7
    <3>8. QED BY <3>1, <3>3, <3>6, <3>7
  <2>2. QED BY <2>1
<1>6. n \in T
  <2> HIDE DEF T
  <2>1. QED BY <1>2, <1>4, <1>5, Up
<1>7. PICK f \in frames : f \in Nat /\ \A i \in 1..n : cps[i].frame <= f BY <1>2, <1>6
<1>8. frames \in SUBSET Nat /\ \A g \in frames : g <= f BY <1>0, <1>1, <1>2, <1>7
<1>9. LastListed(o) = f BY <1>0, <1>7, <1>8, GreatestIs DEF LastListed
<1>10. QED BY <1>1, <1>2, <1>7, <1>9

\* The checkpoints the gate has compared are those it captured.
LEMMA ComparedAre ==
  ASSUME NEW o, G!ValidOptions(o), o.step # 0
  PROVE  /\ \A s \in G!Stops(o) : G!CheckpointAt(o, s) # {} =>
              LET i == G!Least(G!CheckpointAt(o, s)) IN
              i \in G!Compared(o) /\ o.checkpoints[i].frame = s
         /\ \A i \in G!Compared(o) :
              /\ i \in DOMAIN o.checkpoints /\ o.checkpoints[i].frame <= o.budget
              /\ o.checkpoints[i].frame \in G!Stops(o)
              /\ G!CheckpointAt(o, o.checkpoints[i].frame) # {}
              /\ G!Least(G!CheckpointAt(o, o.checkpoints[i].frame)) = i
<1>1. PICK cps, n : cps = o.checkpoints /\ n = Len(cps) OBVIOUS
<1>2. n \in Nat /\ DOMAIN cps = 1..n BY <1>1 DEF G!ValidOptions
<1>3. \A s, i : i \in G!CheckpointAt(o, s) <=> i \in 1..n /\ cps[i].frame = s
  BY <1>1, <1>2 DEF G!CheckpointAt
<1>4. \A i : i \in G!Compared(o) <=>
        /\ i \in 1..n /\ cps[i].frame <= o.budget
        /\ \A j \in 1..n : cps[j].frame = cps[i].frame /\ cps[j].frame <= o.budget => i <= j
  BY <1>1, <1>2 DEF G!Compared, G!InBudget
<1>5. ASSUME NEW s \in G!Stops(o), G!CheckpointAt(o, s) # {}
      PROVE  /\ G!Least(G!CheckpointAt(o, s)) \in G!Compared(o)
             /\ o.checkpoints[G!Least(G!CheckpointAt(o, s))].frame = s
  <2>1. PICK T, i : T = G!CheckpointAt(o, s) /\ i = G!Least(T) OBVIOUS
  <2>2. T \in SUBSET Nat /\ T # {} BY <1>2, <1>3, <1>5, <2>1
  <2>3. i \in T /\ \A j \in T : i <= j BY <2>1, <2>2, LeastStop
  <2>4. i \in 1..n /\ cps[i].frame = s /\ \A j \in 1..n : cps[j].frame = s => i <= j
    BY <1>3, <2>1, <2>3
  <2>5. s <= o.budget BY StopsWithin
  <2>6. QED BY <1>1, <1>4, <2>1, <2>4, <2>5
<1>6. ASSUME NEW i \in G!Compared(o)
      PROVE  /\ i \in DOMAIN o.checkpoints /\ o.checkpoints[i].frame <= o.budget
             /\ o.checkpoints[i].frame \in G!Stops(o)
             /\ G!CheckpointAt(o, o.checkpoints[i].frame) # {}
             /\ G!Least(G!CheckpointAt(o, o.checkpoints[i].frame)) = i
  <2>1. PICK s, T, m : s = cps[i].frame /\ T = G!CheckpointAt(o, s) /\ m = G!Least(T) OBVIOUS
  <2>2. i \in 1..n /\ s <= o.budget /\ i \in T /\ \A j \in T : i <= j BY <1>3, <1>4, <1>6, <2>1
  <2>3. T \in SUBSET Nat /\ T # {} BY <1>2, <1>3, <2>1, <2>2
  <2>4. m \in T /\ m <= i BY <2>1, <2>2, <2>3, LeastStop
  <2>5. m \in Nat /\ i \in Nat /\ i <= m BY <2>2, <2>3, <2>4
  <2>6. m = i BY <2>4, <2>5
  <2>7. o.checkpoints[i].frame \in G!Stops(o) BY <1>1, <1>2, <2>1, <2>2 DEF G!Stops
  <2>8. QED BY <1>1, <1>2, <2>1, <2>2, <2>6, <2>7
<1>7. QED BY <1>5, <1>6

\* What a gate whose calls have all succeeded passes for.
AllGood(c) ==
  /\ gReadyProof[c] # << >> /\ gTransition[c] # << >>
  /\ \A i \in DOMAIN gCaptured[c] : gCaptured[c][i].verdict # "mismatch"
  /\ gPadTraceOk[c]

\* An expectation is met, or there is none.
LEMMA MatchedIs ==
  \A expected, observed :
    G!Matched(expected, observed) # "mismatch" <=> expected \in {<< >>, observed}
  BY DEF G!Matched

LEMMA VerdictIs ==
  ASSUME NEW o, NEW i, NEW s, i = G!Least(G!CheckpointAt(o, s))
  PROVE  VerdictAt(o, s) # "mismatch" <=>
           o.checkpoints[i].expected \in {<< >>, G!Framebuffer(G!Played(o, s))}
<1>1. PICK expected, observed : /\ expected = o.checkpoints[i].expected
                                /\ observed = G!Framebuffer(G!Played(o, s))
  OBVIOUS
<1>2. VerdictAt(o, s) = G!Matched(expected, observed) BY <1>1 DEF VerdictAt
<1>3. QED BY <1>1, <1>2, MatchedIs

\* The run has come to every checkpoint within the budget.
LEMMA ThroughCheckpoints ==
  ASSUME NEW c, NEW D, NEW E, Told(c, D), Through(c, D, E), G!ValidOptions(gOpts[c]),
         gFramesRun[c] \in Nat, NEW i \in G!Compared(gOpts[c])
  PROVE  gOpts[c].checkpoints[i].frame \in E
<1>1. PICK o, f, run : o = gOpts[c] /\ f = o.checkpoints[i].frame /\ run = gFramesRun[c] OBVIOUS
<1>2. run \in D /\ o.step # 0 /\ E = Shots(o, D) /\ D \subseteq G!Stops(o) BY <1>1 DEF Through, Told
<1>3. /\ i \in DOMAIN o.checkpoints /\ f <= o.budget /\ f \in G!Stops(o)
      /\ G!CheckpointAt(o, f) # {}
  BY <1>1, <1>2, ComparedAre
<1>4. f \in D
  <2>1. CASE D = G!Stops(o) BY <1>3, <2>1
  <2>2. CASE G!Enough(o, run, gTransition[c], gCaptured[c])
    <3>1. PICK last : last = LastListed(o) OBVIOUS
    <3>2. last \in Nat /\ \A j \in DOMAIN o.checkpoints : o.checkpoints[j].frame <= last
      BY <1>1, <3>1, LastCheckpoint
    <3>3. f <= last BY <1>1, <1>3, <3>2
    <3>4. run >= (IF last <= o.budget THEN last ELSE o.budget)
      BY <2>2, <3>1 DEF G!Enough, LastListed
    <3>5. f \in Nat /\ run \in Nat /\ o.budget \in Nat
      BY <1>1, <1>2, <1>3, StopsNat DEF G!ValidOptions
    <3>6. f <= run BY <1>3, <3>2, <3>3, <3>4, <3>5
    <3>7. QED BY <1>1, <1>2, <1>3, <3>6 DEF Told
  <2>3. QED BY <1>1, <2>1, <2>2 DEF Through
<1>5. QED BY <1>1, <1>2, <1>3, <1>4 DEF Shots

\* A gate that has gone through its run reports what its script plays.
LEMMA RightIsPass ==
  ASSUME NEW c, NEW D, NEW E, Told(c, D), Shown(c, E), Through(c, D, E),
         G!ValidOptions(gOpts[c]), gFramesRun[c] \in Nat
  PROVE  AllGood(c) <=> PlayedRight(c)
<1>1. PICK o, run : o = gOpts[c] /\ run = gFramesRun[c] OBVIOUS
<1>2. /\ D \subseteq G!Stops(o) /\ \A d \in D, s \in G!Stops(o) : s <= d => s \in D
      /\ D # {} => o.step # 0
      /\ gTransition[c] = << >> => \A s \in D : G!Played(o, s).room # o.target
      /\ gTransition[c] # << >> => \E at \in D : G!Played(o, at).room = o.target
  BY <1>1 DEF Told
<1>3. gPadTraceOk[c] <=> \A s \in D : G!Played(o, s).lastPad = G!ExpectedPad(o.script, s)
  BY <1>1, Zenon DEF Told
<1>4. /\ run \in D /\ (\A d \in D : d <= run) /\ E = Shots(o, D) /\ gReadyProof[c] # << >>
      /\ D = G!Stops(o) \/ G!Enough(o, run, gTransition[c], gCaptured[c])
  BY <1>1 DEF Through
<1>5. o.step # 0 BY <1>2, <1>4
<1>6. gTransition[c] # << >> <=> \E s \in G!Stops(o) : G!Played(o, s).room = o.target
  <2>1. CASE gTransition[c] # << >> BY <1>2, <2>1
  <2>2. CASE gTransition[c] = << >>
    <3>1. D = G!Stops(o) BY <1>4, <2>2 DEF G!Enough
    <3>2. QED BY <1>2, <2>2, <3>1
  <2>3. QED BY <2>1, <2>2
<1>7. gPadTraceOk[c] <=> \A s \in {t \in G!Stops(o) : t <= run} :
                           G!Played(o, s).lastPad = G!ExpectedPad(o.script, s)
  <2>1. {t \in G!Stops(o) : t <= run} = D BY <1>2, <1>4
  <2>2. QED BY <1>3, <2>1, Zenon
<1>8. (\A i \in DOMAIN gCaptured[c] : gCaptured[c][i].verdict # "mismatch") <=>
        \A i \in G!Compared(o) : o.checkpoints[i].expected \in
          {<< >>, G!Framebuffer(G!Played(o, o.checkpoints[i].frame))}
  <2>1. (\A i \in DOMAIN gCaptured[c] : gCaptured[c][i].verdict # "mismatch") <=>
          \A s \in E : VerdictAt(o, s) # "mismatch"
    BY <1>1 DEF Shown
  <2>2. ASSUME \A s \in E : VerdictAt(o, s) # "mismatch", NEW i \in G!Compared(o)
        PROVE  o.checkpoints[i].expected \in
                 {<< >>, G!Framebuffer(G!Played(o, o.checkpoints[i].frame))}
    <3>1. PICK s : s = o.checkpoints[i].frame OBVIOUS
    <3>2. s \in E /\ i = G!Least(G!CheckpointAt(o, s))
      BY <1>1, <1>5, <2>2, <3>1, ComparedAre, ThroughCheckpoints
    <3>3. QED BY <2>2, <3>1, <3>2, VerdictIs
  <2>3. ASSUME \A i \in G!Compared(o) : o.checkpoints[i].expected \in
                 {<< >>, G!Framebuffer(G!Played(o, o.checkpoints[i].frame))},
               NEW s \in E
        PROVE  VerdictAt(o, s) # "mismatch"
    <3>1. PICK i : i = G!Least(G!CheckpointAt(o, s)) OBVIOUS
    <3>2. s \in G!Stops(o) /\ G!CheckpointAt(o, s) # {} BY <1>2, <1>4, <2>3 DEF Shots
    <3>3. i \in G!Compared(o) /\ o.checkpoints[i].frame = s BY <1>1, <1>5, <3>1, <3>2, ComparedAre
    <3>4. QED BY <2>3, <3>1, <3>3, VerdictIs
  <2>4. QED BY <2>1, <2>2, <2>3
<1>9. /\ PlayedRight(c) <=>
           /\ \E s \in G!Stops(o) : G!Played(o, s).room = o.target
           /\ \A s \in {t \in G!Stops(o) : t <= run} :
                G!Played(o, s).lastPad = G!ExpectedPad(o.script, s)
           /\ \A i \in G!Compared(o) : o.checkpoints[i].expected \in
                {<< >>, G!Framebuffer(G!Played(o, o.checkpoints[i].frame))}
  BY <1>1, Zenon DEF PlayedRight
<1>10. QED BY <1>4, <1>6, <1>7, <1>8, <1>9, Zenon DEF AllGood

LEMMA GateJudges ==
  ASSUME NEW c, Acting(c), G!Judge(c)
  PROVE  Tells(c)' /\ (Engaged(c)' => GateAt(c)')
<1>0. /\ gPc = [d \in Gates |-> gPc[d]] /\ c \in Gates
      /\ gFailures = [d \in Gates |-> gFailures[d]] /\ gResult = [d \in Gates |-> gResult[d]]
      /\ gOpts'[c] = gOpts[c] /\ corrupt' = corrupt /\ G!ValidOptions(gOpts[c])
      /\ gFramesRun[c] \in Nat
  BY ActingFacts
<1>1. PICK D, E : Told(c, D) /\ Shown(c, E) /\ AtStage(c, D, E) BY DEF Acting, Tells
<1>2. PICK failed : failed = gFailures[c] \cup (IF reply[c].status = "ok" THEN {} ELSE {"destroy"})
  OBVIOUS
<1>3. /\ gPc[c] = "destroy" /\ gPc'[c] = "done" /\ gFailures'[c] = failed
      /\ gResult'[c] = (IF G!Passes(c, failed) THEN "pass" ELSE "fail")
      /\ UNCHANGED <<gTransition, gPadTraceOk, gCaptured, gFramesRun>>
  BY <1>0, <1>2 DEF G!Judge, G!Goto
<1>4. ASSUME gFailures'[c] = {} PROVE gResult'[c] = "pass" <=> PlayedRight(c)'
  <2>1. failed = {} /\ gFailures[c] = {} BY <1>2, <1>3, <1>4
  <2>2. Through(c, D, E) BY <1>1, <1>3, <2>1 DEF AtStage
  <2>3. AllGood(c) <=> PlayedRight(c) BY <1>0, <1>1, <2>2, RightIsPass
  <2>4. G!Passes(c, failed) <=> AllGood(c) BY <2>1, Zenon DEF G!Passes, AllGood
  <2>5. PlayedRight(c)' <=> PlayedRight(c) BY <1>0, <1>3, PlayedRightStays
  <2>6. gResult'[c] = "pass" <=> G!Passes(c, failed) BY <1>3, Zenon
  <2>7. QED BY <2>3, <2>4, <2>5, <2>6, Zenon
<1>5. AtStage(c, D, E)' BY <1>3, <1>4 DEF AtStage, Early, Fresh
<1>6. Tells(c)' BY <1>1, <1>3, <1>5, TellsOn
<1>7. ~Engaged(c)' BY <1>3 DEF Engaged, AtWork
<1>8. QED BY <1>6, <1>7

----
(* Every step. *)

LEMMA GateActs ==
  ASSUME NEW c, Acting(c), G!Step(c)
  PROVE  Tells(c)' /\ (Engaged(c)' => GateAt(c)')
<1>1. CASE G!Connect(c) BY <1>1, GateConnects
<1>2. CASE G!Restored(c) BY <1>2, GateTakesLease
<1>3. CASE G!ReadyRead(c) \/ G!Inject(c) BY <1>3, GateProvesReady
<1>4. CASE G!Injected(c) BY <1>4, GateLaysOut
<1>5. CASE G!Ran(c) BY <1>5, GateRan
<1>6. CASE G!Captured(c) BY <1>6, GateCaptured
<1>7. CASE G!Judge(c) BY <1>7, GateJudges
<1>8. CASE \/ G!ConnectFails(c) \/ G!RanAtZeroPanics(c) \/ G!RestoreFails(c) \/ G!CallFails(c)
           \/ G!CaptureFails(c) \/ G!CleanedUp(c) \/ G!GeometryMismatch(c) \/ G!UnexpectedStop(c)
  BY <1>8, GateGivesUp
<1>9. QED BY <1>1, <1>2, <1>3, <1>4, <1>5, <1>6, <1>7, <1>8 DEF G!Step, G!DriverStep

LEMMA GateStepKeeps ==
  ASSUME RpcInv, WorkInv, GateInv, NEW own, OwnInv(own), NEW c \in Gates, GateSteps(c)
  PROVE  GateInv'
<1>1. /\ GateShapes' /\ corrupt' = corrupt /\ gOpts' = gOpts
      /\ \A d \in Gates \ {c} : GateStays(d)
  BY GateApart DEF GateInv
<1>2. Client(c) /\ c \in Clients BY GateClient, Kinds
<1>3. RefsOK' BY <1>2, ClientEffect DEF GateInv, RefsOK
<1>4. Tells(c)' /\ (Engaged(c)' => GateAt(c)') BY <1>1, GateActs DEF GateInv, Acting, GateSteps
<1>5. ASSUME NEW d \in Gates, d # c PROVE Tells(d)' /\ (Engaged(d)' => GateAt(d)')
  BY <1>1, <1>2, <1>5, GateAside DEF GateInv
<1>6. \A d \in Gates : gPc'[d] # "snapshot" BY <1>1, NoGateSnapshots DEF RpcInv, GateInv, GateStays
<1>7. QED BY <1>1, <1>3, <1>4, <1>5, <1>6 DEF GateInv

LEMMA SuiteSameFixture ==
  ASSUME RpcInv, NEW c \in Suites, SuiteSteps(c)
  PROVE  corrupt' = corrupt
  BY SuiteClient DEF Client, Goes, Issue, Stops

LEMMA GateInvKept ==
  ASSUME VmInv, GateInv, [Next]_allVars
  PROVE  GateInv'
<1>1. RpcInv /\ WorkInv BY DEF VmInv
<1>2. PICK own : OwnInv(own) BY DEF VmInv
<1>3. ASSUME NEW c \in Suites, SuiteSteps(c) PROVE GateInv'
  BY <1>1, <1>3, SuiteSameFixture, SuiteAsideGates
<1>4. ASSUME NEW c \in Gates, GateSteps(c) PROVE GateInv' BY <1>1, <1>2, <1>4, GateStepKeeps
<1>5. ASSUME WorkerNext, UNCHANGED gateVars PROVE GateInv'
  <2>1. ASSUME NEW k \in calls, Handle(k) PROVE GateInv' BY <1>1, <1>2, <1>5, <2>1, HandleGates
  <2>2. ASSUME NEW k \in sealing, StoreSnapshot(k) PROVE GateInv' BY <1>1, <1>5, <2>2, StoreGates
  <2>3. ASSUME NEW c \in Clients, RpcFails(c) PROVE GateInv' BY <1>1, <1>5, <2>3, FailsGates
  <2>4. QED BY <1>5, <2>1, <2>2, <2>3 DEF WorkerNext, Serve, ServeGivenUp, Store
<1>6. CASE UNCHANGED allVars BY <1>6, StillGates
<1>7. QED BY <1>3, <1>4, <1>5, <1>6 DEF Next, WorkerSteps, Ended

LEMMA GateInvStarts == BothInit => GateInv
<1> SUFFICES ASSUME BothInit PROVE GateInv OBVIOUS
<1>1. /\ WorkerInit /\ gPc \in [Gates -> {"start", "off"}]
      /\ gFramesRun = [c \in Gates |-> 0] /\ gReadyProof = [c \in Gates |-> << >>]
      /\ gTransition = [c \in Gates |-> << >>] /\ gCaptured = [c \in Gates |-> << >>]
      /\ gPadTraceOk = [c \in Gates |-> TRUE] /\ gResult = [c \in Gates |-> "fail"]
  BY DEF BothInit, Init, G!Init
<1>2. GateShapes BY <1>1 DEF GateShapes
<1>3. RefsOK
  <2>1. ASSUME NEW ref \in DOMAIN snapshots PROVE SnapshotRef(snapshots[ref]) = ref
    <3>1. PICK g \in SavedGuests : SnapshotRef(g) = ref BY <1>1 DEF WorkerInit
    <3>2. snapshots[ref] = CHOOSE guest \in SavedGuests : SnapshotRef(guest) = ref
      BY <1>1 DEF WorkerInit
    <3>3. QED BY <3>1, <3>2
  <2>2. QED BY <2>1 DEF RefsOK
<1>4. ASSUME NEW c \in Gates PROVE gPc[c] # "snapshot" /\ Tells(c) /\ ~Engaged(c)
  <2>1. gPc[c] \in Fresh /\ ~Engaged(c) /\ gFramesRun[c] = 0 BY <1>1 DEF Fresh, Engaged, AtWork
  <2>2. Told(c, {})
    <3>1. gTransition[c] = << >> /\ gPadTraceOk[c] BY <1>1, Zenon
    <3>2. QED BY <3>1, Zenon DEF Told
  <2>3. Shown(c, {})
    <3>1. gCaptured[c] = << >> /\ << >> \in Seq(Range(<< >>)) /\ DOMAIN << >> = {} BY <1>1
    <3>2. QED BY <3>1, Zenon DEF Shown
  <2>4. AtStage(c, {}, {}) BY <2>1 DEF AtStage, Early, Fresh
  <2>5. QED BY <2>1, <2>2, <2>3, <2>4 DEF Tells, Fresh
<1>5. QED BY <1>2, <1>3, <1>4 DEF GateInv

----
(* What the reports of the gates say. *)

\* A multiple of the step within the budget is a stop.
LEMMA CadenceStops ==
  ASSUME NEW o, G!ValidOptions(o), o.step # 0, NEW q \in Nat, q >= 1, q * o.step <= o.budget
  PROVE  q * o.step \in G!Stops(o)
<1>1. PICK n, b : n = o.step /\ b = o.budget OBVIOUS
<1>2. n \in Nat \ {0} /\ b \in Nat BY <1>1 DEF G!ValidOptions
<1>3. PICK Q, r : Q = b \div n /\ r = b % n OBVIOUS
<1>4. b = n * Q + r /\ r \in Nat /\ r < n /\ Q \in Int BY <1>2, <1>3
<1>5. q <= Q
  <2>1. ASSUME Q < q PROVE FALSE
    <3>1. PICK d : d = q - Q - 1 OBVIOUS
    <3>2. d \in Nat /\ q = Q + 1 + d BY <1>4, <2>1, <3>1
    <3>3. q * n = n * Q + n + n * d /\ n * d >= 0 /\ n * Q \in Int BY <1>2, <1>4, <3>2
    <3>4. q * n <= b BY <1>1
    <3>5. PICK x, y, z : x = n * Q /\ y = n * d /\ z = q * n OBVIOUS
    <3>6. z = x + n + y /\ y >= 0 /\ y \in Int /\ x \in Int /\ z <= x + r
      BY <1>2, <1>4, <3>2, <3>3, <3>4, <3>5
    <3>7. QED BY <1>2, <1>4, <3>6
  <2>2. QED BY <1>4, <2>1
<1>6. q \in 1..(b \div n) BY <1>3, <1>4, <1>5
<1>7. QED BY <1>1, <1>6 DEF G!Stops

\* The stop before a frame, and how far it is from it.
LEMMA StopBefore ==
  ASSUME NEW n \in Nat, n # 0, NEW at \in Nat, at > n
  PROVE  \E q \in Nat, k \in Nat : q >= 1 /\ q * n < at /\ q * n = at - n + k
<1>1. PICK q, r : q = (at - 1) \div n /\ r = (at - 1) % n OBVIOUS
<1>2. at - 1 = n * q + r /\ r \in Nat /\ r < n /\ q \in Int BY <1>1
<1>3. q >= 1
  <2>1. ASSUME q <= 0 PROVE FALSE
    <3>1. PICK d : d = 0 - q OBVIOUS
    <3>2. d \in Nat /\ n * q = 0 - n * d /\ n * d >= 0 BY <1>2, <2>1, <3>1
    <3>3. QED BY <1>2, <3>2
  <2>2. QED BY <1>2, <2>1
<1>4. PICK k : k = n - 1 - r OBVIOUS
<1>5. k \in Nat /\ q * n = at - n + k /\ q * n < at /\ q \in Nat
  <2>1. PICK p : p = q * n OBVIOUS
  <2>2. p = n * q /\ p \in Int BY <1>2, <2>1
  <2>3. QED BY <1>2, <1>3, <1>4, <2>1, <2>2
<1>6. QED BY <1>3, <1>5

LEMMA CadenceTold ==
  ASSUME NEW c, NEW D, Told(c, D), G!ValidOptions(gOpts[c]), gTransition[c] # << >>
  PROVE  LET at == gTransition[c][1]
             o  == gOpts[c]
         IN  /\ G!Played(o, at).room = o.target
             /\ at > o.step => G!Played(o, at - o.step).room # o.target
<1>1. PICK o : o = gOpts[c] OBVIOUS
<1>2. PICK at \in D : /\ gTransition[c] = <<at>> /\ G!Played(o, at).room = o.target
                      /\ \A s \in D : s < at => G!Played(o, s).room # o.target
  BY <1>1 DEF Told
<1>3. /\ o.step # 0 /\ at \in G!Stops(o) /\ \A s \in G!Stops(o) : s <= at => s \in D
      /\ G!ValidOptions(o)
  BY <1>1 DEF Told
<1>4. at \in Nat /\ at <= o.budget /\ o.step \in Nat /\ o.budget \in Nat
  BY <1>3, StopsWithin DEF G!ValidOptions
<1>5. ASSUME at > o.step, G!Played(o, at - o.step).room = o.target
      PROVE  FALSE
  <2>1. PICK q \in Nat, k \in Nat : q >= 1 /\ q * o.step < at /\ q * o.step = at - o.step + k
    BY <1>3, <1>4, <1>5, StopBefore
  <2>2. PICK m, i : m = q * o.step /\ i = at - o.step OBVIOUS
  <2>3. m \in Nat /\ i \in Nat /\ m = i + k /\ m < at BY <1>4, <1>5, <2>1, <2>2
  <2>4. m \in G!Stops(o) BY <1>3, <1>4, <2>1, <2>2, <2>3, CadenceStops
  <2>5. G!Played(o, m).room # o.target BY <1>2, <1>3, <1>4, <2>3, <2>4
  <2>6. G!Played(o, m).room = TargetRoom /\ o.target # TargetRoom
    BY <1>5, <2>2, <2>3, <2>5, RoomsStay
  <2>7. PICK j : j = at - m OBVIOUS
  <2>8. j \in Nat /\ at = m + j BY <1>4, <2>3, <2>7
  <2>9. G!Played(o, at).room = TargetRoom BY <2>3, <2>6, <2>8, RoomsStay
  <2>10. QED BY <1>2, <2>6, <2>9
<1>6. gTransition[c][1] = at BY <1>2
<1>7. QED BY <1>1, <1>2, <1>5, <1>6

LEMMA PadTold ==
  ASSUME NEW c, NEW D, Told(c, D), G!ValidOptions(gOpts[c]), ~gPadTraceOk[c]
  PROVE  \/ gOpts[c].script = << >> /\ G!RestoredGuest(gOpts[c]).lastPad # 0
         \/ G!CheckpointAt(gOpts[c], 0) # {}
<1>1. PICK o : o = gOpts[c] OBVIOUS
<1>2. PICK s \in D : G!Played(o, s).lastPad # G!ExpectedPad(o.script, s) BY <1>1, Zenon DEF Told
<1>3. o.step # 0 /\ G!RestoredGuest(o).counter \in Nat /\ s \in G!Stops(o) /\ G!ValidOptions(o)
  BY <1>1 DEF Told
<1>4. s \in Nat BY <1>3, StopsWithin
<1>5. G!Played(o, s).lastPad = Heard(o, s) BY <1>3, <1>4, GatePlayedShows DEF GateShows
<1>6. CASE o.script = << >>
  <2>1. G!ExpectedPad(o.script, s) = 0 BY <1>6 DEF G!ExpectedPad, G!LiveWord
  <2>2. QED BY <1>1, <1>2, <1>5, <1>6, <2>1 DEF Heard
<1>7. CASE o.script # << >> /\ s # 0
  <2>1. G!ExpectedPad(o.script, s) = LiveWord(o.script, s) BY <1>7, GateOperators DEF G!ExpectedPad
  <2>2. QED BY <1>2, <1>5, <1>7, <2>1 DEF Heard
<1>8. CASE s = 0
  <2>1. o.step \in Nat \ {0} /\ o.budget \in Nat \ {0} BY <1>3 DEF G!ValidOptions
  <2>2. ASSUME NEW k \in 1..(o.budget \div o.step), k * o.step = 0 PROVE FALSE
    <3>1. PICK n, d : n = o.step /\ d = k - 1 OBVIOUS
    <3>2. n \in Nat /\ n >= 1 /\ d \in Nat /\ k = d + 1 BY <2>1, <3>1
    <3>3. k * n = n + d * n /\ d * n >= 0 BY <3>2
    <3>4. QED BY <2>2, <3>1, <3>2, <3>3
  <2>3. \E i \in DOMAIN o.checkpoints : o.checkpoints[i].frame = 0
    BY <1>3, <1>8, <2>1, <2>2 DEF G!Stops
  <2>4. QED BY <1>1, <2>3 DEF G!CheckpointAt
<1>9. QED BY <1>6, <1>7, <1>8

LEMMA GatesTold ==
  ASSUME VmInv, GateInv
  PROVE  GateVerdict
<1>1. ASSUME NEW c \in Gates
      PROVE  /\ G!ValidOptions(gOpts[c])
             /\ \E D : Told(c, D)
             /\ gPc[c] = "done" /\ gFailures[c] = {} => (gResult[c] = "pass" <=> PlayedRight(c))
  <2>1. PICK D, E : Told(c, D) /\ AtStage(c, D, E) BY DEF GateInv, Tells
  <2>2. G!ValidOptions(gOpts[c]) BY GatesAssumption DEF VmInv, WorkInv, ReportShapes
  <2>3. gPc[c] = "done" /\ gFailures[c] = {} => (gResult[c] = "pass" <=> PlayedRight(c))
    BY <2>1 DEF AtStage
  <2>4. QED BY <2>1, <2>2, <2>3, Zenon
<1>2. G!VerdictMatchesPlay BY <1>1, Zenon DEF G!VerdictMatchesPlay, PlayedRight
<1>3. G!TransitionWithinCadence BY <1>1, CadenceTold DEF G!TransitionWithinCadence
<1>4. G!PadTraceFailsForCause BY <1>1, PadTold, Zenon DEF G!PadTraceFailsForCause
<1>5. QED BY <1>2, <1>3, <1>4 DEF GateVerdict, G!GateVerdict

----
(* A gate's report says what its guest did.  At every stop the guest of *)
(* the slot is the one that plays the script word by word from the state *)
(* restored; so the gate passes exactly when that play-through shows the *)
(* target room, the pads and the framebuffers expected, the transition is *)
(* reported less than a step late, and the pad trace fails only for a pad *)
(* that was not the script's (the run loop of vm_first_room.rs). *)

THEOREM GateVerdictHolds == Spec => []GateVerdict
<1>1. BothInit => VmInv /\ GateInv BY VmStarts, GateInvStarts
<1>2. VmInv /\ GateInv /\ [Next]_allVars => (VmInv /\ GateInv)' BY VmKept, GateInvKept
<1>3. VmInv /\ GateInv => GateVerdict BY GatesTold
<1>4. QED BY <1>1, <1>2, <1>3, PTL DEF Spec
=============================================================================

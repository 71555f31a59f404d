------------------------------ MODULE VmWorker ------------------------------
(***************************************************************************)
(* The mock hypervisor worker of refwork-dh-client (mock.rs) and the       *)
(* blocking sessions (lib.rs) its clients hold on it.                      *)
(*                                                                         *)
(* The worker keeps VM slots, saved snapshots and a slot counter under one *)
(* mutex.  A handler runs to its end under the lock, except TakeSnapshot,  *)
(* which reads the guest under one lock and stores the snapshot under a    *)
(* second one.  A client has one awaited call at a time; when its RPC      *)
(* deadline passes it sees an error, and the call it gave up may still     *)
(* reach the worker, at any later time or never.                           *)
(*                                                                         *)
(* Abstractions: a lease is its slot id (the token is a hash of the id, so *)
(* a lease the worker issued never carries another token); a state hash is *)
(* the tuple of the hashed fields; a region read is the tuple of the       *)
(* fields the region's bytes are computed from.                            *)
(***************************************************************************)
EXTENDS Naturals, Sequences, FiniteSets, Functions

CONSTANTS
    Clients,          \* the gates (vm-suite, vm-first-room) sharing the worker
    Pads,             \* pad words; 0 is "no button"
    ReadyFrame,       \* MockFixture::ready_frame_counter
    InitialRoom,      \* MockFixture::room_initial
    TargetRoom,       \* MockFixture::room_target
    TransitionAfter,  \* MockFixture::transition_after_pads
    CorruptChoices,   \* values of MockFixture::corrupt_mid_run_restores explored
    SavedGuests,      \* guests earlier clients of this worker have snapshotted
    FaultBounds       \* bounds on the RPCs that fail on the clients' side

ASSUME ClientsAssumption == IsFiniteSet(Clients)
ASSUME PadsAssumption == Pads \subseteq Nat /\ 0 \in Pads
ASSUME FixtureAssumption == /\ {ReadyFrame, InitialRoom, TargetRoom} \subseteq Nat
                            /\ TransitionAfter \in Nat \ {0}
                            /\ CorruptChoices \subseteq BOOLEAN
                            /\ FaultBounds \subseteq Nat
ASSUME SavedGuestsAssumption ==
    SavedGuests \subseteq [counter : Nat, room : {InitialRoom, TargetRoom}, nonzero : Nat,
                           lastPad : Nat, metaFrame : Nat, running : BOOLEAN]

VARIABLES
    corrupt,    \* the fixture's corrupt_mid_run_restores, fixed for a behaviour
    slots,      \* WorkerState::slots: slot id -> [state, scheduled]
    snapshots,  \* WorkerState::snapshots: snapshot ref -> guest state
    nextSlot,   \* WorkerState::next_slot
    sealing,    \* TakeSnapshot calls between their two critical sections
    calls,      \* requests on their way to the worker, awaited or given up
    reply,      \* what each client's blocking call has returned, if it has
    faults      \* RPC failures: so far, and the bound of this behaviour

workerVars == <<corrupt, slots, snapshots, nextSlot, sealing, calls, reply, faults>>

-----------------------------------------------------------------------------
(* Maps: one entry, and a map with the entries of another put over its own. *)

Entry(key, value) == [k \in {key} |-> value]

Over(new, old) ==
    [k \in DOMAIN new \cup DOMAIN old |-> IF k \in DOMAIN new THEN new[k] ELSE old[k]]

-----------------------------------------------------------------------------
(* The guest. *)

\* GuestState::ready
ReadyGuest == [counter |-> ReadyFrame, room |-> InitialRoom, nonzero |-> 0,
               lastPad |-> 0, metaFrame |-> 0, running |-> FALSE]

\* The pad live at a frame: the most recent one scheduled at or before it; with nothing
\* scheduled the last pad persists.
LivePad(guest, scheduled, now) ==
    LET due == {at \in DOMAIN scheduled : at <= now}
    IN  IF due = {} THEN guest.lastPad
        ELSE scheduled[CHOOSE at \in due : \A other \in due : other <= at]

\* One round of the loop in `run`.
FrameMark(guest, scheduled) ==
    LET now     == guest.counter + 1
        pad     == LivePad(guest, scheduled, now)
        nonzero == IF pad = 0 THEN guest.nonzero ELSE guest.nonzero + 1
    IN  [counter   |-> now,
         room      |-> IF pad # 0 /\ nonzero >= TransitionAfter
                       THEN TargetRoom ELSE guest.room,
         nonzero   |-> nonzero,
         lastPad   |-> pad,
         metaFrame |-> guest.metaFrame + 1,
         running   |-> TRUE]

RunFrames(guest, scheduled, budget) ==
    LET after[n \in 0..budget] ==
            IF n = 0 THEN guest ELSE FrameMark(after[n-1], scheduled)
    IN  after[budget]

\* GuestState::state_hash: every field but `running`.
StateHash(guest) ==
    <<guest.counter, guest.room, guest.nonzero, guest.lastPad, guest.metaFrame>>

\* What the wram and meta regions show (GuestState::wram, GuestState::meta).
Regions(guest) == [room |-> guest.room, running |-> guest.running,
                   metaFrame |-> guest.metaFrame, lastPad |-> guest.lastPad]

\* GuestState::framebuffer: a function of the room and the frame counter.
Framebuffer(guest) == <<guest.room, guest.counter>>

-----------------------------------------------------------------------------
(* Snapshot refs, requests and replies. *)

READY == <<"ready">>              \* MockFixture::ready_snapshot_ref

\* take_snapshot: the ref is a hash of the state hash.
SnapshotRef(guest) == <<"mid">> \o StateHash(guest)

RestoreRequest(ref)          == [op |-> "restore", ref |-> ref]
InjectRequest(lease, events) == [op |-> "inject", lease |-> lease, events |-> events]
RunRequest(lease, budget)    == [op |-> "run", lease |-> lease, budget |-> budget]
SlotRequest(op, lease)       == [op |-> op, lease |-> lease]

NoReply        == [status |-> "none"]
RpcError       == [status |-> "rpc"]          \* transport error or deadline
Refused(code)  == [status |-> code]
Refusals       == {"not_found", "slot_empty", "not_in_future", "agenda_not_empty"}

\* What a handler answers; `guest` stands for the fields of the response that
\* are computed from the guest's state.
Answer(guest)  == [status |-> "ok", guest |-> guest]

-----------------------------------------------------------------------------
(* Handlers.  Handle(call) is the handler's critical section; the answer  *)
(* reaches the client only if it still waits for it.                      *)

Deliver(call, answer) ==
    reply' = IF call.awaited THEN [reply EXCEPT ![call.client] = answer] ELSE reply

WorkerInit ==
    /\ corrupt \in CorruptChoices
    /\ slots = << >> /\ nextSlot = 0
    /\ snapshots = [ref \in {SnapshotRef(guest) : guest \in SavedGuests} |->
                       CHOOSE guest \in SavedGuests : SnapshotRef(guest) = ref]
    /\ sealing = {} /\ calls = {}
    /\ faults \in [count : {0}, bound : FaultBounds]
    /\ reply = [c \in Clients |-> NoReply]

\* Slot ids are never reused.
NextSlotId == nextSlot + 1

\* restore_snapshot
RestoreSnapshot(call) ==
    LET ref   == call.req.ref
        saved == snapshots[ref]
        guest == CASE ref = READY -> ReadyGuest
                   [] ref # READY /\ corrupt -> [saved EXCEPT !.nonzero = @ + 1]
                   [] OTHER -> saved
        id    == NextSlotId
    IN  /\ call.req.op = "restore"
        /\ UNCHANGED <<snapshots, sealing>>
        /\ \/ /\ ref = READY \/ ref \in DOMAIN snapshots
              /\ nextSlot' = nextSlot + 1
              /\ slots' = Over(Entry(id, [state |-> guest, scheduled |-> << >>]), slots)
              /\ Deliver(call, [status |-> "ok", lease |-> id, guest |-> guest])
           \/ /\ ref # READY /\ ref \notin DOMAIN snapshots
              /\ Deliver(call, Refused("not_found"))
              /\ UNCHANGED <<slots, nextSlot>>

\* with_slot: a call on a slot that is gone is refused.
SlotGone(call) ==
    /\ call.req.op # "restore"
    /\ call.req.lease \notin DOMAIN slots
    /\ Deliver(call, Refused("slot_empty"))
    /\ UNCHANGED <<slots, snapshots, nextSlot, sealing>>

WithSlot(call, op) == call.req.op = op /\ call.req.lease \in DOMAIN slots

\* inject_inputs.  The clients send events in frame order, so an event that is
\* not in the future is the first one and nothing is inserted before it.
InjectInputs(call) ==
    LET slot   == slots[call.req.lease]
        events == call.req.events
        past   == \E at \in DOMAIN events : at <= slot.state.counter
    IN  /\ WithSlot(call, "inject")
        /\ IF past
           THEN UNCHANGED slots /\ Deliver(call, Refused("not_in_future"))
           ELSE /\ slots' = [slots EXCEPT ![call.req.lease].scheduled = Over(events, @)]
                /\ Deliver(call, Answer(slot.state))
        /\ UNCHANGED <<snapshots, nextSlot, sealing>>

\* run
Run(call) ==
    LET slot  == slots[call.req.lease]
        guest == RunFrames(slot.state, slot.scheduled, call.req.budget)
    IN  /\ WithSlot(call, "run")
        /\ slots' = [slots EXCEPT ![call.req.lease].state = guest]
        /\ Deliver(call, Answer(guest))
        /\ UNCHANGED <<snapshots, nextSlot, sealing>>

\* read_guest_memory and get_framebuffer change nothing.
Read(call) ==
    /\ WithSlot(call, "read") \/ WithSlot(call, "framebuffer")
    /\ Deliver(call, Answer(slots[call.req.lease].state))
    /\ UNCHANGED <<slots, snapshots, nextSlot, sealing>>

AgendaEmpty(slot) == \A at \in DOMAIN slot.scheduled : at <= slot.state.counter

\* take_snapshot, first critical section: the guest is cloned.
TakeSnapshot(call) ==
    LET slot == slots[call.req.lease]
    IN  /\ WithSlot(call, "snapshot")
        /\ IF AgendaEmpty(slot)
           THEN /\ sealing' = sealing \cup
                      {[client |-> call.client, awaited |-> call.awaited,
                        guest |-> slot.state]}
                /\ UNCHANGED reply
           ELSE Deliver(call, Refused("agenda_not_empty")) /\ UNCHANGED sealing
        /\ UNCHANGED <<slots, snapshots, nextSlot>>

\* take_snapshot, second critical section: the snapshot is stored, and only
\* then is its ref answered.
StoreSnapshot(seal) ==
    /\ snapshots' = Over(Entry(SnapshotRef(seal.guest), seal.guest), snapshots)
    /\ sealing' = sealing \ {seal}
    /\ Deliver(seal, [status |-> "ok", ref |-> SnapshotRef(seal.guest)])
    /\ UNCHANGED <<corrupt, slots, nextSlot, calls, faults>>

\* destroy_vm
DestroyVm(call) ==
    /\ WithSlot(call, "destroy")
    /\ slots' = Restrict(slots, DOMAIN slots \ {call.req.lease})
    /\ Deliver(call, [status |-> "ok"])
    /\ UNCHANGED <<snapshots, nextSlot, sealing>>

Handle(call) ==
    /\ calls' = calls \ {call}
    /\ UNCHANGED <<corrupt, faults>>
    /\ \/ RestoreSnapshot(call) \/ SlotGone(call) \/ InjectInputs(call)
       \/ Run(call) \/ Read(call) \/ TakeSnapshot(call) \/ DestroyVm(call)

\* An awaited call is served; one its client gave up may be.
Serve        == \E call \in {k \in calls : k.awaited} : Handle(call)
ServeGivenUp == \E call \in {k \in calls : ~k.awaited} : Handle(call)
Store        == \E seal \in sealing : StoreSnapshot(seal)

-----------------------------------------------------------------------------
(* The client's end of the connection. *)

GiveUp(pending, c) ==
    {IF k.client = c THEN [k EXCEPT !.awaited = FALSE] ELSE k : k \in pending}

Waiting(c) == \E k \in calls \cup sealing : k.client = c /\ k.awaited

CountFault == faults.count < faults.bound /\ faults' = [faults EXCEPT !.count = @ + 1]

\* The RPC fails on the client's side: its deadline passes or the connection
\* drops, before the worker has served the call or after.
RpcFails(c) ==
    /\ Waiting(c) \/ reply[c].status = "ok"
    /\ CountFault
    /\ reply' = [reply EXCEPT ![c] = RpcError]
    /\ calls' = GiveUp(calls, c)
    /\ sealing' = GiveUp(sealing, c)
    /\ UNCHANGED <<corrupt, slots, snapshots, nextSlot>>

\* A client takes the reply of its last call and issues the next one.
Issue(c, req) ==
    /\ calls' = calls \cup {[client |-> c, awaited |-> TRUE, req |-> req]}
    /\ reply' = [reply EXCEPT ![c] = NoReply]
    /\ UNCHANGED <<corrupt, slots, snapshots, nextSlot, sealing>>

Call(c, req) == Issue(c, req) /\ UNCHANGED faults

\* A client takes the reply of its last call and issues no other.
HangUp(c) ==
    /\ reply' = [reply EXCEPT ![c] = NoReply]
    /\ UNCHANGED <<corrupt, slots, snapshots, nextSlot, sealing, calls, faults>>

WorkerNext == Serve \/ ServeGivenUp \/ Store \/ \E c \in Clients : RpcFails(c)

-----------------------------------------------------------------------------
(* Pad scripts, shared by the two gates. *)

\* The word live at frame i of a script: held past the end, 0 if empty.
LiveWord(script, i) ==
    CASE script = << >> -> 0
      [] script # << >> /\ i <= Len(script) -> script[i]
      [] OTHER -> script[Len(script)]
=============================================================================

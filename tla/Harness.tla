------------------------------ MODULE Harness ------------------------------
(***************************************************************************)
(* The guest process refwork-harness: the fd-3 setup handshake             *)
(* (runner.rs), region publication to the agent (agent.rs), the meta page  *)
(* (meta.rs) and the free-running frame loop (frame.rs), together with the *)
(* two parties that race with it: the in-guest agent at the other end of   *)
(* the SEQPACKET socket (ctl.rs) and the host, which owns the pad latch    *)
(* and looks at the published regions at a frame mark.                     *)
(*                                                                         *)
(* One action per call that another party can observe or interleave with.  *)
(* Pixels and WRAM are abstracted to the number of the frame whose         *)
(* boundary state they hold.                                               *)
(***************************************************************************)
EXTENDS Integers, Sequences

CONSTANTS
  MaxFrames,     (* Frames the host lets the guest run. Bounds the model.   *)
  MaxDatagrams,  (* Datagrams the agent sends in all. Bounds the model.     *)
  QueueCap,      (* Datagrams the socket holds towards the harness.         *)
  SendCap,       (* Datagrams the socket holds towards the agent.           *)
  Pads           (* Values the host puts in the pad latch.                  *)

ASSUME HarnessAssumption ==
  /\ MaxFrames \in Nat
  /\ MaxDatagrams \in Nat
  /\ QueueCap \in Nat
  /\ SendCap \in Nat \ {0}
  /\ Pads \subseteq Nat

VARIABLES
  pc,        (* Where the single harness thread is.                         *)
  config,    (* SetupConfig, and whether the SDK found an agent.            *)
  step,      (* Index of the region being registered or announced.          *)
  queue,     (* Datagrams from the agent, not yet received.                 *)
  sent,      (* Every message the harness has sent, in order.               *)
  unread,    (* How many of them the agent has not read.                    *)
  peer,      (* The agent's end of the socket: open or closed.              *)
  datagrams, (* How many datagrams the agent has sent.                      *)
  manifest,  (* The agent's manifest entry of each required region.         *)
  meta,      (* The meta page.                                              *)
  framebuffer, (* Frame whose pixels the framebuffer region holds.          *)
  core,      (* The emulator core: frame counter, WRAM contents, pad.       *)
  latch,     (* The pv-pad input latch.                                     *)
  pad,       (* The local variable pad of FrameLoop::run.                   *)
  marks,     (* The SDK's own absolute frame counter.                       *)
  fault,     (* The fault being raised: code, frame.                        *)
  exit       (* How the process ended.                                      *)

link   == <<queue, sent, unread, peer, datagrams>>
pages  == <<manifest, meta, framebuffer>>
frames == <<core, pad, marks>>
vars   == <<pc, config, step, queue, sent, unread, peer, datagrams, manifest,
            meta, framebuffer, core, latch, pad, marks, fault, exit>>

-----------------------------------------------------------------------------
(* Messages.                                                               *)

Required == <<"wram", "framebuffer", "meta">>
RegionNames == {"wram", "framebuffer", "meta"}

Malformed == {"Garbage", "Oversize"}
DatagramKinds ==
  {"Hello", "HelloOtherVersion", "LoadGame", "Start", "HashRequest", "Shutdown",
   "HarnessMessage", "Empty"} \union Malformed

FaultCodes == {"BadProto", "BadGame", "RegionRegFailed", "EmuHalt", "ProtocolOrder"}
CodeValue(code) ==
  CASE code = "BadProto" -> 0 [] code = "BadGame" -> 1
    [] code = "RegionRegFailed" -> 2 [] code = "EmuHalt" -> 3
    [] code = "ProtocolOrder" -> 4

Torn == -1   \* WRAM in the middle of a frame

\* The twelve pad bits of a latch word.
Masked(word) == word % 4096

Plain(type) == [type |-> type, frame |-> 0, code |-> 0, wram |-> 0, fb |-> 0]
HashReport(f, w, b) ==
  [type |-> "HashReport", frame |-> f, code |-> 0, wram |-> w, fb |-> b]
FaultMsg(f, code) ==
  [type |-> "Fault", frame |-> f, code |-> CodeValue(code), wram |-> 0, fb |-> 0]

-----------------------------------------------------------------------------
(* Transport.                                                              *)

Goto(label) == pc' = label

\* recv/try_recv deliver the oldest datagram, of one of these kinds.
Receive(kinds) ==
  /\ queue # <<>>
  /\ Head(queue).kind \in kinds
  /\ queue' = Tail(queue)
  /\ UNCHANGED <<sent, unread, peer, datagrams>>

ReceiveFailsOnEmptyOnly ==   \* Mutant: the end of file is taken for no message yet.
  /\ queue # <<>>
  /\ Head(queue).kind = "Empty"
  /\ queue' = Tail(queue)
  /\ UNCHANGED <<sent, unread, peer, datagrams>>

\* recv/try_recv return an I/O error: the peer has closed (after the queue is
\* drained, or at once when the close reset the connection), or a datagram of
\* length zero, which recv reports exactly as it reports end of file.
ReceiveFails ==
  \/ /\ peer = "closed"
     /\ UNCHANGED link
  \/ /\ queue # <<>>
     /\ Head(queue).kind = "Empty"
     /\ queue' = Tail(queue)
     /\ UNCHANGED <<sent, unread, peer, datagrams>>

\* send blocks while the peer's buffer is full.
Send(msg) ==
  /\ peer = "open"
  /\ unread < SendCap
  /\ sent' = Append(sent, msg)
  /\ unread' = unread + 1
  /\ UNCHANGED <<queue, peer, datagrams>>

\* EPIPE (MSG_NOSIGNAL): the error propagates and ends the process.
Exit(how) == exit' = how /\ pc' = "exited"
SendFails == peer = "closed" /\ Exit("control") /\ UNCHANGED link

-----------------------------------------------------------------------------
(* Faults: mark the meta page first where the code does, then send Fault.  *)

NoFault == [code |-> "BadProto", frame |-> 0]
Raise(code, f, entry) == fault' = [code |-> code, frame |-> f] /\ pc' = entry
FaultUnmarked(code) == Raise(code, 0, "fault_send")
FaultMarked(code, f) == Raise(code, f, "fault_frame")

\* MetaPage::set_fault, one store per step: frame, code, then the status.
WriteFaultFrameAndStatus ==   \* Mutant: the status is published first.
  /\ pc = "fault_frame"
  /\ meta' = [meta EXCEPT !.frame = fault.frame, !.status = "Faulted"]
  /\ Goto("fault_code")
  /\ UNCHANGED <<config, step, link, manifest, framebuffer, frames, latch, fault, exit>>

WriteFaultFrame ==
  /\ pc = "fault_frame"
  /\ meta' = [meta EXCEPT !.frame = fault.frame]
  /\ Goto("fault_code")
  /\ UNCHANGED <<config, step, link, manifest, framebuffer, frames, latch, fault, exit>>

WriteFaultCode ==
  /\ pc = "fault_code"
  /\ meta' = [meta EXCEPT !.code = CodeValue(fault.code)]
  /\ Goto("fault_status")
  /\ UNCHANGED <<config, step, link, manifest, framebuffer, frames, latch, fault, exit>>

WriteFaultStatus ==
  /\ pc = "fault_status"
  /\ meta' = [meta EXCEPT !.status = "Faulted"]
  /\ Goto("fault_send")
  /\ UNCHANGED <<config, step, link, manifest, framebuffer, frames, latch, fault, exit>>

SendFaultAndContinue ==   \* Mutant: the loop goes on after the fault.
  /\ pc = "fault_send"
  /\ \/ Send(FaultMsg(fault.frame, fault.code)) /\ Goto("poll") /\ UNCHANGED exit
     \/ SendFails
  /\ UNCHANGED <<config, step, pages, frames, latch, fault>>

SendFault ==
  /\ pc = "fault_send"
  /\ \/ Send(FaultMsg(fault.frame, fault.code)) /\ Exit("fault")
     \/ SendFails
  /\ UNCHANGED <<config, step, pages, frames, latch, fault>>

-----------------------------------------------------------------------------
(* Setup (run_setup).                                                      *)

\* recv_msg blocks until a datagram or an error; each handshake stage accepts
\* one kind, rejects an undecodable datagram with BadProto and any other
\* message with ProtocolOrder.  Only expect_start marks the meta page.
Rejects(code, marked) ==
  IF marked THEN FaultMarked(code, 0) ELSE FaultUnmarked(code)

RejectDatagram(accepted, marked) ==
  \/ /\ Receive(Malformed)
     /\ Rejects("BadProto", marked)
     /\ UNCHANGED exit
  \/ /\ Receive(DatagramKinds \ (accepted \union Malformed \union {"Empty"}))
     /\ Rejects("ProtocolOrder", marked)
     /\ UNCHANGED exit
  \/ /\ ReceiveFails
     /\ Exit("control")
     /\ UNCHANGED fault

ExpectHello ==
  /\ pc = "hello"
  /\ \/ Receive({"Hello"}) /\ Goto("hello_ack") /\ UNCHANGED <<fault, exit>>
     \/ /\ Receive({"HelloOtherVersion"})
        /\ FaultUnmarked("BadProto")
        /\ UNCHANGED exit
     \/ RejectDatagram({"Hello", "HelloOtherVersion"}, FALSE)
  /\ UNCHANGED <<config, step, pages, frames, latch>>

\* A setup message is sent, or the send fails and the process exits.
SetupSend(from, msg, to) ==
  /\ pc = from
  /\ \/ Send(msg) /\ Goto(to) /\ UNCHANGED exit
     \/ SendFails
  /\ UNCHANGED <<config, pages, frames, latch, fault>>

SendHelloAck == SetupSend("hello_ack", Plain("HelloAck"), "load_game") /\ UNCHANGED step

ExpectLoadGame ==
  /\ pc = "load_game"
  /\ \/ Receive({"LoadGame"}) /\ Goto("loading") /\ UNCHANGED <<fault, exit>>
     \/ RejectDatagram({"LoadGame"}, FALSE)
  /\ UNCHANGED <<config, step, pages, frames, latch>>

LoadGame ==
  /\ pc = "loading"
  /\ \/ Goto("prepare") /\ UNCHANGED fault
     \/ FaultUnmarked("BadGame")
  /\ UNCHANGED <<config, step, link, pages, frames, latch, exit>>

\* The pages are private until they are registered, so mapping them and
\* init_meta (Init, then set_ready) are one step.
PrepareRegions ==
  /\ pc = "prepare"
  /\ \/ /\ ~config.sram
        /\ meta' = [status |-> "Ready", frame |-> 0, pad |-> 0, code |-> 0]
        /\ step' = 1
        /\ Goto("publish")
        /\ UNCHANGED fault
     \/ FaultUnmarked("RegionRegFailed") /\ UNCHANGED <<meta, step>>
  /\ UNCHANGED <<config, link, manifest, framebuffer, frames, latch, exit>>

\* publish_regions: register one required region after the other.
RegisterWithAgent ==
  /\ pc = "publish"
  /\ step <= Len(Required)
  /\ config.agent
  /\ manifest' = [manifest EXCEPT ![Required[step]] = "live"]
  /\ step' = step + 1
  /\ UNCHANGED <<pc, config, link, meta, framebuffer, frames, latch, fault, exit>>

\* A hard error drops the handles taken so far, and their entries go DEAD.
RegistrationFails ==
  /\ pc = "publish"
  /\ step <= Len(Required)
  /\ config.agent
  /\ manifest' = [r \in RegionNames |->
                   IF manifest[r] = "live" THEN "dead" ELSE manifest[r]]
  /\ FaultMarked("RegionRegFailed", 0)
  /\ UNCHANGED <<config, step, link, meta, framebuffer, frames, latch, exit>>

\* Standalone at the first registration, or all of them registered.
PublicationDoneEarly ==   \* Mutant: one region short.
  /\ pc = "publish"
  /\ ~config.agent \/ step >= Len(Required)
  /\ Goto("game_loaded")
  /\ step' = 1
  /\ UNCHANGED <<config, link, pages, frames, latch, fault, exit>>

PublicationDone ==
  /\ pc = "publish"
  /\ ~config.agent \/ step > Len(Required)
  /\ Goto("game_loaded")
  /\ step' = 1
  /\ UNCHANGED <<config, link, pages, frames, latch, fault, exit>>

SendGameLoaded ==
  SetupSend("game_loaded", Plain("GameLoaded"), "announce") /\ UNCHANGED step

Descriptors == IF config.vram THEN Append(Required, "vram") ELSE Required

\* send_regions, then Ready.
AnnounceRegion ==
  /\ step <= Len(Descriptors)
  /\ SetupSend("announce", Plain("RegisterRegion"), "announce")
  /\ step' = step + 1

SendReady ==
  /\ step > Len(Descriptors)
  /\ SetupSend("announce", Plain("Ready"), "start")
  /\ UNCHANGED step

ExpectStart ==
  /\ pc = "start"
  /\ \/ Receive({"Start"}) /\ Goto("activate") /\ UNCHANGED <<fault, exit>>
     \/ RejectDatagram({"Start"}, TRUE)
  /\ UNCHANGED <<config, step, pages, frames, latch>>

-----------------------------------------------------------------------------
(* Frame loop (FrameLoop::new, FrameLoop::run).                            *)

Activate ==
  /\ pc = "activate"
  /\ Goto("poll")
  /\ UNCHANGED <<config, step, link, pages, frames, latch, fault, exit>>

\* poll_input(0) & 0x0fff; the core latches it for the whole frame.
PollInput ==
  /\ pc = "poll"
  /\ core.frame < MaxFrames
  /\ pad' = Masked(latch)
  /\ core' = [core EXCEPT !.wram = Torn]
  /\ Goto("run")
  /\ UNCHANGED <<config, step, link, pages, latch, marks, fault, exit>>

\* run_one_frame completes: the counter moves and WRAM is that frame's.
FrameCompletesNoBlit ==   \* Mutant: the blit is skipped.
  /\ pc = "run"
  /\ core' = [frame |-> core.frame + 1, wram |-> core.frame + 1, pad |-> pad]
  /\ Goto("meta_frame")
  /\ UNCHANGED <<config, step, link, pages, latch, pad, marks, fault, exit>>

FrameCompletes ==
  /\ pc = "run"
  /\ core' = [frame |-> core.frame + 1, wram |-> core.frame + 1, pad |-> pad]
  /\ Goto("blit")
  /\ UNCHANGED <<config, step, link, pages, latch, pad, marks, fault, exit>>

\* run_one_frame returns FAULTED: neither counter nor front buffer moved.
FrameFaults ==
  /\ pc = "run"
  /\ FaultMarked("EmuHalt", core.frame)
  /\ UNCHANGED <<config, step, link, pages, frames, latch, exit>>

Blit ==
  /\ pc = "blit"
  /\ framebuffer' = core.frame
  /\ Goto("meta_frame")
  /\ UNCHANGED <<config, step, link, manifest, meta, frames, latch, fault, exit>>

\* MetaPage::set_running_frame, one store per step.
WriteMetaFrame ==
  /\ pc = "meta_frame"
  /\ meta' = [meta EXCEPT !.frame = core.frame]
  /\ Goto("meta_pad")
  /\ UNCHANGED <<config, step, link, manifest, framebuffer, frames, latch, fault, exit>>

WriteMetaPad ==
  /\ pc = "meta_pad"
  /\ meta' = [meta EXCEPT !.pad = Masked(pad)]
  /\ Goto("meta_status")
  /\ UNCHANGED <<config, step, link, manifest, framebuffer, frames, latch, fault, exit>>

WriteMetaStatus ==
  /\ pc = "meta_status"
  /\ meta' = [meta EXCEPT !.status = "Running"]
  /\ Goto("mark")
  /\ UNCHANGED <<config, step, link, manifest, framebuffer, frames, latch, fault, exit>>

\* frame_mark, then the quiesce check: the host may stop the guest here.
FrameMarkPollsEveryOther ==   \* Mutant: control is polled every second frame.
  /\ pc = "mark"
  /\ marks' = marks + 1
  /\ Goto(IF marks % 2 = 0 THEN "poll" ELSE "boundary")
  /\ UNCHANGED <<config, step, link, pages, core, pad, latch, fault, exit>>

FrameMark ==
  /\ pc = "mark"
  /\ marks' = marks + 1
  /\ Goto("boundary")
  /\ UNCHANGED <<config, step, link, pages, core, pad, latch, fault, exit>>

\* recv_boundary_msg: one datagram per completed frame, never more.
BoundaryIdle ==
  /\ pc = "boundary"
  /\ queue = <<>>
  /\ peer = "open"
  /\ Goto("poll")
  /\ UNCHANGED <<config, step, link, pages, frames, latch, fault, exit>>

BoundaryHashRequest ==
  /\ pc = "boundary"
  /\ Receive({"HashRequest"})
  /\ IF Head(queue).frame = core.frame
     THEN Goto("report") /\ UNCHANGED fault
     ELSE FaultMarked("ProtocolOrder", core.frame)
  /\ UNCHANGED <<config, step, pages, frames, latch, exit>>

BoundaryShutdown ==
  /\ pc = "boundary"
  /\ Receive({"Shutdown"})
  /\ Exit("shutdown")
  /\ UNCHANGED <<config, step, pages, frames, latch, fault>>

BoundaryReject ==
  /\ pc = "boundary"
  /\ \/ Receive(Malformed) /\ FaultMarked("BadProto", core.frame) /\ UNCHANGED exit
     \/ /\ Receive({"Hello", "HelloOtherVersion", "LoadGame", "Start", "HarnessMessage"})
        /\ FaultMarked("ProtocolOrder", core.frame)
        /\ UNCHANGED exit
     \/ ReceiveFails /\ Exit("control") /\ UNCHANGED fault
  /\ UNCHANGED <<config, step, pages, frames, latch>>

SendHashReportDrains ==   \* Mutant: the boundary is polled until it is dry.
  /\ pc = "report"
  /\ \/ /\ Send(HashReport(core.frame, core.wram, framebuffer))
        /\ Goto("boundary")
        /\ UNCHANGED exit
     \/ SendFails
  /\ UNCHANGED <<config, step, pages, frames, latch, fault>>

SendHashReport ==
  /\ pc = "report"
  /\ \/ /\ Send(HashReport(core.frame, core.wram, framebuffer))
        /\ Goto("poll")
        /\ UNCHANGED exit
     \/ SendFails
  /\ UNCHANGED <<config, step, pages, frames, latch, fault>>

-----------------------------------------------------------------------------
(* The agent and the host.                                                 *)

\* The boundary at which the harness next polls the socket in steady state.
NextBoundary ==
  IF pc \in {"blit", "meta_frame", "meta_pad", "meta_status", "mark", "boundary"}
  THEN core.frame ELSE core.frame + 1

AgentSends(kind, f) ==
  /\ peer = "open"
  /\ datagrams < MaxDatagrams
  /\ Len(queue) < QueueCap
  /\ pc # "exited"
  /\ queue' = Append(queue, [kind |-> kind, frame |-> f,
                             due |-> NextBoundary + Len(queue)])
  /\ datagrams' = datagrams + 1
  /\ UNCHANGED <<pc, config, step, sent, unread, peer, pages, frames, latch, fault, exit>>

AgentReads ==
  /\ unread > 0
  /\ unread' = unread - 1
  /\ UNCHANGED <<pc, config, step, queue, sent, peer, datagrams, pages, frames, latch,
                 fault, exit>>

AgentCloses ==
  /\ peer = "open"
  /\ pc # "exited"
  /\ peer' = "closed"
  /\ UNCHANGED <<pc, config, step, queue, sent, unread, datagrams, pages, frames, latch,
                 fault, exit>>

HostSetsPad(p) ==
  /\ p # latch
  /\ pc # "exited"
  /\ latch' = p
  /\ UNCHANGED <<pc, config, step, link, pages, frames, fault, exit>>

-----------------------------------------------------------------------------
Init ==
  /\ pc = "hello"
  /\ config \in [agent : BOOLEAN, vram : BOOLEAN, sram : BOOLEAN]
  /\ step = 1
  /\ queue = <<>> /\ sent = <<>> /\ unread = 0 /\ peer = "open" /\ datagrams = 0
  /\ manifest = [r \in RegionNames |-> "absent"]
  /\ meta = [status |-> "Unmapped", frame |-> 0, pad |-> 0, code |-> 0]
  /\ framebuffer = 0
  /\ core = [frame |-> 0, wram |-> 0, pad |-> 0]
  /\ latch \in Pads
  /\ pad = 0 /\ marks = 0
  /\ fault = NoFault
  /\ exit = "running"

Setup ==
  \/ ExpectHello \/ SendHelloAck \/ ExpectLoadGame \/ LoadGame \/ PrepareRegions
  \/ RegisterWithAgent \/ RegistrationFails \/ PublicationDone
  \/ SendGameLoaded \/ AnnounceRegion \/ SendReady \/ ExpectStart

FrameLoop ==
  \/ Activate \/ PollInput \/ FrameCompletes \/ FrameFaults \/ Blit
  \/ WriteMetaFrame \/ WriteMetaPad \/ WriteMetaStatus \/ FrameMark
  \/ BoundaryIdle \/ BoundaryHashRequest \/ BoundaryShutdown \/ BoundaryReject
  \/ SendHashReport

FaultPath == WriteFaultFrame \/ WriteFaultCode \/ WriteFaultStatus \/ SendFault

Process == Setup \/ FrameLoop \/ FaultPath

Environment ==
  \/ \E kind \in DatagramKinds \ {"HashRequest"} : AgentSends(kind, 0)
  \/ \E f \in 0..MaxFrames : AgentSends("HashRequest", f)
  \/ AgentReads
  \/ AgentCloses
  \/ \E p \in Pads : HostSetsPad(p)

Next == Process \/ Environment

Spec == Init /\ [][Next]_vars

\* The harness thread is scheduled, and the agent drains its socket.
FairSpec == Spec /\ WF_vars(Process) /\ WF_vars(AgentReads)
-----------------------------------------------------------------------------
(* Properties.                                                             *)

Labels ==
  {"hello", "hello_ack", "load_game", "loading", "prepare", "publish", "game_loaded",
   "announce", "start", "activate", "poll", "run", "blit", "meta_frame", "meta_pad",
   "meta_status", "mark", "boundary", "report", "fault_frame", "fault_code",
   "fault_status", "fault_send", "exited"}

Datagrams == [kind : DatagramKinds, frame : Nat, due : Nat]
MessageTypes ==
  {"HelloAck", "GameLoaded", "RegisterRegion", "Ready", "HashReport", "Fault"}
Codes == 0..4
Messages == [type : MessageTypes, frame : Nat, code : Codes, wram : Int, fb : Nat]

Configs == [agent : BOOLEAN, vram : BOOLEAN, sram : BOOLEAN]
Manifests == [RegionNames -> {"absent", "live", "dead"}]
Statuses == {"Unmapped", "Ready", "Running", "Faulted"}
PadWords == 0..4095
MetaPages == [status : Statuses, frame : Nat, pad : PadWords, code : Codes]
Cores == [frame : Nat, wram : Nat \union {Torn}, pad : PadWords]
Faults == [code : FaultCodes, frame : Nat]

LinkTypeOK ==
  /\ queue \in Seq(Datagrams)
  /\ sent \in Seq(Messages)
  /\ unread \in Nat
  /\ peer \in {"open", "closed"}
  /\ datagrams \in 0..MaxDatagrams

ControlTypeOK ==
  /\ pc \in Labels
  /\ config \in Configs
  /\ step \in 1..5
  /\ manifest \in Manifests
  /\ latch \in Pads
  /\ exit \in {"running", "shutdown", "fault", "control"}

DataTypeOK ==
  /\ meta \in MetaPages
  /\ framebuffer \in Nat
  /\ core \in Cores
  /\ pad \in PadWords
  /\ marks \in Nat
  /\ fault \in Faults

\* The shape of every variable.
TypeOK == LinkTypeOK /\ ControlTypeOK /\ DataTypeOK

Sent(type) == \E i \in DOMAIN sent : sent[i].type = type

AtMark == pc \in {"boundary", "report"}
BeforeFirstFrame == pc \in {"start", "activate", "poll", "run", "blit"} /\ marks = 0

\* What the host reads when the guest is stopped at a frame mark belongs to one
\* frame: the meta page, the framebuffer, WRAM and the SDK's own counter all name
\* the frame just completed, with the pad that frame ran with and no fault
\* (FrameLoop::run; the SDK counter is kept "in lockstep with the emulator's").
MarkSnapshot ==
  AtMark =>
    /\ meta = [status |-> "Running", frame |-> core.frame, pad |-> core.pad, code |-> 0]
    /\ framebuffer = core.frame
    /\ core.wram = core.frame
    /\ marks = core.frame

\* Ready is never seen by the agent before every region the host reads is live in
\* the manifest (or there is no agent), the page says so, and every descriptor has
\* been announced exactly once (agent.rs: "READY must not precede live regions").
ReadyGatesRegions ==
  Sent("Ready") =>
    /\ config.agent => \A r \in RegionNames : manifest[r] = "live"
    /\ meta.status # "Unmapped"
    /\ \A i \in DOMAIN sent : sent[i].type = "Ready" => i = Len(Descriptors) + 3

\* From Ready until the first completed frame the page is the READY beacon the root
\* snapshot is taken of: status ready, frame 0, no pad, no fault.
ReadyBeacon ==
  Sent("Ready") /\ BeforeFirstFrame =>
    meta = [status |-> "Ready", frame |-> 0, pad |-> 0, code |-> 0]

\* What the agent and the host may rely on from Ready on: it is the last thing the setup
\* says, every region is live by then, and the page stays the beacon until a frame runs.
ReadyContract == ReadyGatesRegions /\ ReadyBeacon

\* A Fault the agent can read is already in the meta page, with the same code and
\* frame, whenever there is a page to hold it; and the frame is the last completed.
FaultVisibleInMeta ==
  \A i \in DOMAIN sent : sent[i].type = "Fault" =>
    /\ sent[i].frame = core.frame
    /\ meta.status # "Unmapped" =>
         /\ meta.status = "Faulted"
         /\ meta.code = sent[i].code
         /\ meta.frame = sent[i].frame

\* The guest may be stopped between two stores of set_fault: a reader that sees the
\* status Faulted sees the code and the frame that go with it (publish_status).
FaultedStatusLast ==
  meta.status = "Faulted" =>
    meta.code = CodeValue(fault.code) /\ meta.frame = fault.frame

\* What a reader of either channel may rely on about a fault: the message never precedes
\* the page, and the page is never half written under the status Faulted.
FaultContract == FaultVisibleInMeta /\ FaultedStatusLast

\* Every HashReport hashes the state at the boundary of the frame it names, no frame
\* is reported twice or out of order, and none before its mark.
ReportsFaithful ==
  \A i \in DOMAIN sent : sent[i].type = "HashReport" =>
    /\ sent[i].wram = sent[i].frame
    /\ sent[i].fb = sent[i].frame
    /\ sent[i].frame \in 1..marks
    /\ \A j \in 1..(i - 1) : sent[j].type = "HashReport" => sent[j].frame < sent[i].frame

\* A datagram that found p others queued is examined within p boundaries of the next
\* one: polling one datagram per boundary delays a message but never starves it.
DueByPosition ==
  pc # "exited" => \A i \in DOMAIN queue : NextBoundary + i - 1 <= queue[i].due

\* What the host may rely on about its requests: each is examined in its turn, and a hash
\* report answers for the boundary at which its request was examined.
RequestContract == ReportsFaithful /\ DueByPosition

\* A queued Shutdown whose boundary lies within the host's frame budget ends the
\* process, whatever else is queued before it and however slowly the agent reads.
ShutdownHonoured ==
  (\E i \in DOMAIN queue : queue[i].kind = "Shutdown" /\ queue[i].due <= MaxFrames)
    ~> pc = "exited"

\* The agent's death is never ignored: the process ends within the boundaries it takes
\* to drain what the agent had queued.
PeerCloseEndsProcess ==
  (peer = "closed" /\ NextBoundary + Len(queue) <= MaxFrames) ~> pc = "exited"

\* Whatever is queued, a Shutdown and the agent's death are acted upon in the end.
QueueDrained == ShutdownHonoured /\ PeerCloseEndsProcess

-----------------------------------------------------------------------------
(* What the agent and the host see of all this (see HarnessLifecycle).     *)

Frames(type) == {i \in DOMAIN sent : sent[i].type = type}
LastReport ==
  IF Sent("HashReport")
  THEN LET i == CHOOSE i \in Frames("HashReport") : \A j \in Frames("HashReport") : j <= i
       IN  sent[i].frame
  ELSE 0
Phase ==
  CASE Sent("Fault")                      -> "faulted"
    [] ~Sent("Fault") /\ pc = "exited"    -> "stopped"
    [] ~Sent("Fault") /\ pc # "exited" /\ marks > 0 -> "running"
    [] OTHER -> IF Sent("Ready") THEN "ready" ELSE "booting"

Lifecycle == INSTANCE HarnessLifecycle
               WITH phase <- Phase, frame <- marks, reported <- LastReport

\* The detailed process implements the contract.
ImplementsLifecycle == Lifecycle!Spec
=============================================================================

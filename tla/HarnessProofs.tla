--------------------------- MODULE HarnessProofs ---------------------------
(* Theorems about Harness, for every value of its constants.               *)
EXTENDS Harness, NaturalsInduction, WellFoundedInduction, SequenceTheorems, TLAPS

-----------------------------------------------------------------------------
(* Induction in the form the provers can use: on a set of numbers instead  *)
(* of a predicate, from the well-foundedness of <.                         *)

\* A set of naturals that is not empty has a least element.
LEMMA Least ==
  ASSUME NEW T \in SUBSET Nat, T # {}
  PROVE  \E x \in T : \A y \in T : x <= y
<1> DEFINE R == OpToRel(<, Nat)
<1>1. R = {ss \in Nat \X Nat : ss[1] < ss[2]}
  BY Zenon DEF OpToRel
<1>2. IsWellFoundedOn(R, Nat)
  BY NatLessThanWellFounded
<1> HIDE DEF R
<1>3. PICK x \in T : \A y \in T : <<y, x>> \notin R
  BY <1>2, WFMin
<1>4. ASSUME NEW y \in T, y < x PROVE FALSE
  <2>1. <<y, x>> \in Nat \X Nat
    OBVIOUS
  <2>2. QED
    BY <1>1, <1>3, <1>4, <2>1
<1>5. QED
  BY <1>4

\* A bounded set of naturals that is not empty has a greatest element.
LEMMA Greatest ==
  ASSUME NEW n \in Nat, NEW T \in SUBSET (0..n), T # {}
  PROVE  \E x \in T : \A y \in T : y <= x
<1> DEFINE U == {k \in Nat : \A y \in T : y <= k}
<1>1. U \in SUBSET Nat /\ n \in U
  OBVIOUS
<1>2. PICK x \in U : \A y \in U : x <= y
  <2> HIDE DEF U
  <2>1. QED
    BY <1>1, Least
<1>3. x \in T
  <2> SUFFICES ASSUME x \notin T PROVE FALSE
    OBVIOUS
  <2>1. PICK y \in T : TRUE
    OBVIOUS
  <2>2. y <= x /\ y # x /\ y \in Nat
    BY <1>2, <2>1
  <2>3. x - 1 \in U
    BY <1>2, <2>2
  <2>4. QED
    BY <1>2, <2>3
<1>4. QED
  BY <1>2, <1>3

-----------------------------------------------------------------------------
USE HarnessAssumption DEF HarnessAssumption

-----------------------------------------------------------------------------
(* What the transport operators leave well typed.                          *)

LEMMA ReceiveKeepsType ==
  ASSUME LinkTypeOK, NEW kinds, Receive(kinds) PROVE LinkTypeOK'
  BY HeadTailProperties DEF LinkTypeOK, Receive

LEMMA ReceiveFailsKeepsType ==
  ASSUME LinkTypeOK, ReceiveFails PROVE LinkTypeOK'
  BY HeadTailProperties DEF LinkTypeOK, ReceiveFails, link

LEMMA SendKeepsType ==
  ASSUME LinkTypeOK, NEW msg \in Messages, Send(msg) PROVE LinkTypeOK'
  BY AppendProperties DEF LinkTypeOK, Send

LEMMA LinkUnchanged ==
  ASSUME LinkTypeOK, UNCHANGED link PROVE LinkTypeOK'
  BY DEF LinkTypeOK, link

-----------------------------------------------------------------------------
(* The inductive invariant: what is known at each control point.           *)

NotMapped == {"hello", "hello_ack", "load_game", "loading", "prepare"}
SetupMapped == {"publish", "game_loaded", "announce", "start", "activate"}
Marking == {"meta_frame", "meta_pad", "meta_status", "mark"}
FaultLabels == {"fault_frame", "fault_code", "fault_status", "fault_send"}

ReadyPage == [status |-> "Ready", frame |-> 0, pad |-> 0, code |-> 0]
RunningPage == [status |-> "Running", frame |-> core.frame, pad |-> core.pad, code |-> 0]
LivePage == meta.code = 0 /\ meta.status \in {"Ready", "Running"}
FaultPage == meta.status = "Faulted" /\ meta.code = CodeValue(fault.code)
               /\ meta.frame = fault.frame

\* The counters, the framebuffer and WRAM along one turn of the frame loop.
EmuState ==
  /\ pc \in NotMapped \union SetupMapped => core.frame = 0 /\ marks = 0 /\ framebuffer = 0
  /\ pc \in {"poll", "run"} => marks = core.frame /\ framebuffer = core.frame
  /\ pc = "blit" => marks + 1 = core.frame
  /\ pc \in Marking => marks + 1 = core.frame /\ framebuffer = core.frame
  /\ AtMark => marks = core.frame /\ framebuffer = core.frame /\ marks > 0
  /\ pc \in Marking \union {"blit", "boundary", "report"} =>
       core.wram = core.frame /\ core.pad = pad

\* The meta page between the stores that fill it.
MetaState ==
  /\ pc \in NotMapped => meta.status = "Unmapped"
  /\ pc \in SetupMapped => meta = ReadyPage
  /\ pc \in {"poll", "run", "blit", "meta_frame"} =>
       LivePage /\ (marks = 0 => meta = ReadyPage)
  /\ pc = "meta_pad" => LivePage /\ meta.frame = core.frame
  /\ pc = "meta_status" => LivePage /\ meta.frame = core.frame /\ meta.pad = core.pad
  /\ pc \in {"mark", "boundary", "report"} => meta = RunningPage

\* The fault path.
FaultState ==
  /\ pc \in FaultLabels => fault.frame = core.frame
  /\ pc \in {"fault_frame", "fault_code", "fault_status"} =>
       meta.status \in {"Ready", "Running"}
  /\ pc \in {"fault_code", "fault_status"} => meta.frame = fault.frame
  /\ pc = "fault_status" => meta.code = CodeValue(fault.code)
  /\ pc = "fault_send" => meta.status = "Unmapped" \/ FaultPage
  /\ meta.status = "Faulted" => pc \in {"fault_send", "exited"} /\ FaultPage

\* The Fault among the messages sent.
FaultSent(msg) ==
  /\ pc = "exited"
  /\ msg.frame = core.frame
  /\ \/ meta.status = "Unmapped"
     \/ meta.status = "Faulted" /\ meta.code = msg.code /\ meta.frame = msg.frame

\* The reports among the messages sent.
ReportSent(msg) ==
  /\ msg.wram = msg.frame /\ msg.fb = msg.frame /\ msg.frame \in 1..marks
  /\ AtMark => msg.frame < marks

SentState ==
  \A i \in 1..Len(sent) :
    /\ sent[i].type = "Fault" => FaultSent(sent[i])
    /\ sent[i].type = "HashReport" => ReportSent(sent[i])

ReportOrder ==
  \A i, j \in 1..Len(sent) :
    (j < i /\ sent[i].type = "HashReport" /\ sent[j].type = "HashReport")
      => sent[j].frame < sent[i].frame

IInv == TypeOK /\ EmuState /\ MetaState /\ FaultState /\ SentState /\ ReportOrder

-----------------------------------------------------------------------------
(* Type correctness.                                                       *)

LEMMA TypeOKParts == TypeOK <=> LinkTypeOK /\ ControlTypeOK /\ DataTypeOK
  BY DEF TypeOK

LEMMA NextTypeOK == LinkTypeOK' /\ ControlTypeOK' /\ DataTypeOK' => TypeOK'
  BY DEF TypeOK

LEMMA InitTypeOK == Init => TypeOK
<1> SUFFICES ASSUME Init PROVE LinkTypeOK /\ ControlTypeOK /\ DataTypeOK
  BY TypeOKParts
<1>1. LinkTypeOK
  BY DEF Init, LinkTypeOK
<1>2. ControlTypeOK
  <2>1. config \in Configs /\ manifest \in Manifests
    BY DEF Init, Configs, Manifests
  <2>2. QED
    BY <2>1 DEF Init, ControlTypeOK, Labels
<1>3. DataTypeOK
  <2>1. meta \in MetaPages /\ core \in Cores /\ fault \in Faults
    BY DEF Init, MetaPages, Cores, Faults, FaultCodes, NoFault, Statuses, PadWords, Codes
  <2>2. QED
    BY <2>1 DEF Init, DataTypeOK, PadWords
<1>4. QED
  BY <1>1, <1>2, <1>3

LEMMA CodeValueType == \A code \in FaultCodes : CodeValue(code) \in Codes
  BY DEF FaultCodes, CodeValue, Codes

LEMMA MaskedRange == \A word \in Nat : Masked(word) \in PadWords
  BY DEF Masked, PadWords

LEMMA PlainMessages == \A type \in MessageTypes : Plain(type) \in Messages
  BY DEF Plain, Messages, Codes

LEMMA ReportMessage ==
  ASSUME NEW f \in Nat, NEW w \in Int, NEW b \in Nat
  PROVE  HashReport(f, w, b) \in Messages
  BY DEF HashReport, Messages, MessageTypes, Codes

LEMMA FaultMessage ==
  ASSUME NEW f \in Nat, NEW code \in FaultCodes
  PROVE  FaultMsg(f, code) \in Messages
  BY CodeValueType DEF FaultMsg, Messages, MessageTypes

LEMMA ProcessKeepsLinkType == LinkTypeOK /\ DataTypeOK /\ Process => LinkTypeOK'
<1> SUFFICES ASSUME LinkTypeOK, DataTypeOK, Process PROVE LinkTypeOK'
  OBVIOUS
<1>1. CASE ExpectHello
  BY <1>1, ReceiveKeepsType, ReceiveFailsKeepsType DEF ExpectHello, RejectDatagram
<1>2. CASE SendHelloAck
  BY <1>2, SendKeepsType, LinkUnchanged, PlainMessages DEF SendHelloAck, SetupSend,
      SendFails, MessageTypes
<1>3. CASE ExpectLoadGame
  BY <1>3, ReceiveKeepsType, ReceiveFailsKeepsType DEF ExpectLoadGame, RejectDatagram
<1>4. CASE LoadGame
  BY <1>4, LinkUnchanged DEF LoadGame
<1>5. CASE PrepareRegions
  BY <1>5, LinkUnchanged DEF PrepareRegions
<1>6. CASE RegisterWithAgent
  BY <1>6, LinkUnchanged DEF RegisterWithAgent
<1>7. CASE RegistrationFails
  BY <1>7, LinkUnchanged DEF RegistrationFails
<1>8. CASE PublicationDone
  BY <1>8, LinkUnchanged DEF PublicationDone
<1>9. CASE SendGameLoaded
  BY <1>9, SendKeepsType, LinkUnchanged, PlainMessages DEF SendGameLoaded, SetupSend,
      SendFails, MessageTypes
<1>10. CASE AnnounceRegion
  BY <1>10, SendKeepsType, LinkUnchanged, PlainMessages DEF AnnounceRegion, SetupSend,
      SendFails, MessageTypes
<1>11. CASE SendReady
  BY <1>11, SendKeepsType, LinkUnchanged, PlainMessages DEF SendReady, SetupSend,
      SendFails, MessageTypes
<1>12. CASE ExpectStart
  BY <1>12, ReceiveKeepsType, ReceiveFailsKeepsType DEF ExpectStart, RejectDatagram
<1>13. CASE Activate
  BY <1>13, LinkUnchanged DEF Activate
<1>14. CASE PollInput
  BY <1>14, LinkUnchanged DEF PollInput
<1>15. CASE FrameCompletes
  BY <1>15, LinkUnchanged DEF FrameCompletes
<1>16. CASE FrameFaults
  BY <1>16, LinkUnchanged DEF FrameFaults
<1>17. CASE Blit
  BY <1>17, LinkUnchanged DEF Blit
<1>18. CASE WriteMetaFrame
  BY <1>18, LinkUnchanged DEF WriteMetaFrame
<1>19. CASE WriteMetaPad
  BY <1>19, LinkUnchanged DEF WriteMetaPad
<1>20. CASE WriteMetaStatus
  BY <1>20, LinkUnchanged DEF WriteMetaStatus
<1>21. CASE FrameMark
  BY <1>21, LinkUnchanged DEF FrameMark
<1>22. CASE BoundaryIdle
  BY <1>22, LinkUnchanged DEF BoundaryIdle
<1>23. CASE BoundaryHashRequest
  BY <1>23, ReceiveKeepsType DEF BoundaryHashRequest
<1>24. CASE BoundaryShutdown
  BY <1>24, ReceiveKeepsType DEF BoundaryShutdown
<1>25. CASE BoundaryReject
  BY <1>25, ReceiveKeepsType, ReceiveFailsKeepsType DEF BoundaryReject
<1>26. CASE SendHashReport
  <2>1. HashReport(core.frame, core.wram, framebuffer) \in Messages
    <3>1. core.frame \in Nat /\ core.wram \in Int /\ framebuffer \in Nat
      BY DEF DataTypeOK, Cores, Torn
    <3>2. QED
      BY <3>1, ReportMessage
  <2>2. QED
    BY <1>26, <2>1, SendKeepsType, LinkUnchanged DEF SendHashReport, SendFails
<1>27. CASE WriteFaultFrame
  BY <1>27, LinkUnchanged DEF WriteFaultFrame
<1>28. CASE WriteFaultCode
  BY <1>28, LinkUnchanged DEF WriteFaultCode
<1>29. CASE WriteFaultStatus
  BY <1>29, LinkUnchanged DEF WriteFaultStatus
<1>30. CASE SendFault
  <2>1. FaultMsg(fault.frame, fault.code) \in Messages
    BY FaultMessage DEF DataTypeOK, Faults
  <2>2. QED
    BY <1>30, <2>1, SendKeepsType, LinkUnchanged DEF SendFault, SendFails
<1>31. QED
  BY <1>1, <1>2, <1>3, <1>4, <1>5, <1>6, <1>7, <1>8, <1>9, <1>10, <1>11, <1>12, <1>13,
      <1>14, <1>15, <1>16, <1>17, <1>18, <1>19, <1>20, <1>21, <1>22, <1>23, <1>24,
      <1>25, <1>26, <1>27, <1>28, <1>29, <1>30 DEF Process, Setup, FrameLoop, FaultPath

LEMMA ProcessKeepsControlType == ControlTypeOK /\ Process => ControlTypeOK'
<1> SUFFICES ASSUME ControlTypeOK, Process PROVE ControlTypeOK'
  OBVIOUS
<1> USE DEF ControlTypeOK, Labels
<1>1. CASE ExpectHello
  BY <1>1 DEF ExpectHello, RejectDatagram, Rejects, FaultMarked, FaultUnmarked, Raise,
      Exit, Goto, pages
<1>2. CASE SendHelloAck
  BY <1>2 DEF SendHelloAck, SetupSend, SendFails, Exit, Goto, pages
<1>3. CASE ExpectLoadGame
  BY <1>3 DEF ExpectLoadGame, RejectDatagram, Rejects, FaultMarked, FaultUnmarked,
      Raise, Exit, Goto, pages
<1>4. CASE LoadGame
  BY <1>4 DEF LoadGame, FaultUnmarked, Raise, Goto, pages
<1>5. CASE PrepareRegions
  BY <1>5 DEF PrepareRegions, FaultUnmarked, Raise, Goto
<1>6. CASE RegisterWithAgent
  <2>1. /\ step + 1 \in 1..5
        /\ [manifest EXCEPT ![Required[step]] = "live"]
             \in Manifests
    BY <1>6 DEF RegisterWithAgent, Required, RegionNames, Manifests
  <2>2. QED
    BY <1>6, <2>1 DEF RegisterWithAgent
<1>7. CASE RegistrationFails
  BY <1>7 DEF RegistrationFails, FaultMarked, Raise, Manifests
<1>8. CASE PublicationDone
  BY <1>8 DEF PublicationDone, Goto, pages
<1>9. CASE SendGameLoaded
  BY <1>9 DEF SendGameLoaded, SetupSend, SendFails, Exit, Goto, pages
<1>10. CASE AnnounceRegion
  <2>1. step + 1 \in 1..5
    BY <1>10 DEF AnnounceRegion, Descriptors, Required
  <2>2. QED
    BY <1>10, <2>1 DEF AnnounceRegion, SetupSend, SendFails, Exit, Goto, pages
<1>11. CASE SendReady
  BY <1>11 DEF SendReady, SetupSend, SendFails, Exit, Goto, pages
<1>12. CASE ExpectStart
  BY <1>12 DEF ExpectStart, RejectDatagram, Rejects, FaultMarked, FaultUnmarked, Raise,
      Exit, Goto, pages
<1>13. CASE Activate
  BY <1>13 DEF Activate, Goto, pages
<1>14. CASE PollInput
  BY <1>14 DEF PollInput, Goto, pages
<1>15. CASE FrameCompletes
  BY <1>15 DEF FrameCompletes, Goto, pages
<1>16. CASE FrameFaults
  BY <1>16 DEF FrameFaults, FaultMarked, Raise, pages
<1>17. CASE Blit
  BY <1>17 DEF Blit, Goto
<1>18. CASE WriteMetaFrame
  BY <1>18 DEF WriteMetaFrame, Goto
<1>19. CASE WriteMetaPad
  BY <1>19 DEF WriteMetaPad, Goto
<1>20. CASE WriteMetaStatus
  BY <1>20 DEF WriteMetaStatus, Goto
<1>21. CASE FrameMark
  BY <1>21 DEF FrameMark, Goto, pages
<1>22. CASE BoundaryIdle
  BY <1>22 DEF BoundaryIdle, Goto, pages
<1>23. CASE BoundaryHashRequest
  BY <1>23 DEF BoundaryHashRequest, FaultMarked, Raise, Goto, pages
<1>24. CASE BoundaryShutdown
  BY <1>24 DEF BoundaryShutdown, Exit, pages
<1>25. CASE BoundaryReject
  BY <1>25 DEF BoundaryReject, FaultMarked, Raise, Exit, pages
<1>26. CASE SendHashReport
  BY <1>26 DEF SendHashReport, SendFails, Exit, Goto, pages
<1>27. CASE WriteFaultFrame
  BY <1>27 DEF WriteFaultFrame, Goto
<1>28. CASE WriteFaultCode
  BY <1>28 DEF WriteFaultCode, Goto
<1>29. CASE WriteFaultStatus
  BY <1>29 DEF WriteFaultStatus, Goto
<1>30. CASE SendFault
  BY <1>30 DEF SendFault, SendFails, Exit, pages
<1>31. QED
  BY <1>1, <1>2, <1>3, <1>4, <1>5, <1>6, <1>7, <1>8, <1>9, <1>10, <1>11, <1>12, <1>13,
      <1>14, <1>15, <1>16, <1>17, <1>18, <1>19, <1>20, <1>21, <1>22, <1>23, <1>24,
      <1>25, <1>26, <1>27, <1>28, <1>29, <1>30 DEF Process, Setup, FrameLoop, FaultPath
-----------------------------------------------------------------------------
(* The shapes a step of the process can have, as far as the invariant can  *)
(* tell: the setup steps fall together, the frame loop's keep their names. *)

state == <<meta, framebuffer, core, pad, marks>>

SaysNothing == UNCHANGED sent
SaysPlain ==
  \E type \in {"HelloAck", "GameLoaded", "RegisterRegion", "Ready"} :
    sent' = Append(sent, Plain(type))

BootStep ==
  /\ pc \in NotMapped /\ pc' \in NotMapped
  /\ SaysNothing \/ SaysPlain
  /\ UNCHANGED <<state, fault>>
MapStep ==
  /\ pc = "prepare" /\ pc' = "publish"
  /\ meta' = ReadyPage
  /\ UNCHANGED <<framebuffer, core, pad, marks, fault, sent>>
PublishStep ==
  /\ pc \in SetupMapped /\ pc' \in SetupMapped
  /\ SaysNothing \/ SaysPlain
  /\ UNCHANGED <<state, fault>>
EarlyFault ==
  /\ pc \in NotMapped /\ pc' = "fault_send"
  /\ fault' \in Faults /\ fault'.frame = 0
  /\ UNCHANGED <<state, sent>>
LateFault ==
  /\ pc \in SetupMapped \union {"run", "boundary"} /\ pc' = "fault_frame"
  /\ fault' \in Faults
  /\ fault'.frame = IF pc \in SetupMapped THEN 0 ELSE core.frame
  /\ UNCHANGED <<state, sent>>
GiveUp ==
  /\ pc # "exited" /\ pc' = "exited"
  /\ UNCHANGED <<state, fault, sent>>
NextTurn ==
  /\ pc = "boundary" /\ pc' \in {"poll", "report"}
  /\ UNCHANGED <<state, fault, sent>>
ReportStep ==
  /\ pc = "report" /\ pc' = "poll"
  /\ sent' = Append(sent, HashReport(core.frame, core.wram, framebuffer))
  /\ UNCHANGED <<state, fault>>
FaultStep ==
  /\ pc = "fault_send" /\ pc' = "exited"
  /\ sent' = Append(sent, FaultMsg(fault.frame, fault.code))
  /\ UNCHANGED <<state, fault>>

SetupShape == BootStep \/ MapStep \/ PublishStep \/ EarlyFault \/ LateFault \/ GiveUp
LoopShape == NextTurn \/ ReportStep \/ FaultStep
Silent ==
  \/ Activate \/ PollInput \/ FrameCompletes \/ Blit \/ WriteMetaFrame
  \/ WriteMetaPad \/ WriteMetaStatus \/ FrameMark
  \/ WriteFaultFrame \/ WriteFaultCode \/ WriteFaultStatus

LEMMA Shapes == DataTypeOK /\ Process => SetupShape \/ LoopShape \/ Silent
<1> SUFFICES ASSUME core.frame \in Nat, Process PROVE SetupShape \/ LoopShape \/ Silent
  BY DEF DataTypeOK, Cores
<1>1. CASE ExpectHello
  BY <1>1 DEF ExpectHello, RejectDatagram, Rejects, FaultMarked, FaultUnmarked, Raise,
      Exit, Goto, pages, frames, Receive, ReceiveFails, link, state, SetupShape,
      SaysNothing, Faults, FaultCodes, BootStep, EarlyFault, GiveUp, NotMapped
<1>2. CASE SendHelloAck
  BY <1>2 DEF SendHelloAck, SetupSend, SendFails, Exit, Goto, pages, frames, Send, link,
      state, SetupShape, SaysNothing, BootStep, GiveUp, NotMapped, SaysPlain
<1>3. CASE ExpectLoadGame
  BY <1>3 DEF ExpectLoadGame, RejectDatagram, Rejects, FaultMarked, FaultUnmarked,
      Raise, Exit, Goto, pages, frames, Receive, ReceiveFails, link, state, SetupShape,
      SaysNothing, Faults, FaultCodes, BootStep, EarlyFault, GiveUp, NotMapped
<1>4. CASE LoadGame
  BY <1>4 DEF LoadGame, FaultUnmarked, Raise, Goto, pages, frames, link, state,
      SetupShape, SaysNothing, Faults, FaultCodes, BootStep, EarlyFault, NotMapped
<1>5. CASE PrepareRegions
  BY <1>5 DEF PrepareRegions, FaultUnmarked, Raise, Goto, frames, link, state,
      SetupShape, Faults, FaultCodes, MapStep, EarlyFault, NotMapped, ReadyPage
<1>6. CASE RegisterWithAgent
  BY <1>6 DEF RegisterWithAgent, frames, link, state, SetupShape, SaysNothing,
      PublishStep, SetupMapped
<1>7. CASE RegistrationFails
  BY <1>7 DEF RegistrationFails, FaultMarked, Raise, frames, link, state, SetupShape,
      Faults, FaultCodes, LateFault, SetupMapped
<1>8. CASE PublicationDone
  BY <1>8 DEF PublicationDone, Goto, pages, frames, link, state, SetupShape,
      SaysNothing, PublishStep, SetupMapped
<1>9. CASE SendGameLoaded
  BY <1>9 DEF SendGameLoaded, SetupSend, SendFails, Exit, Goto, pages, frames, Send,
      link, state, SetupShape, SaysNothing, PublishStep, GiveUp, SetupMapped, SaysPlain
<1>10. CASE AnnounceRegion
  BY <1>10 DEF AnnounceRegion, SetupSend, SendFails, Exit, Goto, pages, frames, Send,
      link, state, SetupShape, SaysNothing, PublishStep, GiveUp, SetupMapped, SaysPlain
<1>11. CASE SendReady
  BY <1>11 DEF SendReady, SetupSend, SendFails, Exit, Goto, pages, frames, Send, link,
      state, SetupShape, SaysNothing, PublishStep, GiveUp, SetupMapped, SaysPlain
<1>12. CASE ExpectStart
  BY <1>12 DEF ExpectStart, RejectDatagram, Rejects, FaultMarked, FaultUnmarked, Raise,
      Exit, Goto, pages, frames, Receive, ReceiveFails, link, state, SetupShape,
      SaysNothing, Faults, FaultCodes, PublishStep, LateFault, GiveUp, SetupMapped
<1>13. CASE FrameFaults
  BY <1>13 DEF FrameFaults, FaultMarked, Raise, pages, frames, link, state, SetupShape,
      Faults, FaultCodes, LateFault, SetupMapped
<1>14. CASE BoundaryIdle
  BY <1>14 DEF BoundaryIdle, Goto, pages, frames, link, state, LoopShape, NextTurn
<1>15. CASE BoundaryHashRequest
  BY <1>15 DEF BoundaryHashRequest, FaultMarked, Raise, Goto, pages, frames, Receive,
      state, SetupShape, Faults, FaultCodes, LoopShape, NextTurn, LateFault, SetupMapped
<1>16. CASE BoundaryShutdown
  BY <1>16 DEF BoundaryShutdown, Exit, pages, frames, Receive, state, SetupShape, GiveUp
<1>17. CASE BoundaryReject
  BY <1>17 DEF BoundaryReject, FaultMarked, Raise, Exit, pages, frames, Receive,
      ReceiveFails, link, state, SetupShape, Faults, FaultCodes, LateFault, GiveUp,
      SetupMapped
<1>18. CASE SendHashReport
  BY <1>18 DEF SendHashReport, SendFails, Exit, Goto, pages, frames, Send, link, state,
      SetupShape, LoopShape, ReportStep, GiveUp
<1>19. CASE SendFault
  BY <1>19 DEF SendFault, SendFails, Exit, pages, frames, Send, link, state, SetupShape,
      LoopShape, FaultStep, GiveUp
<1>20. QED
  BY <1>1, <1>2, <1>3, <1>4, <1>5, <1>6, <1>7, <1>8, <1>9, <1>10, <1>11, <1>12, <1>13,
      <1>14, <1>15, <1>16, <1>17, <1>18, <1>19 DEF Process, Setup, FrameLoop, FaultPath,
      Silent

LEMMA DataUnchanged ==
  ASSUME DataTypeOK, UNCHANGED state, fault' \in Faults PROVE DataTypeOK'
  BY DEF DataTypeOK, state

\* The silent steps field by field: a store changes one field of the page, and the mask
\* on the way into it changes nothing, for pad is masked already.
Page(status, frame, pd, code) ==
  [status |-> status, frame |-> frame, pad |-> pd, code |-> code]
Turn(from, to) == pc = from /\ pc' = to /\ fault' = fault

ActivateTurn ==
  /\ Turn("activate", "poll")
  /\ UNCHANGED <<meta, framebuffer, core, pad, marks>>
PollInputTurn ==
  /\ Turn("poll", "run")
  /\ core' = [frame |-> core.frame, wram |-> Torn, pad |-> core.pad]
  /\ pad' = Masked(latch)
  /\ UNCHANGED <<meta, framebuffer, marks>>
FrameCompletesTurn ==
  /\ Turn("run", "blit")
  /\ core' = [frame |-> core.frame + 1, wram |-> core.frame + 1, pad |-> pad]
  /\ UNCHANGED <<meta, framebuffer, pad, marks>>
BlitTurn ==
  /\ Turn("blit", "meta_frame")
  /\ framebuffer' = core.frame
  /\ UNCHANGED <<meta, core, pad, marks>>
WriteMetaFrameTurn ==
  /\ Turn("meta_frame", "meta_pad")
  /\ meta' = Page(meta.status, core.frame, meta.pad, meta.code)
  /\ UNCHANGED <<framebuffer, core, pad, marks>>
WriteMetaPadTurn ==
  /\ Turn("meta_pad", "meta_status")
  /\ meta' = Page(meta.status, meta.frame, pad, meta.code)
  /\ UNCHANGED <<framebuffer, core, pad, marks>>
WriteMetaStatusTurn ==
  /\ Turn("meta_status", "mark")
  /\ meta' = Page("Running", meta.frame, meta.pad, meta.code)
  /\ UNCHANGED <<framebuffer, core, pad, marks>>
FrameMarkTurn ==
  /\ Turn("mark", "boundary")
  /\ marks' = marks + 1
  /\ UNCHANGED <<meta, framebuffer, core, pad>>
WriteFaultFrameTurn ==
  /\ Turn("fault_frame", "fault_code")
  /\ meta' = Page(meta.status, fault.frame, meta.pad, meta.code)
  /\ UNCHANGED <<framebuffer, core, pad, marks>>
WriteFaultCodeTurn ==
  /\ Turn("fault_code", "fault_status")
  /\ meta' = Page(meta.status, meta.frame, meta.pad, CodeValue(fault.code))
  /\ UNCHANGED <<framebuffer, core, pad, marks>>
WriteFaultStatusTurn ==
  /\ Turn("fault_status", "fault_send")
  /\ meta' = Page("Faulted", meta.frame, meta.pad, meta.code)
  /\ UNCHANGED <<framebuffer, core, pad, marks>>
Turns ==
  \/ ActivateTurn \/ PollInputTurn \/ FrameCompletesTurn
  \/ BlitTurn \/ WriteMetaFrameTurn \/ WriteMetaPadTurn
  \/ WriteMetaStatusTurn \/ FrameMarkTurn
  \/ WriteFaultFrameTurn \/ WriteFaultCodeTurn \/ WriteFaultStatusTurn

LEMMA Fields ==
  ASSUME DataTypeOK
  PROVE  /\ meta.status \in Statuses /\ meta.frame \in Nat
         /\ meta.pad \in PadWords /\ meta.code \in Codes
         /\ core.frame \in Nat /\ core.pad \in PadWords
         /\ fault.frame \in Nat /\ fault.code \in FaultCodes
<1>1. /\ meta.status \in Statuses /\ meta.frame \in Nat
      /\ meta.pad \in PadWords /\ meta.code \in Codes
  BY DEF DataTypeOK, MetaPages
<1>2. core.frame \in Nat /\ core.pad \in PadWords
  BY DEF DataTypeOK, Cores
<1>3. fault.frame \in Nat /\ fault.code \in FaultCodes
  BY DEF DataTypeOK, Faults
<1>4. QED
  BY <1>1, <1>2, <1>3

LEMMA PageFields ==
  ASSUME DataTypeOK
  PROVE  /\ meta = Page(meta.status, meta.frame, meta.pad, meta.code)
         /\ pad % 4096 = pad
<1>1. meta \in MetaPages /\ pad \in 0..4095
  BY DEF DataTypeOK, PadWords
<1>2. meta = Page(meta.status, meta.frame, meta.pad, meta.code)
  BY <1>1 DEF MetaPages, Page
<1>3. QED
  BY <1>1, <1>2

LEMMA SilentTurns == DataTypeOK /\ Silent => Turns
<1> SUFFICES ASSUME DataTypeOK, Silent PROVE Turns
  OBVIOUS
<1>0. /\ meta = Page(meta.status, meta.frame, meta.pad, meta.code)
      /\ pad % 4096 = pad
  BY PageFields
<1>1. CASE Activate
  BY <1>1 DEF Activate, ActivateTurn, Turns, Turn, Goto, pages, frames
<1>2. CASE PollInput
  <2>1. core' = [core EXCEPT !.wram = Torn] /\ core \in Cores
    BY <1>2 DEF PollInput, DataTypeOK
  <2>2. core' = [frame |-> core.frame, wram |-> Torn, pad |-> core.pad]
    BY <2>1 DEF Cores
  <2>3. QED
    BY <1>2, <2>2 DEF PollInput, PollInputTurn, Turns, Turn, Goto, pages
<1>3. CASE FrameCompletes
  BY <1>3 DEF FrameCompletes, FrameCompletesTurn, Turns, Turn, Goto, pages
<1>4. CASE Blit
  BY <1>4 DEF Blit, BlitTurn, Turns, Turn, Goto, frames
<1>5. CASE WriteMetaFrame
  <2> DEFINE v == core.frame
  <2>1. meta' = [meta EXCEPT !.frame = v]
    BY <1>5 DEF WriteMetaFrame
  <2> HIDE DEF v
  <2>2. meta' = Page(meta.status, v, meta.pad, meta.code)
    BY <1>0, <2>1 DEF Page
  <2>3. QED
    BY <1>5, <2>2 DEF v, WriteMetaFrame, WriteMetaFrameTurn, Turns, Turn, Goto, frames
<1>6. CASE WriteMetaPad
  <2> DEFINE v == pad
  <2>1. meta' = [meta EXCEPT !.pad = v]
    BY <1>6, <1>0 DEF WriteMetaPad, Masked
  <2> HIDE DEF v
  <2>2. meta' = Page(meta.status, meta.frame, v, meta.code)
    BY <1>0, <2>1 DEF Page
  <2>3. QED
    BY <1>6, <2>2 DEF v, WriteMetaPad, WriteMetaPadTurn, Turns, Turn, Goto, frames
<1>7. CASE WriteMetaStatus
  <2> DEFINE v == "Running"
  <2>1. meta' = [meta EXCEPT !.status = v]
    BY <1>7 DEF WriteMetaStatus
  <2> HIDE DEF v
  <2>2. meta' = Page(v, meta.frame, meta.pad, meta.code)
    BY <1>0, <2>1 DEF Page
  <2>3. QED
    BY <1>7, <2>2 DEF v, WriteMetaStatus, WriteMetaStatusTurn, Turns, Turn, Goto, frames
<1>8. CASE FrameMark
  BY <1>8 DEF FrameMark, FrameMarkTurn, Turns, Turn, Goto, pages
<1>9. CASE WriteFaultFrame
  <2> DEFINE v == fault.frame
  <2>1. meta' = [meta EXCEPT !.frame = v]
    BY <1>9 DEF WriteFaultFrame
  <2> HIDE DEF v
  <2>2. meta' = Page(meta.status, v, meta.pad, meta.code)
    BY <1>0, <2>1 DEF Page
  <2>3. QED
    BY <1>9, <2>2 DEF v, WriteFaultFrame, WriteFaultFrameTurn, Turns, Turn, Goto, frames
<1>10. CASE WriteFaultCode
  <2> DEFINE v == CodeValue(fault.code)
  <2>1. meta' = [meta EXCEPT !.code = v]
    BY <1>10 DEF WriteFaultCode
  <2> HIDE DEF v
  <2>2. meta' = Page(meta.status, meta.frame, meta.pad, v)
    BY <1>0, <2>1 DEF Page
  <2>3. QED
    BY <1>10, <2>2 DEF v, WriteFaultCode, WriteFaultCodeTurn, Turns, Turn, Goto, frames
<1>11. CASE WriteFaultStatus
  <2> DEFINE v == "Faulted"
  <2>1. meta' = [meta EXCEPT !.status = v]
    BY <1>11 DEF WriteFaultStatus
  <2> HIDE DEF v
  <2>2. meta' = Page(v, meta.frame, meta.pad, meta.code)
    BY <1>0, <2>1 DEF Page
  <2>3. QED
    BY <1>11, <2>2 DEF v, WriteFaultStatus, WriteFaultStatusTurn, Turns, Turn, Goto, frames
<1>12. QED
  BY <1>1, <1>2, <1>3, <1>4, <1>5, <1>6, <1>7, <1>8, <1>9, <1>10, <1>11 DEF Silent

LEMMA ProcessKeepsDataType == DataTypeOK /\ latch \in Pads /\ Process => DataTypeOK'
<1> SUFFICES ASSUME DataTypeOK, latch \in Pads, Process PROVE DataTypeOK'
  OBVIOUS
<1>1. CASE MapStep
  <2>1. ReadyPage \in MetaPages
    BY DEF ReadyPage, MetaPages, Statuses, PadWords, Codes
  <2>2. QED
    BY <1>1, <2>1 DEF MapStep, DataTypeOK
<1>2. CASE BootStep \/ PublishStep \/ GiveUp \/ LoopShape
  BY <1>2, DataUnchanged DEF BootStep, PublishStep, GiveUp, LoopShape, NextTurn, ReportStep,
      FaultStep, DataTypeOK, state
<1>3. CASE EarlyFault \/ LateFault
  BY <1>3, DataUnchanged DEF EarlyFault, LateFault, state
<1>4. CASE PollInputTurn \/ FrameCompletesTurn
  <2>1. core' \in Cores
    BY <1>4, Fields DEF PollInputTurn, FrameCompletesTurn, Cores, DataTypeOK
  <2>2. pad' \in PadWords
    <3>1. latch \in Nat
      BY HarnessAssumption
    <3>2. Masked(latch) \in PadWords
      BY <3>1, MaskedRange
    <3>3. QED
      BY <1>4, <3>2 DEF PollInputTurn, FrameCompletesTurn, DataTypeOK
  <2>3. QED
    BY <1>4, <2>1, <2>2 DEF PollInputTurn, FrameCompletesTurn, Turn, DataTypeOK
<1>5. CASE ActivateTurn \/ BlitTurn \/ FrameMarkTurn
  <2>1. CASE ActivateTurn
    BY <2>1 DEF ActivateTurn, Turn, DataTypeOK
  <2>2. CASE BlitTurn
    BY <2>2, Fields DEF BlitTurn, Turn, DataTypeOK
  <2>3. CASE FrameMarkTurn
    BY <2>3, Fields DEF FrameMarkTurn, Turn, DataTypeOK
  <2>4. QED
    BY <1>5, <2>1, <2>2, <2>3
<1>6. CASE \/ WriteMetaFrameTurn \/ WriteMetaPadTurn \/ WriteMetaStatusTurn
           \/ WriteFaultFrameTurn \/ WriteFaultCodeTurn \/ WriteFaultStatusTurn
  <2>1. meta' \in MetaPages
    <3>1. CASE WriteMetaFrameTurn
      BY <3>1, Fields DEF WriteMetaFrameTurn, Page, MetaPages
    <3>2. CASE WriteMetaPadTurn
      BY <3>2, Fields DEF WriteMetaPadTurn, Page, MetaPages, DataTypeOK
    <3>3. CASE WriteMetaStatusTurn
      BY <3>3, Fields DEF WriteMetaStatusTurn, Page, MetaPages, Statuses
    <3>4. CASE WriteFaultFrameTurn
      BY <3>4, Fields DEF WriteFaultFrameTurn, Page, MetaPages
    <3>5. CASE WriteFaultCodeTurn
      BY <3>5, Fields, CodeValueType DEF WriteFaultCodeTurn, Page, MetaPages
    <3>6. CASE WriteFaultStatusTurn
      BY <3>6, Fields DEF WriteFaultStatusTurn, Page, MetaPages, Statuses
    <3>7. QED
      BY <1>6, <3>1, <3>2, <3>3, <3>4, <3>5, <3>6
  <2>2. UNCHANGED <<framebuffer, core, pad, marks, fault>>
    BY <1>6 DEF WriteMetaFrameTurn, WriteMetaPadTurn, WriteMetaStatusTurn,
       WriteFaultFrameTurn, WriteFaultCodeTurn, WriteFaultStatusTurn, Turn
  <2>3. QED
    BY <2>1, <2>2 DEF DataTypeOK
<1>7. QED
  BY Shapes, SilentTurns, <1>1, <1>2, <1>3, <1>4, <1>5, <1>6 DEF SetupShape, Turns

LEMMA ProcessKeepsType == TypeOK /\ Process => TypeOK'
<1>1. TypeOK => LinkTypeOK /\ ControlTypeOK /\ DataTypeOK /\ latch \in Pads
  BY TypeOKParts DEF ControlTypeOK
<1>2. QED
  BY <1>1, NextTypeOK, ProcessKeepsLinkType, ProcessKeepsControlType, ProcessKeepsDataType

LEMMA EnvironmentKeepsType == TypeOK /\ Environment => TypeOK'
<1> SUFFICES ASSUME LinkTypeOK, ControlTypeOK, DataTypeOK, Environment
             PROVE  LinkTypeOK' /\ ControlTypeOK' /\ DataTypeOK'
  BY TypeOKParts, NextTypeOK
<1>1. ASSUME NEW kind \in DatagramKinds, NEW f \in Nat, AgentSends(kind, f)
      PROVE  LinkTypeOK' /\ ControlTypeOK' /\ DataTypeOK'
  <2>1. [kind |-> kind, frame |-> f, due |-> NextBoundary + Len(queue)] \in Datagrams
    BY LenProperties DEF LinkTypeOK, DataTypeOK, Cores, Datagrams, NextBoundary
  <2>2. queue' \in Seq(Datagrams)
    BY <1>1, <2>1, AppendProperties DEF LinkTypeOK, AgentSends
  <2>3. LinkTypeOK'
    BY <1>1, <2>2 DEF LinkTypeOK, AgentSends
  <2>4. ControlTypeOK' /\ DataTypeOK'
    BY <1>1 DEF ControlTypeOK, DataTypeOK, AgentSends, pages, frames
  <2>5. QED
    BY <2>3, <2>4
<1>2. CASE AgentReads
  BY <1>2 DEF LinkTypeOK, ControlTypeOK, DataTypeOK, AgentReads, pages, frames
<1>3. CASE AgentCloses
  BY <1>3 DEF LinkTypeOK, ControlTypeOK, DataTypeOK, AgentCloses, pages, frames
<1>4. ASSUME NEW p \in Pads, HostSetsPad(p)
      PROVE  LinkTypeOK' /\ ControlTypeOK' /\ DataTypeOK'
  BY <1>4 DEF LinkTypeOK, ControlTypeOK, DataTypeOK, HostSetsPad, link, pages, frames
<1>5. CASE \E kind \in DatagramKinds \ {"HashRequest"} : AgentSends(kind, 0)
  BY <1>1, <1>5
<1>6. CASE \E f \in 0..MaxFrames : AgentSends("HashRequest", f)
  BY <1>1, <1>6 DEF DatagramKinds
<1>7. QED
  BY <1>2, <1>3, <1>4, <1>5, <1>6 DEF Environment

LEMMA StutterKeepsType == TypeOK /\ UNCHANGED vars => TypeOK'
<1>1. LinkTypeOK /\ ControlTypeOK /\ DataTypeOK /\ UNCHANGED vars
        => LinkTypeOK' /\ ControlTypeOK' /\ DataTypeOK'
  BY DEF LinkTypeOK, ControlTypeOK, DataTypeOK, vars
<1>2. QED
  BY <1>1, NextTypeOK, TypeOKParts

\* Every variable keeps its shape in every behaviour of the harness.
THEOREM TypeCorrect == Spec => []TypeOK
<1>1. TypeOK /\ [Next]_vars => TypeOK'
  BY ProcessKeepsType, EnvironmentKeepsType, StutterKeepsType DEF Next
<1>2. QED
  BY InitTypeOK, <1>1, PTL DEF Spec

-----------------------------------------------------------------------------
(* The invariant holds initially and every step preserves it.              *)

LEMMA InitIInv == Init => IInv
<1> SUFFICES ASSUME Init PROVE IInv
  OBVIOUS
<1>1. TypeOK
  BY InitTypeOK
<1>2. EmuState /\ MetaState /\ FaultState
  BY DEF Init, EmuState, MetaState, FaultState, NotMapped, SetupMapped, Marking,
         FaultLabels, AtMark, ReadyPage, RunningPage, LivePage, FaultPage
<1>3. SentState /\ ReportOrder
  BY DEF Init, SentState, ReportOrder
<1>4. QED
  BY <1>1, <1>2, <1>3 DEF IInv

LEMMA ProcessKeepsEmuState == IInv /\ Process => EmuState'
<1> SUFFICES ASSUME /\ core.frame \in Nat /\ marks \in Nat
                    /\ EmuState
                    /\ SetupShape \/ LoopShape \/ Turns
             PROVE  EmuState'
  <2>1. DataTypeOK => core.frame \in Nat /\ marks \in Nat
    BY DEF DataTypeOK, Cores
  <2>2. QED
    BY <2>1, Shapes, SilentTurns, TypeOKParts DEF IInv
<1> USE DEF EmuState, AtMark, NotMapped, SetupMapped, Marking
<1>1. CASE BootStep
  BY <1>1 DEF BootStep, state
<1>2. CASE MapStep
  BY <1>2 DEF MapStep
<1>3. CASE PublishStep
  BY <1>3 DEF PublishStep, state
<1>4. CASE EarlyFault
  BY <1>4 DEF EarlyFault, state
<1>5. CASE LateFault
  BY <1>5 DEF LateFault, state
<1>6. CASE GiveUp
  BY <1>6 DEF GiveUp, state
<1>7. CASE NextTurn
  BY <1>7 DEF NextTurn, state
<1>8. CASE ReportStep
  BY <1>8 DEF ReportStep, state
<1>9. CASE FaultStep
  BY <1>9 DEF FaultStep, state
<1>10. CASE ActivateTurn
  BY <1>10 DEF ActivateTurn, Turn, Page
<1>11. CASE PollInputTurn
  BY <1>11 DEF PollInputTurn, Turn, Page
<1>12. CASE FrameCompletesTurn
  BY <1>12 DEF FrameCompletesTurn, Turn, Page
<1>13. CASE BlitTurn
  BY <1>13 DEF BlitTurn, Turn, Page
<1>14. CASE WriteMetaFrameTurn
  BY <1>14 DEF WriteMetaFrameTurn, Turn, Page
<1>15. CASE WriteMetaPadTurn
  BY <1>15 DEF WriteMetaPadTurn, Turn, Page
<1>16. CASE WriteMetaStatusTurn
  BY <1>16 DEF WriteMetaStatusTurn, Turn, Page
<1>17. CASE FrameMarkTurn
  BY <1>17 DEF FrameMarkTurn, Turn, Page
<1>18. CASE WriteFaultFrameTurn
  BY <1>18 DEF WriteFaultFrameTurn, Turn, Page
<1>19. CASE WriteFaultCodeTurn
  BY <1>19 DEF WriteFaultCodeTurn, Turn, Page
<1>20. CASE WriteFaultStatusTurn
  BY <1>20 DEF WriteFaultStatusTurn, Turn, Page
<1>21. QED
  BY <1>1, <1>2, <1>3, <1>4, <1>5, <1>6, <1>7, <1>8, <1>9, <1>10, <1>11, <1>12, <1>13,
     <1>14, <1>15, <1>16, <1>17, <1>18, <1>19, <1>20
     DEF SetupShape, LoopShape, Turns

LEMMA ProcessKeepsMetaState == IInv /\ Process => MetaState'
<1> SUFFICES ASSUME /\ core.frame \in Nat /\ marks \in Nat
                    /\ EmuState /\ MetaState
                    /\ SetupShape \/ LoopShape \/ Turns
             PROVE  MetaState'
  <2>1. DataTypeOK => core.frame \in Nat /\ marks \in Nat
    BY DEF DataTypeOK, Cores
  <2>2. QED
    BY <2>1, Shapes, SilentTurns, TypeOKParts DEF IInv
<1> USE DEF EmuState, MetaState, NotMapped, SetupMapped, Marking, AtMark, ReadyPage,
      RunningPage, LivePage
<1>1. CASE BootStep
  BY <1>1 DEF BootStep, state
<1>2. CASE MapStep
  BY <1>2 DEF MapStep
<1>3. CASE PublishStep
  BY <1>3 DEF PublishStep, state
<1>4. CASE EarlyFault
  BY <1>4 DEF EarlyFault, state
<1>5. CASE LateFault
  BY <1>5 DEF LateFault, state
<1>6. CASE GiveUp
  BY <1>6 DEF GiveUp, state
<1>7. CASE NextTurn
  BY <1>7 DEF NextTurn, state
<1>8. CASE ReportStep
  BY <1>8 DEF ReportStep, state
<1>9. CASE FaultStep
  BY <1>9 DEF FaultStep, state
<1>10. CASE ActivateTurn
  BY <1>10 DEF ActivateTurn, Turn, Page
<1>11. CASE PollInputTurn
  BY <1>11 DEF PollInputTurn, Turn, Page
<1>12. CASE FrameCompletesTurn
  BY <1>12 DEF FrameCompletesTurn, Turn, Page
<1>13. CASE BlitTurn
  BY <1>13 DEF BlitTurn, Turn, Page
<1>14. CASE WriteMetaFrameTurn
  BY <1>14 DEF WriteMetaFrameTurn, Turn, Page
<1>15. CASE WriteMetaPadTurn
  BY <1>15 DEF WriteMetaPadTurn, Turn, Page
<1>16. CASE WriteMetaStatusTurn
  BY <1>16 DEF WriteMetaStatusTurn, Turn, Page
<1>17. CASE FrameMarkTurn
  BY <1>17 DEF FrameMarkTurn, Turn, Page
<1>18. CASE WriteFaultFrameTurn
  BY <1>18 DEF WriteFaultFrameTurn, Turn, Page
<1>19. CASE WriteFaultCodeTurn
  BY <1>19 DEF WriteFaultCodeTurn, Turn, Page
<1>20. CASE WriteFaultStatusTurn
  BY <1>20 DEF WriteFaultStatusTurn, Turn, Page
<1>21. QED
  BY <1>1, <1>2, <1>3, <1>4, <1>5, <1>6, <1>7, <1>8, <1>9, <1>10, <1>11, <1>12, <1>13,
     <1>14, <1>15, <1>16, <1>17, <1>18, <1>19, <1>20
     DEF SetupShape, LoopShape, Turns

LEMMA ProcessKeepsFaultState == IInv /\ Process => FaultState'
<1> SUFFICES ASSUME /\ core.frame \in Nat /\ marks \in Nat
                    /\ EmuState /\ MetaState /\ FaultState
                    /\ SetupShape \/ LoopShape \/ Turns
             PROVE  FaultState'
  <2>1. DataTypeOK => core.frame \in Nat /\ marks \in Nat
    BY DEF DataTypeOK, Cores
  <2>2. QED
    BY <2>1, Shapes, SilentTurns, TypeOKParts DEF IInv
<1> USE DEF EmuState, MetaState, FaultState, NotMapped, SetupMapped, Marking, FaultLabels,
      AtMark, ReadyPage, RunningPage, LivePage, FaultPage
<1>1. CASE BootStep
  BY <1>1 DEF BootStep, state
<1>2. CASE MapStep
  BY <1>2 DEF MapStep
<1>3. CASE PublishStep
  BY <1>3 DEF PublishStep, state
<1>4. CASE EarlyFault
  BY <1>4 DEF EarlyFault, state
<1>5. CASE LateFault
  BY <1>5 DEF LateFault, state
<1>6. CASE GiveUp
  BY <1>6 DEF GiveUp, state
<1>7. CASE NextTurn
  BY <1>7 DEF NextTurn, state
<1>8. CASE ReportStep
  BY <1>8 DEF ReportStep, state
<1>9. CASE FaultStep
  BY <1>9 DEF FaultStep, state
<1>10. CASE ActivateTurn
  BY <1>10 DEF ActivateTurn, Turn, Page
<1>11. CASE PollInputTurn
  BY <1>11 DEF PollInputTurn, Turn, Page
<1>12. CASE FrameCompletesTurn
  BY <1>12 DEF FrameCompletesTurn, Turn, Page
<1>13. CASE BlitTurn
  BY <1>13 DEF BlitTurn, Turn, Page
<1>14. CASE WriteMetaFrameTurn
  BY <1>14 DEF WriteMetaFrameTurn, Turn, Page
<1>15. CASE WriteMetaPadTurn
  BY <1>15 DEF WriteMetaPadTurn, Turn, Page
<1>16. CASE WriteMetaStatusTurn
  BY <1>16 DEF WriteMetaStatusTurn, Turn, Page
<1>17. CASE FrameMarkTurn
  BY <1>17 DEF FrameMarkTurn, Turn, Page
<1>18. CASE WriteFaultFrameTurn
  BY <1>18 DEF WriteFaultFrameTurn, Turn, Page
<1>19. CASE WriteFaultCodeTurn
  BY <1>19 DEF WriteFaultCodeTurn, Turn, Page
<1>20. CASE WriteFaultStatusTurn
  BY <1>20 DEF WriteFaultStatusTurn, Turn, Page
<1>21. QED
  BY <1>1, <1>2, <1>3, <1>4, <1>5, <1>6, <1>7, <1>8, <1>9, <1>10, <1>11, <1>12, <1>13,
     <1>14, <1>15, <1>16, <1>17, <1>18, <1>19, <1>20
     DEF SetupShape, LoopShape, Turns

LEMMA EnvironmentKeepsStates ==
  IInv /\ (Environment \/ UNCHANGED vars) => (EmuState /\ MetaState /\ FaultState)'
<1> SUFFICES ASSUME EmuState, MetaState, FaultState, Environment \/ UNCHANGED vars
             PROVE  (EmuState /\ MetaState /\ FaultState)'
  BY DEF IInv
<1>1. UNCHANGED <<pc, meta, framebuffer, core, pad, marks, fault>>
  BY DEF Environment, AgentSends, AgentReads, AgentCloses, HostSetsPad, vars, link,
         pages, frames
<1>2. QED
  BY <1>1 DEF EmuState, MetaState, FaultState, NotMapped, SetupMapped, Marking,
              FaultLabels, AtMark, ReadyPage, RunningPage, LivePage, FaultPage

-----------------------------------------------------------------------------
(* What a step does to the messages sent.                                  *)

SendsNothing ==
  /\ sent' = sent
  /\ marks' >= marks
  /\ AtMark' => AtMark \/ marks' > marks

LEMMA SendingSteps ==
  IInv /\ Process =>
    /\ pc # "exited"
    /\ SendsNothing \/ (SaysPlain /\ ~AtMark' /\ marks' = marks) \/ ReportStep \/ FaultStep
<1> SUFFICES ASSUME marks \in Nat, SetupShape \/ LoopShape \/ Silent
             PROVE  /\ pc # "exited"
                    /\ \/ SendsNothing
                       \/ SaysPlain /\ ~AtMark' /\ marks' = marks
                       \/ ReportStep \/ FaultStep
  BY Shapes, TypeOKParts DEF IInv, DataTypeOK
<1>1. CASE BootStep \/ PublishStep
  BY <1>1 DEF BootStep, PublishStep, SaysNothing, SendsNothing, AtMark, NotMapped,
      SetupMapped, state
<1>2. CASE MapStep \/ EarlyFault \/ LateFault \/ GiveUp
  BY <1>2 DEF MapStep, EarlyFault, LateFault, GiveUp, SendsNothing, AtMark, NotMapped,
      SetupMapped, state
<1>3. CASE LoopShape
  BY <1>3 DEF LoopShape, NextTurn, ReportStep, FaultStep, SendsNothing, AtMark, state
<1>4. CASE Silent
  BY <1>4 DEF Silent, Activate, PollInput, FrameCompletes, Blit, WriteMetaFrame,
      WriteMetaPad, WriteMetaStatus, FrameMark, WriteFaultFrame, WriteFaultCode,
      WriteFaultStatus, Goto, link, frames, SendsNothing, AtMark
<1>5. QED
  BY <1>1, <1>2, <1>3, <1>4 DEF SetupShape

\* Appending a message leaves the earlier ones where they were.
LEMMA AppendedMessage ==
  ASSUME sent \in Seq(Messages), NEW msg \in Messages, sent' = Append(sent, msg)
  PROVE  /\ Len(sent') = Len(sent) + 1
         /\ sent'[Len(sent) + 1] = msg
         /\ \A i \in 1..Len(sent) : sent'[i] = sent[i]
  BY AppendProperties

\* While the process runs it has sent no Fault.
LEMMA NoFaultYet ==
  ASSUME SentState, pc # "exited", NEW i \in 1..Len(sent)
  PROVE  sent[i].type # "Fault"
  BY DEF SentState, FaultSent

LEMMA ProcessKeepsSentState == IInv /\ Process => SentState' /\ ReportOrder'
<1> SUFFICES ASSUME IInv, Process PROVE SentState' /\ ReportOrder'
  OBVIOUS
<1>0. /\ sent \in Seq(Messages) /\ Len(sent) \in Nat /\ marks \in Nat /\ marks' \in Nat
      /\ core.frame \in Nat /\ framebuffer \in Nat /\ core.wram \in Int
      /\ fault.frame \in Nat /\ fault.code \in FaultCodes
      /\ SentState /\ ReportOrder
  <2>1. LinkTypeOK /\ DataTypeOK /\ DataTypeOK' /\ SentState /\ ReportOrder
    BY ProcessKeepsDataType, TypeOKParts DEF IInv, ControlTypeOK
  <2>2. sent \in Seq(Messages) /\ Len(sent) \in Nat
    BY <2>1, LenProperties DEF LinkTypeOK
  <2>3. QED
    BY <2>1, <2>2 DEF DataTypeOK, Cores, Faults, Torn
<1>1. /\ pc # "exited"
      /\ SendsNothing \/ (SaysPlain /\ ~AtMark' /\ marks' = marks) \/ ReportStep \/ FaultStep
  BY SendingSteps
<1>2. \A i \in 1..Len(sent) : sent[i].type # "Fault"
  BY <1>0, <1>1, NoFaultYet
<1>3. \A i \in 1..Len(sent) : sent[i].type = "HashReport" => ReportSent(sent[i])
  BY <1>0 DEF SentState
<1>4. CASE SendsNothing
  <2>1. SentState'
    BY <1>0, <1>2, <1>3, <1>4 DEF SentState, SendsNothing, ReportSent
  <2>2. ReportOrder'
    BY <1>0, <1>4 DEF ReportOrder, SendsNothing
  <2>3. QED
    BY <2>1, <2>2
<1>5. CASE SaysPlain /\ ~AtMark' /\ marks' = marks
  <2>1. PICK type \in {"HelloAck", "GameLoaded", "RegisterRegion", "Ready"} :
          sent' = Append(sent, Plain(type))
    BY <1>5 DEF SaysPlain
  <2>2. Plain(type) \in Messages /\ Plain(type).type \notin {"Fault", "HashReport"}
    BY PlainMessages DEF MessageTypes, Plain
  <2>3. /\ Len(sent') = Len(sent) + 1
        /\ sent'[Len(sent) + 1] = Plain(type)
        /\ \A i \in 1..Len(sent) : sent'[i] = sent[i]
    BY <1>0, <2>1, <2>2, AppendedMessage
  <2>4. SentState'
    BY <1>0, <1>2, <1>3, <1>5, <2>2, <2>3 DEF SentState, ReportSent
  <2>5. ReportOrder'
    <3>1. SUFFICES ASSUME NEW i \in 1..(Len(sent) + 1), NEW j \in 1..(Len(sent) + 1),
                          j < i, sent'[i].type = "HashReport", sent'[j].type = "HashReport"
                   PROVE  sent'[j].frame < sent'[i].frame
      BY <2>3 DEF ReportOrder
    <3>2. i \in 1..Len(sent) /\ j \in 1..Len(sent)
      BY <1>0, <2>2, <2>3, <3>1
    <3>3. QED
      BY <1>0, <2>3, <3>1, <3>2 DEF ReportOrder
  <2>6. QED
    BY <2>4, <2>5
<1>6. CASE ReportStep
  <2> DEFINE report == HashReport(core.frame, core.wram, framebuffer)
  <2>1. sent' = Append(sent, report) /\ ~AtMark' /\ marks' = marks
    BY <1>6 DEF ReportStep, AtMark, state
  <2>2. /\ report \in Messages /\ report.type = "HashReport"
        /\ report.frame = core.frame /\ report.wram = core.wram /\ report.fb = framebuffer
    BY <1>0, ReportMessage DEF HashReport
  <2>3. core.frame = marks /\ core.wram = marks /\ framebuffer = marks /\ marks > 0 /\ AtMark
    BY <1>6 DEF IInv, EmuState, AtMark, ReportStep
  <2>4. /\ Len(sent') = Len(sent) + 1
        /\ sent'[Len(sent) + 1] = report
        /\ \A i \in 1..Len(sent) : sent'[i] = sent[i]
    BY <1>0, <2>1, <2>2, AppendedMessage
  <2>5. \A i \in 1..Len(sent) : sent[i].type = "HashReport" => sent[i].frame \in 1..(marks - 1)
    BY <1>0, <1>3, <2>3 DEF ReportSent
  <2> HIDE DEF report
  <2>6. SentState'
    BY <1>0, <1>2, <1>3, <2>1, <2>2, <2>3, <2>4 DEF SentState, ReportSent
  <2>7. ReportOrder'
    BY <1>0, <2>2, <2>3, <2>4, <2>5 DEF ReportOrder
  <2>8. QED
    BY <2>6, <2>7
<1>7. CASE FaultStep
  <2> DEFINE msg == FaultMsg(fault.frame, fault.code)
  <2>1. /\ pc = "fault_send" /\ pc' = "exited" /\ sent' = Append(sent, msg)
        /\ UNCHANGED <<meta, core, marks>>
    BY <1>7 DEF FaultStep, state
  <2>2. /\ msg \in Messages /\ msg.type = "Fault"
        /\ msg.frame = fault.frame /\ msg.code = CodeValue(fault.code)
    BY <1>0, FaultMessage DEF FaultMsg
  <2>3. fault.frame = core.frame /\ (meta.status = "Unmapped" \/ FaultPage)
    BY <2>1 DEF IInv, FaultState, FaultLabels
  <2>4. /\ Len(sent') = Len(sent) + 1
        /\ sent'[Len(sent) + 1] = msg
        /\ \A i \in 1..Len(sent) : sent'[i] = sent[i]
    BY <1>0, <2>1, <2>2, AppendedMessage
  <2> HIDE DEF msg
  <2>5. /\ msg.frame = core'.frame
        /\ \/ meta'.status = "Unmapped"
           \/ meta'.status = "Faulted" /\ meta'.code = msg.code /\ meta'.frame = msg.frame
    BY <2>1, <2>2, <2>3 DEF FaultPage
  <2>6. SentState'
    <3>1. SUFFICES ASSUME NEW i \in 1..(Len(sent) + 1)
                   PROVE  /\ sent'[i].type = "Fault" => FaultSent(sent[i])'
                          /\ sent'[i].type = "HashReport" => ReportSent(sent[i])'
      BY <2>4 DEF SentState
    <3>2. CASE i = Len(sent) + 1
      BY <2>1, <2>2, <2>4, <2>5, <3>2 DEF FaultSent
    <3>3. CASE i \in 1..Len(sent)
      BY <1>2, <1>3, <2>1, <2>4, <3>3 DEF ReportSent, AtMark
    <3>4. QED
      BY <1>0, <3>2, <3>3
  <2>7. ReportOrder'
    BY <1>0, <2>2, <2>4 DEF ReportOrder
  <2>8. QED
    BY <2>6, <2>7
<1>8. QED
  BY <1>1, <1>4, <1>5, <1>6, <1>7

LEMMA EnvironmentKeepsSent ==
  IInv /\ (Environment \/ UNCHANGED vars) => (SentState /\ ReportOrder)'
<1> SUFFICES ASSUME SentState, ReportOrder, Environment \/ UNCHANGED vars
             PROVE  (SentState /\ ReportOrder)'
  BY DEF IInv
<1>1. UNCHANGED <<pc, sent, meta, core, marks>>
  BY DEF Environment, AgentSends, AgentReads, AgentCloses, HostSetsPad, vars, link,
         pages, frames
<1>2. QED
  BY <1>1 DEF SentState, ReportOrder, FaultSent, ReportSent, AtMark

-----------------------------------------------------------------------------
(* The theorems.                                                           *)

\* The strengthening holds in every reachable state.
THEOREM Inductive == Spec => []IInv
<1>1. IInv /\ [Next]_vars => IInv'
  <2> SUFFICES ASSUME IInv, [Next]_vars PROVE IInv'
    OBVIOUS
  <2>1. CASE Process
    BY <2>1, ProcessKeepsType, ProcessKeepsEmuState, ProcessKeepsMetaState,
       ProcessKeepsFaultState, ProcessKeepsSentState DEF IInv
  <2>2. CASE Environment \/ UNCHANGED vars
    BY <2>2, EnvironmentKeepsType, StutterKeepsType, EnvironmentKeepsStates,
       EnvironmentKeepsSent DEF IInv
  <2>3. QED
    BY <2>1, <2>2 DEF Next
<1>2. QED
  BY InitIInv, <1>1, PTL DEF Spec

\* Whenever the guest can be stopped at a frame mark, the meta page, the framebuffer,
\* WRAM and the SDK's frame counter describe the same completed frame.
THEOREM MarkSnapshotCorrect == Spec => []MarkSnapshot
<1>1. IInv => MarkSnapshot
  BY DEF IInv, TypeOK, EmuState, MetaState, RunningPage, AtMark, MarkSnapshot
<1>2. QED
  BY Inductive, <1>1, PTL

\* A host that sees status Faulted between two stores of set_fault always sees the
\* fault's own code and frame.
THEOREM FaultedStatusLastCorrect == Spec => []FaultedStatusLast
<1>1. IInv => FaultedStatusLast
  BY DEF IInv, FaultState, FaultPage, FaultedStatusLast
<1>2. QED
  BY Inductive, <1>1, PTL

\* A Fault message never reaches the agent before the meta page carries it.
THEOREM FaultVisibleInMetaCorrect == Spec => []FaultVisibleInMeta
<1>1. IInv => FaultVisibleInMeta
  <2> SUFFICES ASSUME IInv, NEW i \in DOMAIN sent, sent[i].type = "Fault"
               PROVE  /\ sent[i].frame = core.frame
                      /\ meta.status # "Unmapped" =>
                           /\ meta.status = "Faulted"
                           /\ meta.code = sent[i].code
                           /\ meta.frame = sent[i].frame
    BY DEF FaultVisibleInMeta
  <2>1. i \in 1..Len(sent)
    BY LenProperties DEF IInv, TypeOK
  <2>2. FaultSent(sent[i])
    BY <2>1 DEF IInv, SentState
  <2>3. QED
    BY <2>2 DEF FaultSent
<1>2. QED
  BY Inductive, <1>1, PTL

\* What a reader of the page, or of the socket, may rely on about a fault.
THEOREM FaultContractHolds == Spec => []FaultContract
  BY FaultedStatusLastCorrect, FaultVisibleInMetaCorrect, PTL DEF FaultContract

\* Every HashReport names the frame whose boundary state it hashed, and frames are
\* reported in order and at most once.
THEOREM ReportsFaithfulCorrect == Spec => []ReportsFaithful
<1>1. IInv => ReportsFaithful
  <2> SUFFICES ASSUME IInv, NEW i \in DOMAIN sent, sent[i].type = "HashReport"
               PROVE  /\ sent[i].wram = sent[i].frame
                      /\ sent[i].fb = sent[i].frame
                      /\ sent[i].frame \in 1..marks
                      /\ \A j \in 1..(i - 1) : sent[j].type = "HashReport"
                                                 => sent[j].frame < sent[i].frame
    BY DEF ReportsFaithful
  <2>1. i \in 1..Len(sent) /\ Len(sent) \in Nat
    BY LenProperties DEF IInv, TypeOK
  <2>2. ReportSent(sent[i])
    BY <2>1 DEF IInv, SentState
  <2>3. \A j \in 1..(i - 1) : sent[j].type = "HashReport" => sent[j].frame < sent[i].frame
    BY <2>1 DEF IInv, ReportOrder
  <2>4. QED
    BY <2>2, <2>3 DEF ReportSent
<1>2. QED
  BY Inductive, <1>1, PTL

\* From Ready to the first completed frame the page the root snapshot captures is the
\* READY beacon: status ready, frame 0, no pad and no fault.
THEOREM ReadyBeaconCorrect == Spec => []ReadyBeacon
<1>1. IInv => ReadyBeacon
  BY DEF IInv, MetaState, SetupMapped, ReadyPage, BeforeFirstFrame, ReadyBeacon
<1>2. QED
  BY Inductive, <1>1, PTL

-----------------------------------------------------------------------------
(* Ready gates the regions: what has been sent and registered on the way   *)
(* to it.                                                                  *)

Boot == {"hello", "hello_ack"}
Loading == {"load_game", "loading", "prepare", "publish", "game_loaded"}
BeforeReady == Boot \union Loading \union {"announce"}
AllLive == config.agent => \A r \in RegionNames : manifest[r] = "live"

\* The messages of the setup, by how far it has come.
SentSoFar ==
  /\ pc \in Boot => Len(sent) = 0
  /\ pc \in Loading => Len(sent) = 1
  /\ pc = "game_loaded" => step = 1
  /\ pc = "announce" => Len(sent) = step + 1 /\ step <= Len(Descriptors) + 1

\* The regions that are registered, by how far the publication has come.
LiveSoFar ==
  /\ pc = "publish" =>
       (config.agent => \A k \in 1..Len(Required) : k < step => manifest[Required[k]] = "live")
  /\ pc \in {"game_loaded", "announce"} => AllLive

ReadySent ==
  \A i \in 1..Len(sent) : sent[i].type = "Ready" =>
    /\ pc \notin BeforeReady
    /\ i = Len(Descriptors) + 3
    /\ AllLive /\ meta.status # "Unmapped"

GateInv == SentSoFar /\ LiveSoFar /\ ReadySent

\* The steps that leave all of this alone, but for a message that is not Ready.
ReadPast ==
  /\ \/ pc = "hello" /\ pc' = "hello_ack"
     \/ pc \in {"load_game", "loading"} /\ pc' \in {"loading", "prepare"}
  /\ UNCHANGED <<config, sent, manifest, meta>>
Leaves ==
  /\ pc' \notin BeforeReady
  /\ UNCHANGED <<config, manifest>>
  /\ meta'.status = "Unmapped" => meta.status = "Unmapped"
  /\ \/ sent' = sent
     \/ \E msg \in Messages : msg.type # "Ready" /\ sent' = Append(sent, msg)
Publishes ==
  \/ PrepareRegions \/ RegisterWithAgent \/ RegistrationFails \/ PublicationDone
Announces == SendHelloAck \/ SendGameLoaded \/ AnnounceRegion \/ SendReady

LEMMA GateShapes == DataTypeOK /\ Process => ReadPast \/ Leaves \/ Publishes \/ Announces
<1> SUFFICES ASSUME DataTypeOK, Process PROVE ReadPast \/ Leaves \/ Publishes \/ Announces
  OBVIOUS
<1>0. meta \in MetaPages
  BY DEF DataTypeOK
<1>1. CASE ExpectHello \/ ExpectLoadGame \/ LoadGame
  BY <1>1 DEF ExpectHello, ExpectLoadGame, LoadGame, RejectDatagram, Rejects,
      FaultMarked, FaultUnmarked, Raise, Exit, Goto, pages, frames, Receive,
      ReceiveFails, link, ReadPast, Leaves, BeforeReady, Boot, Loading
<1>2. CASE ExpectStart \/ BoundaryReject
  BY <1>2 DEF ExpectStart, BoundaryReject, RejectDatagram, Rejects, FaultMarked,
      FaultUnmarked, Raise, Exit, Goto, pages, frames, Receive, ReceiveFails, link,
      Leaves, BeforeReady, Boot, Loading
<1>3. CASE Activate \/ PollInput \/ FrameCompletes \/ FrameFaults \/ Blit
  BY <1>3 DEF Activate, PollInput, FrameCompletes, FrameFaults, Blit, FaultMarked,
      Raise, Goto, link, pages, frames, Leaves, BeforeReady, Boot, Loading
<1>4. CASE WriteMetaFrame \/ WriteMetaPad \/ WriteMetaStatus \/ FrameMark
  BY <1>0, <1>4 DEF WriteMetaFrame, WriteMetaPad, WriteMetaStatus, FrameMark, Goto, link,
      pages, MetaPages, Leaves, BeforeReady, Boot, Loading
<1>5. CASE BoundaryIdle \/ BoundaryHashRequest \/ BoundaryShutdown
  BY <1>5 DEF BoundaryIdle, BoundaryHashRequest, BoundaryShutdown, FaultMarked, Raise,
      Exit, Goto, Receive, link, pages, Leaves, BeforeReady, Boot, Loading
<1>6. CASE SendHashReport
  <2>1. HashReport(core.frame, core.wram, framebuffer) \in Messages
    <3>1. core.frame \in Nat /\ core.wram \in Int /\ framebuffer \in Nat
      BY DEF DataTypeOK, Cores, Torn
    <3>2. QED
      BY <3>1, ReportMessage
  <2>2. QED
    BY <1>6, <2>1 DEF SendHashReport, SendFails, HashReport, Exit, Goto, Send, link, pages,
      Leaves, BeforeReady, Boot, Loading
<1>7. CASE WriteFaultFrame \/ WriteFaultCode \/ WriteFaultStatus
  BY <1>0, <1>7 DEF WriteFaultFrame, WriteFaultCode, WriteFaultStatus, Goto, link,
      MetaPages, Leaves, BeforeReady, Boot, Loading
<1>8. CASE SendFault
  <2>1. FaultMsg(fault.frame, fault.code) \in Messages
    BY FaultMessage DEF DataTypeOK, Faults
  <2>2. QED
    BY <1>8, <2>1 DEF SendFault, SendFails, FaultMsg, Exit, Send, link, pages, Leaves,
      BeforeReady, Boot, Loading
<1>9. QED
  BY <1>1, <1>2, <1>3, <1>4, <1>5, <1>6, <1>7, <1>8
     DEF Process, Setup, FrameLoop, FaultPath, Publishes, Announces

LEMMA ProcessKeepsGateInv == IInv /\ GateInv /\ Process => GateInv'
<1> SUFFICES ASSUME IInv, GateInv, Process PROVE GateInv'
  OBVIOUS
<1>0. /\ sent \in Seq(Messages) /\ Len(sent) \in Nat /\ step \in 1..5
      /\ DataTypeOK /\ manifest \in Manifests /\ config \in Configs
  BY TypeOKParts, LenProperties DEF IInv, LinkTypeOK, ControlTypeOK
<1>1. pc \in BeforeReady => \A i \in 1..Len(sent) : sent[i].type # "Ready"
  BY DEF GateInv, ReadySent
<1>2. CASE ReadPast
  BY <1>0, <1>1, <1>2 DEF GateInv, ReadPast, SentSoFar, LiveSoFar, ReadySent, Boot, Loading,
     BeforeReady
<1>3. CASE Leaves
  <2>1. SentSoFar' /\ LiveSoFar'
    BY <1>3 DEF Leaves, SentSoFar, LiveSoFar, BeforeReady, Boot, Loading
  <2>2. \A i \in 1..Len(sent') : sent'[i].type = "Ready" =>
           i \in 1..Len(sent) /\ sent[i].type = "Ready"
    <3>1. CASE sent' = sent
      BY <3>1
    <3>2. CASE \E msg \in Messages : msg.type # "Ready" /\ sent' = Append(sent, msg)
      <4>1. PICK msg \in Messages : msg.type # "Ready" /\ sent' = Append(sent, msg)
        BY <3>2
      <4>2. /\ Len(sent') = Len(sent) + 1
            /\ sent'[Len(sent) + 1] = msg
            /\ \A i \in 1..Len(sent) : sent'[i] = sent[i]
        BY <1>0, <4>1, AppendedMessage
      <4>3. QED
        BY <1>0, <4>1, <4>2
    <3>3. QED
      BY <1>3, <3>1, <3>2 DEF Leaves
  <2>3. ReadySent'
    BY <1>3, <2>2 DEF GateInv, Leaves, ReadySent, AllLive, Descriptors
  <2>4. QED
    BY <2>1, <2>3 DEF GateInv
<1>4. CASE Publishes
  <2>1. pc \in {"prepare", "publish"} /\ sent' = sent /\ config' = config
    BY <1>4 DEF Publishes, PrepareRegions, RegisterWithAgent, RegistrationFails,
       PublicationDone, link, frames
  <2>2. ReadySent'
    BY <1>1, <2>1 DEF ReadySent, BeforeReady, Loading
  <2>3. SentSoFar' /\ LiveSoFar'
    <3>1. CASE PrepareRegions
      BY <3>1, <2>1 DEF PrepareRegions, FaultUnmarked, Raise, Goto, GateInv, SentSoFar,
         LiveSoFar, Boot, Loading
    <3>2. CASE RegisterWithAgent
      <4>1. step \in 1..3 /\ pc = "publish" /\ pc' = "publish" /\ step' = step + 1
        BY <1>0, <3>2 DEF RegisterWithAgent, Required
      <4>2. \A k \in 1..3 : k < step' => manifest'[Required[k]] = "live"
        BY <1>0, <3>2, <4>1 DEF RegisterWithAgent, Required, Manifests, RegionNames, GateInv,
           LiveSoFar
      <4>3. QED
        BY <2>1, <4>1, <4>2 DEF GateInv, SentSoFar, LiveSoFar, Boot, Loading, Required
    <3>3. CASE RegistrationFails
      BY <3>3 DEF RegistrationFails, FaultMarked, Raise, SentSoFar, LiveSoFar, Boot, Loading
    <3>4. CASE PublicationDone
      <4>1. config.agent => manifest["wram"] = "live" /\ manifest["framebuffer"] = "live"
                              /\ manifest["meta"] = "live"
        BY <1>0, <3>4 DEF PublicationDone, Required, GateInv, LiveSoFar
      <4>2. AllLive'
        BY <3>4, <4>1 DEF PublicationDone, pages, AllLive, RegionNames
      <4>3. QED
        BY <2>1, <3>4, <4>2 DEF PublicationDone, Goto, GateInv, SentSoFar, LiveSoFar, Boot, Loading
    <3>5. QED
      BY <1>4, <3>1, <3>2, <3>3, <3>4 DEF Publishes
  <2>4. QED
    BY <2>2, <2>3 DEF GateInv
<1>5. CASE Announces
  <2> DEFINE Says(type) == sent' = Append(sent, Plain(type))
  <2>1. UNCHANGED <<config, manifest, meta>> /\ pc \in BeforeReady
    BY <1>5 DEF Announces, SendHelloAck, SendGameLoaded, AnnounceRegion, SendReady,
       SetupSend, pages, BeforeReady, Boot, Loading
  <2>2. ASSUME NEW type \in MessageTypes, Says(type)
        PROVE  /\ Len(sent') = Len(sent) + 1
               /\ sent'[Len(sent) + 1].type = type
               /\ \A i \in 1..Len(sent) : sent'[i].type # "Ready"
    BY <1>0, <1>1, <2>1, <2>2, PlainMessages, AppendedMessage DEF Plain
  <2>3. CASE sent' = sent /\ pc' = "exited"
    BY <1>1, <2>1, <2>3 DEF GateInv, SentSoFar, LiveSoFar, ReadySent, Boot, Loading
  <2>4. CASE SendHelloAck /\ Says("HelloAck") /\ pc' = "load_game"
    BY <1>0, <2>2, <2>4 DEF SendHelloAck, SetupSend, MessageTypes, GateInv, SentSoFar,
       LiveSoFar, ReadySent, Boot, Loading
  <2>5. CASE SendGameLoaded /\ Says("GameLoaded") /\ pc' = "announce"
    <3>1. /\ pc = "game_loaded" /\ step = 1 /\ step' = 1 /\ Len(sent) = 1
          /\ AllLive
      BY <2>5 DEF SendGameLoaded, SetupSend, GateInv, SentSoFar, LiveSoFar, Loading
    <3>2. Len(sent') = 2 /\ \A i \in 1..Len(sent') : sent'[i].type # "Ready"
      BY <2>2, <2>5, <3>1 DEF MessageTypes
    <3>3. Len(Descriptors)' >= 3
      BY DEF Descriptors, Required
    <3>4. SentSoFar'
      BY <2>5, <3>1, <3>2, <3>3 DEF SentSoFar, Boot, Loading
    <3>5. QED
      BY <2>1, <2>5, <3>1, <3>2, <3>4 DEF GateInv, LiveSoFar, ReadySent, AllLive
  <2>6. CASE AnnounceRegion /\ Says("RegisterRegion") /\ pc' = "announce"
    <3>1. /\ pc = "announce" /\ step <= Len(Descriptors) /\ step' = step + 1
          /\ Len(sent) = step + 1 /\ AllLive
      BY <2>6 DEF AnnounceRegion, SetupSend, GateInv, SentSoFar, LiveSoFar
    <3>2. Len(sent') = step + 2 /\ \A i \in 1..Len(sent') : sent'[i].type # "Ready"
      BY <1>0, <2>2, <2>6, <3>1 DEF MessageTypes
    <3>3. Descriptors' = Descriptors /\ Len(Descriptors) \in Nat
      BY <2>1 DEF Descriptors, Required
    <3>4. SentSoFar'
      BY <1>0, <2>6, <3>1, <3>2, <3>3 DEF SentSoFar, Boot, Loading
    <3>5. QED
      BY <2>1, <2>6, <3>1, <3>2, <3>4 DEF GateInv, LiveSoFar, ReadySent, AllLive
  <2>7. CASE SendReady /\ Says("Ready") /\ pc' = "start"
    <3>1. Descriptors' = Descriptors /\ Len(Descriptors) \in Nat
      BY <2>1 DEF Descriptors, Required
    <3>2. pc = "announce" /\ Len(sent) = Len(Descriptors) + 2 /\ AllLive
      BY <1>0, <2>7, <3>1 DEF SendReady, SetupSend, GateInv, SentSoFar, LiveSoFar
    <3>3. meta.status # "Unmapped"
      BY <3>2 DEF IInv, MetaState, SetupMapped, ReadyPage
    <3>4. ReadySent'
      BY <1>0, <2>1, <2>2, <2>7, <3>1, <3>2, <3>3
         DEF ReadySent, AllLive, BeforeReady, Boot, Loading, MessageTypes
    <3>5. QED
      BY <2>7, <3>4 DEF GateInv, SentSoFar, LiveSoFar, Boot, Loading
  <2>8. QED
    BY <1>5, <2>3, <2>4, <2>5, <2>6, <2>7 DEF Announces, SendHelloAck, SendGameLoaded,
       AnnounceRegion, SendReady, SetupSend, SendFails, Send, Exit, Goto, link
<1>6. QED
  BY <1>0, <1>2, <1>3, <1>4, <1>5, GateShapes

LEMMA EnvironmentKeepsGateInv == GateInv /\ (Environment \/ UNCHANGED vars) => GateInv'
<1> SUFFICES ASSUME GateInv, Environment \/ UNCHANGED vars PROVE GateInv'
  OBVIOUS
<1>1. UNCHANGED <<pc, config, step, sent, manifest, meta>>
  BY DEF Environment, AgentSends, AgentReads, AgentCloses, HostSetsPad, vars, link,
         pages, frames
<1>2. QED
  BY <1>1 DEF GateInv, SentSoFar, LiveSoFar, ReadySent, AllLive, Descriptors

\* Ready is the message after HelloAck, GameLoaded and all the descriptors, and when it
\* is sent, and from then on, every region is registered and the meta page is mapped.
THEOREM ReadyContractHolds == Spec => []ReadyContract
<1>1. Init => GateInv
  BY DEF Init, GateInv, SentSoFar, LiveSoFar, ReadySent, Boot, Loading
<1>2. IInv /\ GateInv /\ [Next]_vars => GateInv'
  BY ProcessKeepsGateInv, EnvironmentKeepsGateInv DEF Next
<1>3. IInv /\ GateInv => ReadyGatesRegions
  <2> SUFFICES ASSUME IInv, GateInv, NEW i \in DOMAIN sent, sent[i].type = "Ready"
               PROVE  /\ i = Len(Descriptors) + 3
                      /\ AllLive /\ meta.status # "Unmapped"
    BY DEF ReadyGatesRegions, Sent, AllLive
  <2>1. i \in 1..Len(sent)
    BY LenProperties DEF IInv, TypeOK
  <2>2. QED
    BY <2>1 DEF GateInv, ReadySent
<1>4. QED
  BY Inductive, ReadyBeaconCorrect, <1>1, <1>2, <1>3, PTL DEF Spec, ReadyContract
-----------------------------------------------------------------------------
(* No queued datagram is starved.                                          *)

QueueStays == queue' = queue /\ NextBoundary' = NextBoundary
QueueDry == queue' = <<>>
QueueMoves == /\ queue # <<>> /\ queue' = Tail(queue)
              /\ NextBoundary' <= NextBoundary + 1

LEMMA BoundaryShapes ==
  DataTypeOK /\ Process => pc # "exited" /\ (pc' = "exited" \/ QueueStays \/ QueueDry \/ QueueMoves)
<1> SUFFICES ASSUME DataTypeOK, Process
             PROVE  pc # "exited" /\ (pc' = "exited" \/ QueueStays \/ QueueDry \/ QueueMoves)
  OBVIOUS
<1>0. core.frame \in Nat /\ core \in Cores
  BY DEF DataTypeOK, Cores
<1>1. CASE Setup
  <2>1. CASE ExpectHello \/ ExpectLoadGame \/ ExpectStart
    BY <1>0, <2>1 DEF ExpectHello, ExpectLoadGame, ExpectStart, RejectDatagram, Rejects,
       FaultMarked, FaultUnmarked, Raise, Exit, Goto, frames, Receive, ReceiveFails, link,
       NextBoundary, QueueStays, QueueMoves
  <2>2. CASE SendHelloAck \/ SendGameLoaded \/ AnnounceRegion \/ SendReady
    BY <1>0, <2>2 DEF SendHelloAck, SendGameLoaded, AnnounceRegion, SendReady, SetupSend,
       SendFails, Send, Exit, Goto, frames, link, NextBoundary, QueueStays
  <2>3. CASE LoadGame \/ PrepareRegions \/ RegisterWithAgent \/ RegistrationFails
                \/ PublicationDone
    BY <1>0, <2>3 DEF LoadGame, PrepareRegions, RegisterWithAgent, RegistrationFails,
       PublicationDone, FaultMarked, FaultUnmarked, Raise, Goto, frames, link, NextBoundary,
       QueueStays
  <2>4. QED
    BY <1>1, <2>1, <2>2, <2>3 DEF Setup
<1>2. CASE FrameLoop
  <2>1. CASE Activate \/ PollInput \/ FrameCompletes \/ FrameFaults
    BY <1>0, <2>1 DEF Activate, PollInput, FrameCompletes, FrameFaults, FaultMarked, Raise,
       Goto, frames, link, Cores, NextBoundary, QueueStays
  <2>2. CASE Blit \/ WriteMetaFrame \/ WriteMetaPad \/ WriteMetaStatus \/ FrameMark
    BY <1>0, <2>2 DEF Blit, WriteMetaFrame, WriteMetaPad, WriteMetaStatus, FrameMark, Goto,
       frames, link, NextBoundary, QueueStays
  <2>3. CASE BoundaryHashRequest \/ BoundaryShutdown \/ BoundaryReject
    BY <1>0, <2>3 DEF BoundaryHashRequest, BoundaryShutdown, BoundaryReject, FaultMarked,
       Raise, Exit, Goto, frames, Receive, ReceiveFails, NextBoundary, QueueMoves
  <2>4. CASE BoundaryIdle
    BY <2>4 DEF BoundaryIdle, Goto, link, QueueDry
  <2>5. CASE SendHashReport
    BY <1>0, <2>5 DEF SendHashReport, SendFails, Send, Exit, Goto, frames, link, NextBoundary,
       QueueStays
  <2>6. QED
    BY <1>2, <2>1, <2>2, <2>3, <2>4, <2>5 DEF FrameLoop
<1>3. CASE FaultPath
  BY <1>0, <1>3 DEF FaultPath, WriteFaultFrame, WriteFaultCode, WriteFaultStatus, SendFault,
     SendFails, Send, Exit, Goto, frames, link, NextBoundary, QueueStays
<1>4. QED
  BY <1>1, <1>2, <1>3 DEF Process

LEMMA EnvironmentQueue ==
  ASSUME LinkTypeOK, DataTypeOK, DueByPosition, Environment \/ UNCHANGED vars
  PROVE  DueByPosition'
<1>0. queue \in Seq(Datagrams) /\ Len(queue) \in Nat /\ NextBoundary \in Nat
  <2>1. core.frame \in Nat
    BY DEF DataTypeOK, Cores
  <2>2. QED
    BY <2>1, LenProperties DEF LinkTypeOK, NextBoundary
<1>1. pc' = pc /\ NextBoundary' = NextBoundary
  BY DEF Environment, AgentSends, AgentReads, AgentCloses, HostSetsPad, vars, link, frames,
     NextBoundary
<1>2. CASE queue' = queue
  BY <1>1, <1>2 DEF DueByPosition
<1>3. ASSUME NEW kind \in DatagramKinds, NEW f \in 0..MaxFrames, AgentSends(kind, f)
      PROVE  DueByPosition'
  <2> DEFINE d == [kind |-> kind, frame |-> f, due |-> NextBoundary + Len(queue)]
  <2>1. queue' = Append(queue, d) /\ pc # "exited"
    BY <1>3 DEF AgentSends
  <2>2. /\ DOMAIN queue' = 1..(Len(queue) + 1)
        /\ queue'[Len(queue) + 1] = d
        /\ \A i \in 1..Len(queue) : queue'[i] = queue[i] /\ i \in DOMAIN queue
    BY <1>0, <2>1
  <2>3. ASSUME NEW i \in 1..(Len(queue) + 1)
        PROVE  NextBoundary + i - 1 <= queue'[i].due
    <3>1. CASE i \in 1..Len(queue)
      BY <2>1, <2>2, <3>1 DEF DueByPosition
    <3>2. CASE i = Len(queue) + 1
      <4>1. queue'[i].due = NextBoundary + Len(queue)
        BY <2>2, <3>2
      <4>2. QED
        BY <1>0, <3>2, <4>1
    <3>3. QED
      BY <1>0, <3>1, <3>2
  <2>4. QED
    BY <1>1, <2>2, <2>3 DEF DueByPosition
<1>4. QED
  <2>1. 0 \in 0..MaxFrames /\ "HashRequest" \in DatagramKinds
    BY HarnessAssumption DEF DatagramKinds
  <2>2. \/ \E kind \in DatagramKinds, f \in 0..MaxFrames : AgentSends(kind, f)
        \/ queue' = queue
    BY <2>1 DEF Environment, AgentReads, AgentCloses, HostSetsPad, vars, link
  <2>3. QED
    BY <1>2, <1>3, <2>2

\* A datagram that found p others queued is examined within p boundaries of the next one,
\* whatever was queued and however the loop and the faults interleave with the agent.
THEOREM DueByPositionHolds == Spec => []DueByPosition
<1>1. Init => DueByPosition
  BY DEF Init, DueByPosition
<1>2. TypeOK /\ DueByPosition /\ [Next]_vars => DueByPosition'
  <2> SUFFICES ASSUME TypeOK, DueByPosition, [Next]_vars PROVE DueByPosition'
    OBVIOUS
  <2>0. LinkTypeOK /\ DataTypeOK /\ queue \in Seq(Datagrams) /\ Len(queue) \in Nat
    BY TypeOKParts, LenProperties DEF LinkTypeOK
  <2>1. CASE Process
    <3>1. pc # "exited" /\ (pc' = "exited" \/ QueueStays \/ QueueDry \/ QueueMoves)
      BY <2>0, <2>1, BoundaryShapes
    <3>2. CASE QueueMoves
      <4>1. /\ DOMAIN queue' = 1..(Len(queue) - 1)
            /\ \A i \in 1..(Len(queue) - 1) : queue'[i] = queue[i + 1]
                 /\ i + 1 \in 1..Len(queue)
        BY <2>0, <3>2 DEF QueueMoves
      <4>2. ASSUME NEW i \in 1..(Len(queue) - 1)
            PROVE  NextBoundary' + i - 1 <= queue'[i].due
        <5>1. NextBoundary + (i + 1) - 1 <= queue[i + 1].due /\ queue[i + 1].due \in Nat
          <6>1. i + 1 \in DOMAIN queue /\ queue[i + 1] \in Datagrams
            BY <2>0, <4>1
          <6>2. QED
            BY <3>1, <6>1 DEF DueByPosition, Datagrams
        <5>2. NextBoundary \in Nat /\ NextBoundary' \in Int
          <6>1. core.frame \in Nat /\ core.frame' \in Nat
            <7>1. latch \in Pads
              BY DEF TypeOK, ControlTypeOK
            <7>2. DataTypeOK /\ DataTypeOK'
              BY <2>0, <2>1, <7>1, ProcessKeepsDataType
            <7>3. core \in Cores /\ core' \in Cores
              BY <7>2 DEF DataTypeOK
            <7>4. QED
              BY <7>3 DEF Cores
          <6>2. QED
            BY <6>1 DEF NextBoundary
        <5>3. queue'[i] = queue[i + 1] /\ NextBoundary' <= NextBoundary + 1
          BY <3>2, <4>1 DEF QueueMoves
        <5>4. QED
          BY <5>1, <5>2, <5>3
      <4>3. QED
        BY <4>1, <4>2 DEF DueByPosition
    <3>3. CASE QueueStays \/ QueueDry \/ pc' = "exited"
      BY <3>1, <3>3 DEF QueueStays, QueueDry, DueByPosition
    <3>4. QED
      BY <3>1, <3>2, <3>3
  <2>2. CASE Environment \/ UNCHANGED vars
    BY <2>0, <2>2, EnvironmentQueue
  <2>3. QED
    BY <2>1, <2>2 DEF Next
<1>3. QED
  BY TypeCorrect, <1>1, <1>2, PTL DEF Spec

\* Requests of the host are examined in turn and answered for the right boundary.
THEOREM RequestContractHolds == Spec => []RequestContract
  BY ReportsFaithfulCorrect, DueByPositionHolds, PTL DEF RequestContract

-----------------------------------------------------------------------------
(* The harness implements its lifecycle: what a step of the process does   *)
(* to the phase, to the frames marked and to the frame last reported.      *)

Started == {"start", "activate", "poll", "run", "blit", "boundary", "report"} \union Marking

ReadyFirst == pc \in Started => Sent("Ready")
LifeInv == IInv /\ GateInv /\ ReadyFirst

SaysOther ==
  \E type \in {"HelloAck", "GameLoaded", "RegisterRegion"} : sent' = Append(sent, Plain(type))

Advances ==
  /\ pc # "exited" /\ pc' # "exited"
  /\ pc' \in Started => pc \in Started
  /\ marks' = marks
  /\ sent' = sent \/ SaysOther
TellsReady ==
  /\ pc = "announce" /\ pc' = "start"
  /\ marks' = marks
  /\ sent' = Append(sent, Plain("Ready"))
MarksFrame ==
  /\ pc = "mark" /\ pc' = "boundary"
  /\ marks' = marks + 1
  /\ sent' = sent
Stops ==
  /\ pc # "exited" /\ pc' = "exited"
  /\ marks' = marks
  /\ sent' = sent

LEMMA LifeShapes ==
  Process => Advances \/ TellsReady \/ MarksFrame \/ ReportStep \/ Stops \/ FaultStep
<1> SUFFICES ASSUME Process
             PROVE  Advances \/ TellsReady \/ MarksFrame \/ ReportStep \/ Stops \/ FaultStep
  OBVIOUS
<1> USE DEF Started, Marking
<1>1. CASE ExpectHello \/ ExpectLoadGame \/ ExpectStart
  BY <1>1 DEF ExpectHello, ExpectLoadGame, ExpectStart, RejectDatagram, Rejects,
      FaultMarked, FaultUnmarked, Raise, Exit, Goto, pages, frames, Receive, ReceiveFails,
      link, Advances, Stops
<1>2. CASE SendHelloAck \/ SendGameLoaded \/ AnnounceRegion
  BY <1>2 DEF SendHelloAck, SendGameLoaded, AnnounceRegion, SetupSend, SendFails, Exit,
      Goto, pages, frames, Send, link, Advances, SaysOther, Stops
<1>3. CASE LoadGame \/ PrepareRegions
  BY <1>3 DEF LoadGame, PrepareRegions, FaultUnmarked, Raise, Goto, pages, frames, link,
      Advances
<1>4. CASE RegisterWithAgent \/ RegistrationFails \/ PublicationDone
  BY <1>4 DEF RegisterWithAgent, RegistrationFails, PublicationDone, FaultMarked, Raise,
      Goto, pages, frames, link, Advances
<1>5. CASE SendReady
  BY <1>5 DEF SendReady, SetupSend, SendFails, Exit, Goto, pages, frames, Send, link,
      TellsReady, Stops
<1>6. CASE FrameMark
  BY <1>6 DEF FrameMark, Goto, pages, link, MarksFrame
<1>7. CASE Activate \/ PollInput \/ FrameCompletes \/ FrameFaults \/ Blit
  BY <1>7 DEF Activate, PollInput, FrameCompletes, FrameFaults, Blit, FaultMarked, Raise,
      Goto, pages, frames, link, Advances
<1>8. CASE WriteMetaFrame \/ WriteMetaPad \/ WriteMetaStatus
  BY <1>8 DEF WriteMetaFrame, WriteMetaPad, WriteMetaStatus, Goto, frames, link, Advances
<1>9. CASE BoundaryIdle \/ BoundaryHashRequest \/ BoundaryShutdown \/ BoundaryReject
  BY <1>9 DEF BoundaryIdle, BoundaryHashRequest, BoundaryShutdown, BoundaryReject,
      FaultMarked, Raise, Exit, Goto, pages, frames, Receive, ReceiveFails, link, Advances,
      Stops
<1>10. CASE SendHashReport
  BY <1>10 DEF SendHashReport, SendFails, Exit, Goto, pages, frames, Send, link, state,
      ReportStep, Stops
<1>11. CASE WriteFaultFrame \/ WriteFaultCode \/ WriteFaultStatus
  BY <1>11 DEF WriteFaultFrame, WriteFaultCode, WriteFaultStatus, Goto, frames, link,
      Advances
<1>12. CASE SendFault
  BY <1>12 DEF SendFault, SendFails, Exit, pages, frames, Send, link, state, FaultStep, Stops
<1>13. QED
  BY <1>1, <1>2, <1>3, <1>4, <1>5, <1>6, <1>7, <1>8, <1>9, <1>10, <1>11, <1>12
     DEF Process, Setup, FrameLoop, FaultPath

\* The last report of a sequence of messages.
ReportsOf(s) == {i \in DOMAIN s : s[i].type = "HashReport"}
LastOf(s) ==
  IF \E i \in DOMAIN s : s[i].type = "HashReport"
  THEN LET i == CHOOSE i \in ReportsOf(s) : \A j \in ReportsOf(s) : j <= i IN s[i].frame
  ELSE 0

LEMMA LastIs ==
  ASSUME NEW s \in Seq(Messages), NEW i \in ReportsOf(s), \A j \in ReportsOf(s) : j <= i
  PROVE  LastOf(s) = s[i].frame
<1> DEFINE k == CHOOSE k \in ReportsOf(s) : \A j \in ReportsOf(s) : j <= k
<1>1. k \in ReportsOf(s) /\ \A j \in ReportsOf(s) : j <= k
  OBVIOUS
<1>2. ReportsOf(s) \subseteq Nat
  BY LenProperties DEF ReportsOf
<1>3. k = i
  <2> HIDE DEF k
  <2>1. k <= i /\ i <= k /\ k \in Nat /\ i \in Nat
    BY <1>1, <1>2
  <2>2. QED
    BY <2>1
<1>4. \E j \in DOMAIN s : s[j].type = "HashReport"
  BY DEF ReportsOf
<1>5. LastOf(s) = s[k].frame
  BY <1>4 DEF LastOf
<1>6. QED
  BY <1>3, <1>5

\* There is one, the greatest index among the reports, if there are any.
LEMMA LastExists ==
  ASSUME NEW s \in Seq(Messages), ReportsOf(s) # {}
  PROVE  \E i \in ReportsOf(s) : \A j \in ReportsOf(s) : j <= i
<1>1. Len(s) \in Nat /\ ReportsOf(s) \in SUBSET (0..Len(s))
  BY LenProperties DEF ReportsOf
<1>2. QED
  BY <1>1, Greatest

LEMMA LastOfAppend ==
  ASSUME NEW s \in Seq(Messages), NEW msg \in Messages
  PROVE  LastOf(Append(s, msg)) = IF msg.type = "HashReport" THEN msg.frame ELSE LastOf(s)
<1> DEFINE t == Append(s, msg)
<1>1. /\ t \in Seq(Messages) /\ Len(s) \in Nat /\ DOMAIN s = 1..Len(s)
      /\ DOMAIN t = 1..(Len(s) + 1) /\ t[Len(s) + 1] = msg
      /\ \A i \in 1..Len(s) : t[i] = s[i]
  BY AppendProperties, LenProperties
<1> HIDE DEF t
<1>2. CASE msg.type = "HashReport"
  <2>1. Len(s) + 1 \in ReportsOf(t) /\ \A j \in ReportsOf(t) : j <= Len(s) + 1
    BY <1>1, <1>2 DEF ReportsOf
  <2>2. LastOf(t) = t[Len(s) + 1].frame
    BY <1>1, <2>1, LastIs
  <2>3. QED
    BY <1>1, <1>2, <2>2 DEF t
<1>3. CASE msg.type # "HashReport"
  <2>1. ReportsOf(t) = ReportsOf(s)
    BY <1>1, <1>3 DEF ReportsOf
  <2>2. CASE ReportsOf(s) = {}
    <3>1. LastOf(s) = 0 /\ LastOf(t) = 0
      BY <2>1, <2>2 DEF LastOf, ReportsOf
    <3>2. QED
      BY <1>3, <3>1 DEF t
  <2>3. CASE ReportsOf(s) # {}
    <3>1. PICK i \in ReportsOf(s) : \A j \in ReportsOf(s) : j <= i
      BY <2>3, LastExists
    <3>2. LastOf(s) = s[i].frame /\ LastOf(t) = t[i].frame
      BY <1>1, <2>1, <3>1, LastIs
    <3>3. t[i] = s[i]
      BY <1>1 DEF ReportsOf
    <3>4. QED
      BY <1>3, <3>2, <3>3 DEF t
  <2>4. QED
    BY <2>2, <2>3
<1>4. QED
  BY <1>2, <1>3

LEMMA LastBelow ==
  ASSUME NEW s \in Seq(Messages), NEW n \in Nat, n > 0, \A i \in ReportsOf(s) : s[i].frame < n
  PROVE  LastOf(s) < n
<1>1. CASE ReportsOf(s) = {}
  <2>1. LastOf(s) = 0
    BY <1>1 DEF LastOf, ReportsOf
  <2>2. QED
    BY <2>1
<1>2. CASE ReportsOf(s) # {}
  <2>1. PICK i \in ReportsOf(s) : \A j \in ReportsOf(s) : j <= i
    BY <1>2, LastExists
  <2>2. LastOf(s) = s[i].frame
    BY <2>1, LastIs
  <2>3. QED
    BY <2>2
<1>3. QED
  BY <1>1, <1>2

LEMMA LastReportIs == LastReport = LastOf(sent) /\ LastReport' = LastOf(sent')
  BY DEF LastReport, LastOf, ReportsOf, Frames, Sent

\* What a message more makes of what has been said.
LEMMA SentAppend ==
  ASSUME sent \in Seq(Messages), NEW msg \in Messages, sent' = Append(sent, msg), NEW type
  PROVE  Sent(type)' <=> Sent(type) \/ msg.type = type
<1>1. /\ Len(sent) \in Nat /\ DOMAIN sent = 1..Len(sent) /\ DOMAIN sent' = 1..(Len(sent) + 1)
      /\ sent'[Len(sent) + 1] = msg /\ \A i \in 1..Len(sent) : sent'[i] = sent[i]
  BY AppendProperties, LenProperties
<1>2. QED
  BY <1>1 DEF Sent

LEMMA PhaseIs ==
  /\ pc # "exited" /\ ~Sent("Fault") =>
       Phase = IF marks > 0 THEN "running" ELSE IF Sent("Ready") THEN "ready" ELSE "booting"
  /\ pc = "exited" => Phase = IF Sent("Fault") THEN "faulted" ELSE "stopped"
  BY DEF Phase

LEMMA PhaseBecomes ==
  /\ pc' # "exited" /\ ~Sent("Fault")' =>
       Phase' = IF marks' > 0 THEN "running" ELSE IF Sent("Ready")' THEN "ready" ELSE "booting"
  /\ pc' = "exited" => Phase' = IF Sent("Fault")' THEN "faulted" ELSE "stopped"
  BY DEF Phase

\* Once a frame loop label is reached, Ready has been sent.
LEMMA ProcessKeepsReadyFirst == LifeInv /\ Process => ReadyFirst'
<1> SUFFICES ASSUME LifeInv, Process PROVE ReadyFirst'
  OBVIOUS
<1>0. sent \in Seq(Messages) /\ ReadyFirst
  BY TypeOKParts DEF LifeInv, IInv, LinkTypeOK
<1>1. /\ \A type \in MessageTypes : Plain(type) \in Messages /\ Plain(type).type = type
      /\ {"HelloAck", "GameLoaded", "RegisterRegion", "Ready"} \subseteq MessageTypes
  BY PlainMessages DEF Plain, MessageTypes
<1>2. CASE Advances
  <2>1. Sent("Ready") => Sent("Ready")'
    <3>1. CASE sent' = sent
      BY <3>1 DEF Sent
    <3>2. CASE SaysOther
      BY <1>0, <1>1, <3>2, SentAppend DEF SaysOther
    <3>3. QED
      BY <1>2, <3>1, <3>2 DEF Advances
  <2>2. QED
    BY <1>0, <1>2, <2>1 DEF Advances, ReadyFirst
<1>3. CASE TellsReady
  <2>1. Sent("Ready")'
    BY <1>0, <1>1, <1>3, SentAppend DEF TellsReady
  <2>2. QED
    BY <2>1 DEF ReadyFirst
<1>4. CASE MarksFrame
  <2>1. Sent("Ready") /\ sent' = sent
    BY <1>0, <1>4 DEF MarksFrame, ReadyFirst, Started, Marking
  <2>2. QED
    BY <2>1 DEF ReadyFirst, Sent
<1>5. CASE ReportStep
  <2>1. Sent("Ready")
    BY <1>0, <1>5 DEF ReportStep, ReadyFirst, Started
  <2>2. HashReport(core.frame, core.wram, framebuffer) \in Messages
    <3>1. core.frame \in Nat /\ core.wram \in Int /\ framebuffer \in Nat
      BY TypeOKParts DEF LifeInv, IInv, DataTypeOK, Cores, Torn
    <3>2. QED
      BY <3>1, ReportMessage
  <2>3. Sent("Ready")'
    BY <1>0, <1>5, <2>1, <2>2, SentAppend DEF ReportStep
  <2>4. QED
    BY <2>3 DEF ReadyFirst
<1>6. CASE Stops \/ FaultStep
  BY <1>6 DEF Stops, FaultStep, ReadyFirst, Started, Marking
<1>7. QED
  BY <1>2, <1>3, <1>4, <1>5, <1>6, LifeShapes

LEMMA EnvironmentKeepsReadyFirst ==
  ReadyFirst /\ (Environment \/ UNCHANGED vars) => ReadyFirst' /\ UNCHANGED <<Phase, marks, LastReport>>
<1> SUFFICES ASSUME ReadyFirst, Environment \/ UNCHANGED vars
             PROVE  ReadyFirst' /\ UNCHANGED <<Phase, marks, LastReport>>
  OBVIOUS
<1>1. UNCHANGED <<pc, sent, marks>>
  BY DEF Environment, AgentSends, AgentReads, AgentCloses, HostSetsPad, vars, link,
         pages, frames
<1>2. QED
  BY <1>1, LastReportIs DEF ReadyFirst, Phase, Sent

\* What is known of the lifecycle before a step of the process.
LEMMA LifeFacts ==
  ASSUME LifeInv, pc # "exited"
  PROVE  /\ sent \in Seq(Messages) /\ marks \in Nat /\ ~Sent("Fault")
         /\ pc \in Started => Sent("Ready")
         /\ pc \in BeforeReady => ~Sent("Ready") /\ marks = 0
         /\ pc = "report" => LastOf(sent) < marks /\ marks > 0 /\ core.frame = marks
<1>1. /\ sent \in Seq(Messages) /\ Len(sent) \in Nat /\ DOMAIN sent = 1..Len(sent)
      /\ marks \in Nat /\ SentState /\ ReadySent /\ ReadyFirst /\ EmuState
  BY TypeOKParts, LenProperties DEF LifeInv, IInv, GateInv, LinkTypeOK, DataTypeOK
<1>2. ~Sent("Fault")
  BY <1>1, NoFaultYet DEF Sent
<1>3. pc \in BeforeReady => ~Sent("Ready") /\ marks = 0
  BY <1>1 DEF Sent, ReadySent, BeforeReady, Boot, Loading, EmuState, NotMapped, SetupMapped
<1>4. pc = "report" => LastOf(sent) < marks /\ marks > 0 /\ core.frame = marks
  <2> SUFFICES ASSUME pc = "report"
               PROVE  LastOf(sent) < marks /\ marks > 0 /\ core.frame = marks
    OBVIOUS
  <2>1. AtMark /\ marks > 0 /\ core.frame = marks
    BY <1>1 DEF EmuState, AtMark
  <2>2. \A i \in ReportsOf(sent) : sent[i].frame < marks
    BY <1>1, <2>1 DEF ReportsOf, SentState, ReportSent
  <2>3. QED
    BY <1>1, <2>1, <2>2, LastBelow
<1>5. QED
  BY <1>1, <1>2, <1>3, <1>4 DEF ReadyFirst

LEMMA ProcessIsALifeStep ==
  LifeInv /\ Process => Lifecycle!Next \/ UNCHANGED <<Phase, marks, LastReport>>
<1> SUFFICES ASSUME LifeInv, Process
             PROVE  Lifecycle!Next \/ UNCHANGED <<Phase, marks, LastReport>>
  OBVIOUS
<1> USE DEF Lifecycle!Next, Lifecycle!BecomeReady, Lifecycle!Mark, Lifecycle!Report,
            Lifecycle!End, Lifecycle!Alive
<1>0. pc # "exited"
  BY LifeShapes DEF Advances, TellsReady, MarksFrame, ReportStep, Stops, FaultStep
<1>1. /\ sent \in Seq(Messages) /\ marks \in Nat /\ ~Sent("Fault")
      /\ pc \in Started => Sent("Ready")
      /\ pc \in BeforeReady => ~Sent("Ready") /\ marks = 0
      /\ pc = "report" => LastOf(sent) < marks /\ marks > 0 /\ core.frame = marks
  BY <1>0, LifeFacts
<1>2. Phase = IF marks > 0 THEN "running" ELSE IF Sent("Ready") THEN "ready" ELSE "booting"
  BY <1>0, <1>1, PhaseIs
<1>3. /\ \A type \in MessageTypes : Plain(type) \in Messages /\ Plain(type).type = type
      /\ {"HelloAck", "GameLoaded", "RegisterRegion", "Ready"} \subseteq MessageTypes
  BY PlainMessages DEF Plain, MessageTypes
<1>4. CASE Advances
  <2>1. /\ Sent("Fault")' <=> Sent("Fault")
        /\ Sent("Ready")' <=> Sent("Ready")
        /\ LastReport' = LastReport
    <3>1. CASE sent' = sent
      BY <3>1, LastReportIs DEF Sent
    <3>2. CASE SaysOther
      <4>1. PICK type \in {"HelloAck", "GameLoaded", "RegisterRegion"} :
              sent' = Append(sent, Plain(type))
        BY <3>2 DEF SaysOther
      <4>2. Plain(type) \in Messages /\ Plain(type).type \notin {"Fault", "Ready", "HashReport"}
        BY <1>3
      <4>3. QED
        BY <1>1, <4>1, <4>2, SentAppend, LastOfAppend, LastReportIs
    <3>3. QED
      BY <1>4, <3>1, <3>2 DEF Advances
  <2>2. Phase' = Phase
    BY <1>1, <1>2, <1>4, <2>1, PhaseBecomes DEF Advances
  <2>3. QED
    BY <1>4, <2>1, <2>2 DEF Advances
<1>5. CASE TellsReady
  <2>1. Plain("Ready") \in Messages /\ Plain("Ready").type = "Ready"
    BY <1>3
  <2>2. Sent("Ready")' /\ ~Sent("Fault")' /\ LastReport' = LastReport
    BY <1>1, <1>5, <2>1, SentAppend, LastOfAppend, LastReportIs DEF TellsReady
  <2>3. marks = 0 /\ marks' = 0 /\ ~Sent("Ready") /\ pc' = "start"
    BY <1>1, <1>5 DEF TellsReady, BeforeReady
  <2>4. Phase = "booting" /\ Phase' = "ready"
    BY <1>2, <2>2, <2>3, PhaseBecomes
  <2>5. QED
    BY <2>2, <2>3, <2>4
<1>6. CASE MarksFrame
  <2>1. /\ Sent("Ready") /\ pc' = "boundary" /\ marks' = marks + 1
        /\ ~Sent("Fault")' /\ LastReport' = LastReport
    BY <1>1, <1>6, LastReportIs DEF MarksFrame, Started, Marking, Sent
  <2>2. Phase \in {"ready", "running"} /\ Phase' = "running"
    BY <1>1, <1>2, <2>1, PhaseBecomes
  <2>3. QED
    BY <2>1, <2>2
<1>7. CASE ReportStep
  <2> DEFINE report == HashReport(core.frame, core.wram, framebuffer)
  <2>1. report \in Messages /\ report.type = "HashReport" /\ report.frame = core.frame
    <3>1. core.frame \in Nat /\ core.wram \in Int /\ framebuffer \in Nat
      BY TypeOKParts DEF LifeInv, IInv, DataTypeOK, Cores, Torn
    <3>2. QED
      BY <3>1, ReportMessage DEF HashReport
  <2>2. /\ pc' = "poll" /\ marks' = marks /\ sent' = Append(sent, report)
        /\ LastReport < marks /\ marks > 0 /\ core.frame = marks
    BY <1>1, <1>7, LastReportIs DEF ReportStep, state
  <2> HIDE DEF report
  <2>3. ~Sent("Fault")' /\ LastReport' = marks
    BY <1>1, <2>1, <2>2, SentAppend, LastOfAppend, LastReportIs
  <2>4. Phase = "running" /\ Phase' = "running"
    BY <1>2, <2>2, <2>3, PhaseBecomes
  <2>5. QED
    BY <2>2, <2>3, <2>4
<1>8. CASE Stops
  <2>1. pc' = "exited" /\ ~Sent("Fault")' /\ LastReport' = LastReport /\ marks' = marks
    BY <1>1, <1>8, LastReportIs DEF Stops, Sent
  <2>2. Phase \in {"booting", "ready", "running"} /\ Phase' = "stopped"
    BY <1>2, <2>1, PhaseBecomes
  <2>3. QED
    BY <2>1, <2>2
<1>9. CASE FaultStep
  <2> DEFINE msg == FaultMsg(fault.frame, fault.code)
  <2>1. msg \in Messages /\ msg.type = "Fault"
    <3>1. fault.frame \in Nat /\ fault.code \in FaultCodes
      BY TypeOKParts DEF LifeInv, IInv, DataTypeOK, Faults
    <3>2. QED
      BY <3>1, FaultMessage DEF FaultMsg
  <2>2. pc' = "exited" /\ marks' = marks /\ sent' = Append(sent, msg)
    BY <1>9 DEF FaultStep, state
  <2> HIDE DEF msg
  <2>3. Sent("Fault")' /\ LastReport' = LastReport
    BY <1>1, <2>1, <2>2, SentAppend, LastOfAppend, LastReportIs
  <2>4. Phase \in {"booting", "ready", "running"} /\ Phase' = "faulted"
    BY <1>2, <2>2, <2>3, PhaseBecomes
  <2>5. QED
    BY <2>2, <2>3, <2>4
<1>10. QED
  BY <1>4, <1>5, <1>6, <1>7, <1>8, <1>9, LifeShapes

\* Seen from outside, the harness boots, says Ready once, marks the frames one by one,
\* reports a frame at most once and only the one just marked, and ends once.
THEOREM ImplementsLifecycleHolds == Spec => ImplementsLifecycle
<1>1. Init => GateInv /\ ReadyFirst /\ Lifecycle!Init
  BY DEF Init, GateInv, SentSoFar, LiveSoFar, ReadySent, Boot, Loading, ReadyFirst, Started,
     Marking, Lifecycle!Init, Phase, LastReport, Sent
<1>2. IInv /\ GateInv /\ ReadyFirst /\ [Next]_vars => GateInv' /\ ReadyFirst'
  BY ProcessKeepsGateInv, EnvironmentKeepsGateInv, ProcessKeepsReadyFirst,
     EnvironmentKeepsReadyFirst DEF Next, LifeInv
<1>3. IInv /\ GateInv /\ ReadyFirst /\ [Next]_vars => [Lifecycle!Next]_(Lifecycle!vars)
  BY ProcessIsALifeStep, EnvironmentKeepsReadyFirst DEF Next, LifeInv, Lifecycle!vars
<1>4. QED
  BY Inductive, <1>1, <1>2, <1>3, PTL DEF Spec, ImplementsLifecycle, Lifecycle!Spec
=============================================================================

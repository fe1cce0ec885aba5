-------------------------- MODULE Handover_proofs --------------------------
(***************************************************************************)
(* Proofs about Handover: it implements the DU of DuHandover, so that what *)
(* is proved there holds in it; both channels stay within their bounds;    *)
(* and every measurement report finds the DU in a handover afterwards.     *)
(***************************************************************************)
EXTENDS Handover, DuHandover_proofs

------------------------------------------------------------------------------
(* The refinement                                                           *)

LEMMA StepSimulates == [HoNext]_hoVars => [Next]_<<vars, plmn>>
<1>. SUFFICES ASSUME [HoNext]_hoVars PROVE [Next]_<<vars, plmn>>
  OBVIOUS
<1>1. ASSUME NEW h \in Handler, (HandleMessage(h) \/ HandlerStep(h)) /\ UNCHANGED <<plmn, ueVars>>
      PROVE  Next
  BY <1>1 DEF Next
<1>2. CASE TriggerMeasurement \/ SendNas \/ Answer
  BY <1>2 DEF TriggerMeasurement, SendNas, Answer, duVars, vars
<1>3. CASE HandleRrcMsg
  BY <1>3 DEF HandleRrcMsg, Next
<1>4. CASE TakeUplink
  BY <1>4 DEF TakeUplink, Next
<1>5. CASE LoopGoesOn
  BY <1>5 DEF LoopGoesOn, Next
<1>6. CASE UNCHANGED hoVars
  BY <1>6 DEF hoVars, vars
<1>. QED  BY <1>1, <1>2, <1>3, <1>4, <1>5, <1>6 DEF HoNext

\* A DU with its UE does what DuHandover says a DU may do.
THEOREM Implements == HoSpec => ImplementsDuHandover
<1>1. HoInit => Init
  BY DEF HoInit
<1>. QED  BY <1>1, StepSimulates, PTL DEF HoSpec, ImplementsDuHandover

\* So the DU's properties hold with the UE, too.
THEOREM DuInvariance == HoSpec => []IInv
BY Implements, InitInv, InvStep, PTL DEF ImplementsDuHandover

\* With the UE, too, the DU implements the handover protocol.
THEOREM DuProtocol == HoSpec => ImplementsProtocol
BY Implements, DuInvariance, InitSimulates, ProtocolStep, PTL
   DEF ImplementsDuHandover, ImplementsProtocol, HP!Spec

\* With the UE, too, no handover command is lost on its way to it.
THEOREM DuCommandSafe == HoSpec => []CommandKept
<1>1. Init => Kept
  BY DEF Init, Kept
<1>2. Kept => CommandKept
  BY DEF Kept, Executing, Holds, CommandKept
<1>. QED  BY <1>1, <1>2, Implements, DuInvariance, KeptStep, PTL DEF ImplementsDuHandover

------------------------------------------------------------------------------
(* Types, and measurement reports                                           *)

UeTypeOK ==
    /\ listener \in {"idle", "answer"}
    /\ ul \in Seq(UlMessage) /\ Len(ul) <= UlCap
    /\ cur \in UlMessage

\* Every report in the channel meets the condition in the DU's eyes.
ReportsMeetA3 ==
    \A i \in 1 .. Len(ul) : ul[i].kind = "MeasurementReport" => NeighbourMeetsA3(ul[i])

\* A report the loop is busy with starts a handover if there is none.
Reporting ==
    cur.kind = "MeasurementReport" =>
        /\ loop.step # "idle"
        /\ ho.state = "IDLE" =>
              \/ loop.step = "prepare"
              \/ loop.step = "scan" /\ loop.todo # <<>> /\ Head(loop.todo) = TRUE

HoInv == UeTypeOK /\ ReportsMeetA3 /\ Reporting

Encoded == <<EncodeRsrp(Serving), EncodeRsrp(Target)>>

LEMMA HoInitInv == HoInit => HoInv
<1>. SUFFICES ASSUME HoInit PROVE HoInv
  OBVIOUS
<1>1. NoMessage \in UlMessage /\ NoMessage.kind # "MeasurementReport"
  BY DEF NoMessage, UlMessage, Uplinks
<1>2. <<>> \in Seq(UlMessage) /\ Len(<<>>) <= UlCap
  BY HandoverUeAssumption DEF HandoverUeAssumption
<1>3. UeTypeOK
  BY <1>1, <1>2 DEF HoInit, UeTypeOK
<1>5. ReportsMeetA3
  <2>1. Len(ul) = 0
    BY DEF HoInit
  <2>. QED  BY <2>1 DEF ReportsMeetA3
<1>6. Reporting
  BY <1>1 DEF HoInit, Reporting
<1>. QED  BY <1>3, <1>5, <1>6 DEF HoInv

\* What the UE sends is a message, and there was room for it.
LEMMA SendFacts ==
    ASSUME UeTypeOK, ReportsMeetA3, NEW kind \in Uplinks,
           NEW rsrp \in (0 .. 127) \X (0 .. 127), SendToDu(kind, rsrp),
           kind = "MeasurementReport" => NeighbourMeetsA3([kind |-> kind, rsrp |-> rsrp])
    PROVE  ul' \in Seq(UlMessage) /\ Len(ul') <= UlCap /\ ReportsMeetA3'
<1>. DEFINE message == [kind |-> kind, rsrp |-> rsrp]
<1>1. message \in UlMessage /\ message.kind = kind
  BY DEF UlMessage
<1>2. ul' = Append(ul, message) /\ Len(ul) < UlCap /\ ul \in Seq(UlMessage)
  BY DEF SendToDu, UeTypeOK
<1>. HIDE DEF message
<1>3. /\ ul' \in Seq(UlMessage) /\ Len(ul') = Len(ul) + 1
      /\ \A i \in 1 .. Len(ul) : ul'[i] = ul[i]
      /\ ul'[Len(ul) + 1] = message
  BY <1>1, <1>2
<1>4. Len(ul') <= UlCap
  BY <1>2, <1>3, HandoverUeAssumption DEF HandoverUeAssumption
<1>5. kind = "MeasurementReport" => NeighbourMeetsA3(message)
  BY DEF message
<1>6. ASSUME NEW i \in 1 .. Len(ul'), ul'[i].kind = "MeasurementReport"
      PROVE  NeighbourMeetsA3(ul'[i])
  <2>1. CASE i \in 1 .. Len(ul)
    BY <1>3, <1>6, <2>1 DEF ReportsMeetA3
  <2>2. CASE i = Len(ul) + 1
    BY <1>1, <1>3, <1>5, <1>6, <2>2
  <2>3. i \in 1 .. Len(ul) \/ i = Len(ul) + 1
    BY <1>2, <1>3
  <2>. QED  BY <2>1, <2>2, <2>3
<1>. QED  BY <1>3, <1>4, <1>6 DEF ReportsMeetA3, NeighbourMeetsA3

\* A measurement that the UE reports is one that the DU acts on.
LEMMA ReportFacts ==
    ASSUME A3(Target, Serving)
    PROVE  /\ Encoded \in (0 .. 127) \X (0 .. 127)
           /\ NeighbourMeetsA3([kind |-> "MeasurementReport", rsrp |-> Encoded])
<1>1. Serving \in -156 .. -29 /\ Target \in -156 .. -29
  BY HandoverUeAssumption DEF HandoverUeAssumption
<1>2. A3(DecodeRsrp(EncodeRsrp(Target)), DecodeRsrp(EncodeRsrp(Serving)))
  BY <1>1, A3Agrees
<1>3. EncodeRsrp(Target) \in 0 .. 127 /\ EncodeRsrp(Serving) \in 0 .. 127
  BY <1>1, RsrpRoundTrip
<1>. QED  BY <1>2, <1>3 DEF Encoded, NeighbourMeetsA3

\* The UE's listener takes a message.
LEMMA HoTakesMessage ==
    ASSUME HoInv, HandleRrcMsg
    PROVE  HoInv'
<1>1. UNCHANGED <<ul, cur, loop, ho>> /\ listener' \in {"idle", "answer"}
  BY DEF HandleRrcMsg, UeReceives
<1>. QED
  BY <1>1 DEF HoInv, UeTypeOK, ReportsMeetA3, NeighbourMeetsA3, Reporting

\* The UE sends a report, a NAS message, or the listener its answer.
LEMMA HoSends ==
    ASSUME HoInv, TriggerMeasurement \/ SendNas \/ Answer
    PROVE  HoInv'
<1>. USE DEF HoInv
<1>1. UNCHANGED <<cur, loop, ho>> /\ listener' \in {"idle", "answer"}
  BY DEF TriggerMeasurement, SendNas, Answer, duVars, UeTypeOK
<1>2. ul' \in Seq(UlMessage) /\ Len(ul') <= UlCap /\ ReportsMeetA3'
  <2>1. CASE TriggerMeasurement
    <3>1. A3(Target, Serving) /\ SendToDu("MeasurementReport", Encoded)
      BY <2>1 DEF TriggerMeasurement, Encoded
    <3>. QED  BY <3>1, ReportFacts, SendFacts DEF Uplinks
  <2>2. CASE SendNas \/ Answer
    <3>1. SendToDu("ULInformationTransfer", <<0, 0>>)
      BY <2>2 DEF SendNas, Answer
    <3>2. <<0, 0>> \in (0 .. 127) \X (0 .. 127)
      OBVIOUS
    <3>. QED  BY <3>1, <3>2, SendFacts DEF Uplinks
  <2>. QED  BY <2>1, <2>2
<1>3. Reporting'
  BY <1>1 DEF Reporting
<1>. QED  BY <1>1, <1>2, <1>3 DEF UeTypeOK

\* The DU's loop takes a message, and forwards it.
LEMMA HoLoop ==
    ASSUME TypeOK, HoInv, TakeUplink \/ LoopGoesOn
    PROVE  HoInv'
<1>. USE TypeParts DEF HoInv
<1>1. CASE TakeUplink
  <2>1. /\ ul # <<>> /\ ul \in Seq(UlMessage) /\ cur' = Head(ul) /\ ul' = Tail(ul)
        /\ listener' = listener
    BY <1>1 DEF TakeUplink, UeTypeOK
  <2>2. /\ cur' = ul[1] /\ cur' \in UlMessage
        /\ ul' \in Seq(UlMessage) /\ Len(ul') = Len(ul) - 1
        /\ \A i \in 1 .. Len(ul') : i + 1 \in 1 .. Len(ul) /\ ul'[i] = ul[i + 1]
    BY <2>1
  <2>3. UeTypeOK'
    BY <2>1, <2>2, HandoverUeAssumption DEF UeTypeOK, HandoverUeAssumption
  <2>4. ReportsMeetA3'
    BY <2>2 DEF ReportsMeetA3, NeighbourMeetsA3
  <2>5. Reporting'
    <3>1. SUFFICES ASSUME cur'.kind = "MeasurementReport"
                   PROVE  loop'.step = "scan" /\ loop'.todo # <<>> /\ Head(loop'.todo) = TRUE
      BY DEF Reporting
    <3>2. NeighbourMeetsA3(Head(ul)) = TRUE
      <4>1. 1 \in 1 .. Len(ul) /\ Head(ul) = ul[1]
        BY <2>1
      <4>2. NeighbourMeetsA3(Head(ul))
        BY <2>1, <3>1, <4>1 DEF ReportsMeetA3
      <4>. QED  BY <4>2 DEF NeighbourMeetsA3, A3
    <3>3. ReceiveMeasurementReport /\ loop'.todo = <<TRUE>>
      BY <1>1, <2>1, <3>1, <3>2 DEF TakeUplink
    <3>4. loop'.step = "scan"
      BY <3>3 DEF ReceiveMeasurementReport, LoopTo, Loop
    <3>5. \A x : <<x>> # <<>> /\ Head(<<x>>) = x
      OBVIOUS
    <3>. QED  BY <3>3, <3>4, <3>5
  <2>. QED  BY <2>3, <2>4, <2>5
<1>2. CASE LoopGoesOn
  <2>1. NoMessage \in UlMessage /\ NoMessage.kind # "MeasurementReport"
    BY DEF NoMessage, UlMessage, Uplinks
  <2>2. UeTypeOK' /\ ReportsMeetA3'
    <3>1. UNCHANGED <<listener, ul>> /\ cur' \in {cur, NoMessage}
      BY <1>2 DEF LoopGoesOn
    <3>. QED  BY <2>1, <3>1 DEF UeTypeOK, ReportsMeetA3, NeighbourMeetsA3
  <2>3. Reporting'
    <3>1. CASE Uplink
      <4>1. cur' = NoMessage
        BY <1>2, <3>1 DEF LoopGoesOn, Uplink
      <4>. QED  BY <2>1, <4>1 DEF Reporting
    <3>2. CASE Scan
      <4>1. cur' = cur /\ ho' = ho
        BY <1>2, <3>2 DEF LoopGoesOn, Scan
      <4>2. loop'.step \in {"scan", "prepare", "uplink"}
        BY <3>2 DEF Scan, LoopTo, Loop
      <4>3. ho.state = "IDLE" /\ loop.todo # <<>> /\ Head(loop.todo) = TRUE
            => loop'.step = "prepare"
        BY <3>2 DEF Scan, MayTrigger, LoopTo, Loop
      <4>4. loop.step = "scan"
        BY <3>2 DEF Scan
      <4>. QED  BY <4>1, <4>2, <4>3, <4>4 DEF Reporting
    <3>3. CASE Prepare \/ Fail \/ Complete
      <4>1. ho'.state # "IDLE"
        BY <3>3 DEF Prepare, Fail, Complete, SetSourceHandoverState, SetTargetHandoverState
      <4>2. loop.step # "uplink" /\ loop'.step # "idle"
        BY <3>3 DEF Prepare, Fail, Complete, LoopTo, Loop
      <4>3. cur' = cur
        BY <1>2, <4>2 DEF LoopGoesOn
      <4>. QED  BY <4>1, <4>2, <4>3 DEF Reporting
    <3>4. CASE Require
      <4>1. /\ loop.step = "require" /\ loop'.step # "idle" /\ cur' = cur /\ ho' = ho
        BY <1>2, <3>4 DEF LoopGoesOn, Require, LoopTo, Loop
      <4>. QED  BY <4>1 DEF Reporting
    <3>. QED  BY <1>2, <3>1, <3>2, <3>3, <3>4 DEF LoopGoesOn, LoopStep
  <2>. QED  BY <2>2, <2>3
<1>. QED  BY <1>1, <1>2

\* The goroutines of the DU leave the UE alone, and no step makes a DU idle.
LEMMA HoHandler ==
    ASSUME HoInv, NEW h \in Handler, HandleMessage(h) \/ HandlerStep(h), UNCHANGED ueVars
    PROVE  HoInv'
<1>1. UNCHANGED <<listener, ul, cur>>
  BY DEF ueVars
<1>2. loop' = loop /\ (ho' = ho \/ ho'.state = "EXECUTION")
  <2>1. CASE Execute(h) \/ OpenRach(h)
    BY <2>1 DEF Execute, OpenRach, SetSourceHandoverState, SetTargetHandoverState
  <2>2. CASE HandleMessage(h) \/ Dispatch(h) \/ Forward(h) \/ Admit(h) \/ CheckRole(h)
             \/ Respond(h)
    BY <2>2 DEF HandleMessage, Dispatch, Forward, Admit, CheckRole, Respond
  <2>. QED  BY <2>1, <2>2 DEF HandlerStep
<1>. QED
  BY <1>1, <1>2 DEF HoInv, UeTypeOK, ReportsMeetA3, NeighbourMeetsA3, Reporting

LEMMA HoInvStep == TypeOK /\ HoInv /\ [HoNext]_hoVars => HoInv'
<1>. SUFFICES ASSUME TypeOK, HoInv, [HoNext]_hoVars PROVE HoInv'
  OBVIOUS
<1>1. CASE UNCHANGED hoVars
  BY <1>1 DEF hoVars, HoInv, UeTypeOK, ReportsMeetA3, NeighbourMeetsA3, Reporting
<1>. QED  BY <1>1, HoTakesMessage, HoSends, HoLoop, HoHandler DEF HoNext

\* The UE keeps its part: only reports that meet the A3 condition, and the
\* loop that took one starts a handover.
THEOREM HoInvariance == HoSpec => []HoInv
<1>1. IInv => TypeOK
  BY DEF IInv
<1>. QED  BY <1>1, DuInvariance, HoInitInv, HoInvStep, PTL DEF HoSpec

\* Types, and the bounds of both channels.
THEOREM HoTypeCorrect == HoSpec => []HoTypeOK
<1>1. IInv /\ HoInv => HoTypeOK
  BY DEF IInv, HoInv, UeTypeOK, HoTypeOK
<1>. QED  BY <1>1, DuInvariance, HoInvariance, PTL

\* UE and DU agree on what meets the A3 condition, for every pair of signal
\* strengths: a report always finds, or starts, a handover.
THEOREM ReportsTrigger == HoSpec => []ReportTriggers
<1>1. HoInv => ReportTriggers
  BY DEF HoInv, Reporting, ReportTriggers
<1>. QED  BY <1>1, HoInvariance, PTL

==============================================================================

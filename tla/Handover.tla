------------------------------ MODULE Handover ------------------------------
(***************************************************************************)
(* A handover seen from both ends: the source DU of DuHandover, and its UE *)
(* (uecontext/init.go, handle_rrc.go, ue_handover.go), which reports       *)
(* measurements and receives the RRC messages of the DU over two bounded   *)
(* channels.                                                               *)
(*                                                                         *)
(* The UE's listener is listenForRrcMessages, the one that runs: it hands  *)
(* the NAS message in an RRC message on and answers no reconfiguration.    *)
(* What a NAS message does to the UE is UeContext's, as is a               *)
(* reconfiguration whose IEs are absent, which kills the process.          *)
(***************************************************************************)
EXTENDS DuHandover

CONSTANTS
    UlCap,   \* capacity of SendToDuChannel (100)
    Serving, \* the signal strengths TriggerMeasurement pretends, in dBm:
    Target   \* -80 of the serving cell, -75 of the target

ASSUME HandoverUeAssumption ==
    /\ UlCap \in Nat \ {0}
    /\ {Serving, Target} \subseteq -156 .. -29

VARIABLES
    listener, \* the next step of the UE's listener
    ul,       \* SendToDuChannel
    cur       \* the message HandleRrcFromUE is busy with

hoVars == <<ho, cuUeId, ue, handler, loop, cu, plmn, listener, ul, cur>>

Uplinks == {"MeasurementReport", "ULInformationTransfer"}
NoMessage == [kind |-> "ULInformationTransfer", rsrp |-> <<0, 0>>]
UlMessage == [kind : Uplinks, rsrp : (0 .. 127) \X (0 .. 127)]

HoTypeOK ==
    /\ TypeOK
    /\ listener \in {"idle", "answer"}
    /\ ul \in Seq(UlMessage) /\ Len(ul) <= UlCap
    /\ cur \in UlMessage

HoInit ==
    /\ Init
    /\ ho.role = "NONE"
    /\ listener = "idle"
    /\ ul = <<>>
    /\ cur = NoMessage

duVars == <<ho, cuUeId, ue, handler, loop, cu, plmn>>
ueVars == <<listener, ul, cur>>

------------------------------------------------------------------------------
(* The UE sends                                                             *)

\* A send that does not wait for room in the channel.
Bug_SendToDu(kind, rsrp) == ul' = Append(ul, [kind |-> kind, rsrp |-> rsrp])

\* Sending on SendToDuChannel blocks while the channel is full.
SendToDu(kind, rsrp) ==
    /\ Len(ul) < UlCap
    /\ ul' = Append(ul, [kind |-> kind, rsrp |-> rsrp])

\* TriggerMeasurement, whenever a caller likes; sendMeasurementReport.
TriggerMeasurement ==
    /\ A3(Target, Serving)
    /\ SendToDu("MeasurementReport", <<EncodeRsrp(Serving), EncodeRsrp(Target)>>)
    /\ UNCHANGED <<duVars, listener, cur>>

\* Any other goroutine of the UE that sends a NAS message.
SendNas ==
    /\ SendToDu("ULInformationTransfer", <<0, 0>>)
    /\ UNCHANGED <<duVars, listener, cur>>

------------------------------------------------------------------------------
(* The UE receives: listenForRrcMessages                                    *)

\* HandleRrcMsg: the NAS message in a DLInformationTransfer or a
\* reconfiguration may have an answer.  Nothing else has one: a
\* reconfiguration itself, another type, what cannot be decoded.
HandleRrcMsg ==
    /\ listener = "idle"
    /\ UeReceives
    /\ listener' \in {"idle", "answer"}
    /\ UNCHANGED <<ul, cur, plmn>>

\* The listener sends it, and does not receive meanwhile.
Answer ==
    /\ listener = "answer"
    /\ SendToDu("ULInformationTransfer", <<0, 0>>)
    /\ listener' = "idle"
    /\ UNCHANGED <<duVars, cur>>

------------------------------------------------------------------------------
(* The DU: its loop takes what the UE sent                                  *)

\* The two cells taken for each other.
Bug_NeighbourMeetsA3(message) == A3(DecodeRsrp(message.rsrp[1]), DecodeRsrp(message.rsrp[2]))

\* handleMeasurementReport sees encoded values.
NeighbourMeetsA3(message) == A3(DecodeRsrp(message.rsrp[2]), DecodeRsrp(message.rsrp[1]))

\* A loop that starts a handover for any report that meets A3.
Bug_TakeUplink ==
    /\ loop.step = "idle" /\ ul # <<>>
    /\ cur' = Head(ul)
    /\ ul' = Tail(ul)
    /\ ue.open
    /\ LoopTo(IF Head(ul).kind = "MeasurementReport" /\ NeighbourMeetsA3(Head(ul))
              THEN "prepare" ELSE "uplink", <<>>)
    /\ UNCHANGED <<ho, cuUeId, ue, handler, cu, listener, plmn>>

\* A report has the one neighbour the UE put there.
TakeUplink ==
    /\ loop.step = "idle" /\ ul # <<>>
    /\ cur' = Head(ul)
    /\ ul' = Tail(ul)
    /\ IF Head(ul).kind = "MeasurementReport"
       THEN ReceiveMeasurementReport /\ loop'.todo = <<NeighbourMeetsA3(Head(ul))>>
       ELSE ReceiveOther
    /\ UNCHANGED <<listener, plmn>>

\* The message is gone when the loop is done with it, sent or not.
LoopGoesOn ==
    /\ LoopStep
    /\ cur' = IF loop.step = "uplink" THEN NoMessage ELSE cur
    /\ UNCHANGED <<listener, ul, plmn>>

HoNext ==
    \/ \E h \in Handler : (HandleMessage(h) \/ HandlerStep(h)) /\ UNCHANGED <<plmn, ueVars>>
    \/ TriggerMeasurement \/ SendNas
    \/ HandleRrcMsg \/ Answer
    \/ TakeUplink \/ LoopGoesOn

HoSpec ==
    /\ HoInit
    /\ [][HoNext]_hoVars
    /\ \A h \in Handler : SF_hoVars(HandlerStep(h) /\ UNCHANGED <<plmn, ueVars>>)
    /\ WF_hoVars(HandleRrcMsg)
    /\ SF_hoVars(Answer)
    /\ WF_hoVars(TakeUplink) /\ WF_hoVars(LoopGoesOn)

------------------------------------------------------------------------------
(* Properties                                                               *)

\* UE and DU agree on when the target cell is better, one from what it
\* measured and the other from what was encoded: a DU that could start a
\* handover starts one for every report (ue_handover.go:49, 62 and
\* du_rrc_handler.go:99, 122, 130).
ReportTriggers ==
    cur.kind = "MeasurementReport" /\ loop.step = "uplink" => ho.state # "IDLE"

\* A handover command the CU-CP sends is taken by the UE, although goroutines,
\* listener, callers and loop wait for one another over two full channels: the
\* goroutine for room below, the listener for room above
\* (f1ap_handover.go:213, init.go:51, ue.go:207, du_rrc_handler.go:16).
CommandTaken ==
    cu.command ~> /\ ue.commands = 1
                  /\ \A i \in DOMAIN ue.q : ue.q[i] # "UEContextModificationConfirm"

\* UE and loop together do to the DU only what DuHandover lets a UE do.
ImplementsDuHandover == Init /\ [][Next]_<<vars, plmn>>
==============================================================================

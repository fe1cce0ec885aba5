----------------------------- MODULE DuHandover -----------------------------
(***************************************************************************)
(* Handover in the DU (internal/du): the handover context `hoCtx`, the     *)
(* goroutines that handle F1AP messages from the CU-CP, one per message,   *)
(* and the loop HandleRrcFromUE that intercepts the UE's uplink RRC.       *)
(*                                                                         *)
(* Each action is one step between two accesses to shared state: hoCtx is  *)
(* read and written under its own mutex, but never tested and set under    *)
(* one lock, and handleMeasurementReport reads it under none.              *)
(*                                                                         *)
(* The CU-CP is not in the repository.  It confirms a required             *)
(* modification once, and has one UE context setup outstanding at a time.  *)
(***************************************************************************)
EXTENDS Codec, FiniteSets

CONSTANTS
    Handler,       \* goroutines started by ReadLoop
    CuId,          \* gNB-CU UE F1AP identities the CU-CP assigns
    ZeroId,        \* the zero value of CU_UE_F1AP_ID
    MaxNeighbours, \* neighbours in one measurement report
    MaxSetups,     \* UE context setup requests from the CU-CP
    ChanCap,       \* capacity of SendToUeChannel (100)
    Plmn           \* PLMN identities the DU may be configured with

ASSUME HandoverAssumption ==
    /\ {MaxNeighbours, MaxSetups} \subseteq Nat
    /\ ChanCap \in Nat \ {0}
    /\ ZeroId \notin CuId
    /\ Plmn \subseteq PlmnId

VARIABLES
    ho,        \* du.hoCtx: role and state
    cuUeId,    \* the global CU_UE_F1AP_ID
    ue,        \* du.ue: whether it exists, whether a UE reads from it,
               \* SendToUeChannel, and the handover commands put into that
    handler,   \* of each goroutine: next step, and the message it handles
    loop,      \* of HandleRrcFromUE: next step, neighbours still to scan,
               \* and isInitialMessage
    cu,        \* what the CU-CP has sent and received, and the PLMN
               \* identities it was told for the cell
    plmn       \* du.Config.PLMN

vars == <<ho, cuUeId, ue, handler, loop, cu>>

Roles == {"NONE", "SOURCE", "TARGET"}
HoStates == {"IDLE", "PREPARATION", "EXECUTION", "COMPLETED", "FAILED"}
HandlerSteps == {"idle", "dispatch", "forward", "execute", "admit", "checkRole", "openRach", "respond"}
Kinds == {"DLRRCMessageTransfer", "UEContextSetupRequest", "UEContextModificationConfirm"}
LoopSteps == {"idle", "scan", "prepare", "require", "fail", "complete", "uplink"}
Places == {"setupCell", "setupServed", "initialUL", "contextSetup"}
Idle == [step |-> "idle", kind |-> "DLRRCMessageTransfer", container |-> FALSE, id |-> ZeroId]

TypeOK ==
    /\ ho \in [role : Roles, state : HoStates]
    /\ cuUeId \in CuId \cup {ZeroId}
    /\ ue \in [open : BOOLEAN, served : BOOLEAN, q : Seq(Kinds), commands : Nat]
    /\ Len(ue.q) <= ChanCap
    /\ handler \in [Handler -> [step : HandlerSteps, kind : Kinds,
                                container : BOOLEAN, id : CuId \cup {ZeroId}]]
    /\ loop \in [step : LoopSteps, todo : Seq(BOOLEAN), initial : BOOLEAN]
    /\ cu \in [required : Nat, confirmed : BOOLEAN, command : BOOLEAN,
               setups : 0 .. MaxSetups, outstanding : BOOLEAN, admitted : BOOLEAN,
               told : SUBSET (Places \X PlmnBytes)]
    /\ plmn \in Plmn

\* A DU that serves the UE, or one its operator has prepared as the target
\* of a handover (SetTargetHandoverState is exported for that), with or
\* without a UE channel.
Init ==
    /\ ue \in [open : BOOLEAN, served : BOOLEAN, q : {<<>>}, commands : {0}]
    /\ \/ ho = [role |-> "NONE", state |-> "IDLE"] /\ ue.open
       \/ ho = [role |-> "TARGET", state |-> "PREPARATION"]
    /\ ue.served = ue.open
    /\ plmn \in Plmn
    /\ cuUeId = ZeroId
    /\ handler = [h \in Handler |-> Idle]
    /\ loop = [step |-> "idle", todo |-> <<>>, initial |-> TRUE]
    /\ cu = [required |-> 0, confirmed |-> FALSE, command |-> FALSE,
             setups |-> 0, outstanding |-> FALSE, admitted |-> FALSE,
             told |-> {<<"setupCell", setupPlmn>>, <<"setupServed", convertMccMncToPlmn(plmn)>>}]

------------------------------------------------------------------------------
(* Primitives                                                               *)

SetSourceHandoverState(st) == ho' = [role |-> "SOURCE", state |-> st]
SetTargetHandoverState(st) == ho' = [role |-> "TARGET", state |-> st]

\* A send that does not wait for room in the channel.
Bug_ForwardToUe(kind) ==
    ue' = [ue EXCEPT !.q = Append(@, kind),
                     !.commands = IF kind = "UEContextModificationConfirm" THEN @ + 1 ELSE @]

\* Sending on SendToUeChannel blocks while the channel is full.
ForwardToUe(kind) ==
    /\ Len(ue.q) < ChanCap
    /\ ue' = [ue EXCEPT !.q = Append(@, kind),
                        !.commands = IF kind = "UEContextModificationConfirm" THEN @ + 1 ELSE @]

\* The target DU creates its channel without a UE behind it.
UeReceives ==
    /\ ue.served
    /\ ue.q # <<>>
    /\ ue' = [ue EXCEPT !.q = Tail(@)]
    /\ UNCHANGED <<ho, cuUeId, handler, loop, cu>>

Step(h, st) == handler' = [handler EXCEPT ![h].step = st]
Finish(h) == handler' = [handler EXCEPT ![h] = Idle]

------------------------------------------------------------------------------
(* F1AP messages: `go handleMessage` for each one.                          *)

CuMaySend(kind, container) ==
    CASE kind = "DLRRCMessageTransfer" -> container
      [] kind = "UEContextModificationConfirm" -> cu.required > 0 /\ ~cu.confirmed
      [] kind = "UEContextSetupRequest" -> cu.setups < MaxSetups /\ ~cu.outstanding

HandleMessage(h) ==
    /\ handler[h] = Idle
    /\ \E kind \in Kinds, container \in BOOLEAN, id \in CuId :
          /\ CuMaySend(kind, container)
          /\ handler' = [handler EXCEPT ![h] =
                 [step |-> "dispatch", kind |-> kind, container |-> container, id |-> id]]
          /\ cu' = CASE kind = "DLRRCMessageTransfer" -> cu
                     [] kind = "UEContextModificationConfirm" ->
                          [cu EXCEPT !.confirmed = TRUE, !.command = container]
                     [] kind = "UEContextSetupRequest" ->
                          [cu EXCEPT !.setups = @ + 1, !.outstanding = TRUE]
    /\ UNCHANGED <<ho, cuUeId, ue, loop>>

\* HandleUeContextSetupRequest looks at the state and not at the role.
IsHandoverSetup(h) ==
    handler[h].kind = "UEContextSetupRequest" /\ ho.state = "PREPARATION"

\* Messages without a container have nothing to forward; only a setup
\* request is still answered.
AfterForward(h) ==
    CASE handler[h].kind = "DLRRCMessageTransfer" -> "idle"
      [] handler[h].kind = "UEContextModificationConfirm" -> "execute"
      [] handler[h].kind = "UEContextSetupRequest" -> "respond"

Dispatch(h) ==
    /\ handler[h].step = "dispatch"
    /\ IF IsHandoverSetup(h) THEN Step(h, "admit")
       ELSE IF handler[h].container THEN Step(h, "forward")
       ELSE IF handler[h].kind = "UEContextSetupRequest" THEN Step(h, "respond")
       ELSE Finish(h)
    /\ UNCHANGED <<ho, cuUeId, ue, loop, cu>>

\* A DU that drops the message when the channel is full, and carries on.
Bug_Forward(h) ==
    /\ handler[h].step = "forward"
    /\ IF ue.open
       THEN /\ ForwardToUe(handler[h].kind) \/ (Len(ue.q) = ChanCap /\ UNCHANGED ue)
            /\ IF AfterForward(h) = "idle" THEN Finish(h) ELSE Step(h, AfterForward(h))
       ELSE /\ IF handler[h].kind = "UEContextSetupRequest" THEN Step(h, "respond") ELSE Finish(h)
            /\ UNCHANGED ue
    /\ UNCHANGED <<ho, cuUeId, loop, cu>>

\* Without a UE channel a setup request is answered all the same; the other
\* messages end in an error.
Forward(h) ==
    /\ handler[h].step = "forward"
    /\ IF ue.open
       THEN /\ ForwardToUe(handler[h].kind)
            /\ IF AfterForward(h) = "idle" THEN Finish(h) ELSE Step(h, AfterForward(h))
       ELSE /\ IF handler[h].kind = "UEContextSetupRequest" THEN Step(h, "respond") ELSE Finish(h)
            /\ UNCHANGED ue
    /\ UNCHANGED <<ho, cuUeId, loop, cu>>

\* A DU that forgets to note that the handover is being executed.
Bug_Execute(h) ==
    /\ handler[h].step = "execute"
    /\ Finish(h)
    /\ UNCHANGED <<ho, cuUeId, ue, loop, cu>>

\* HandleUeContextModificationConfirm: the handover command is with the UE.
Execute(h) ==
    /\ handler[h].step = "execute"
    /\ SetSourceHandoverState("EXECUTION")
    /\ Finish(h)
    /\ UNCHANGED <<cuUeId, ue, loop, cu>>

\* handleTargetHandoverSetup: the identities, then the UE channel.
Admit(h) ==
    /\ handler[h].step = "admit"
    /\ cuUeId' = handler[h].id
    /\ ue' = [ue EXCEPT !.open = TRUE]
    /\ Step(h, "checkRole")
    /\ UNCHANGED <<ho, loop, cu>>

\* A target that forwards the message it was set up with.
Bug_CheckRole(h) ==
    /\ handler[h].step = "checkRole"
    /\ Step(h, IF ho.role = "TARGET" THEN "openRach" ELSE "respond")
    /\ ForwardToUe("UEContextSetupRequest")
    /\ UNCHANGED <<ho, cuUeId, loop, cu>>

\* StartRachMonitoring refuses unless this DU is the target; the caller
\* carries on either way.
CheckRole(h) ==
    /\ handler[h].step = "checkRole"
    /\ Step(h, IF ho.role = "TARGET" THEN "openRach" ELSE "respond")
    /\ UNCHANGED <<ho, cuUeId, ue, loop, cu>>

OpenRach(h) ==
    /\ handler[h].step = "openRach"
    /\ SetTargetHandoverState("EXECUTION")
    /\ Step(h, "respond")
    /\ UNCHANGED <<cuUeId, ue, loop, cu>>

\* sendUeContextSetupResponse; the SCTP write may fail.
Respond(h) ==
    /\ handler[h].step = "respond"
    /\ \/ cu' = [cu EXCEPT !.outstanding = FALSE, !.admitted = TRUE,
                           !.told = @ \cup {<<"contextSetup", responsePlmn(plmn)>>}]
       \/ UNCHANGED cu
    /\ Finish(h)
    /\ UNCHANGED <<ho, cuUeId, ue, loop>>

HandlerStep(h) ==
    Dispatch(h) \/ Forward(h) \/ Execute(h) \/ Admit(h) \/ CheckRole(h) \/ OpenRach(h) \/ Respond(h)

------------------------------------------------------------------------------
(* HandleRrcFromUE.  A report's neighbours are booleans: whether the A3     *)
(* condition holds for that neighbour.                                      *)

LoopTo(step, todo) == loop' = [loop EXCEPT !.step = step, !.todo = todo]

Reports == UNION {[1 .. n -> BOOLEAN] : n \in 0 .. MaxNeighbours}

ReceiveMeasurementReport ==
    /\ ue.open /\ loop.step = "idle"
    /\ \E neighbours \in Reports : LoopTo("scan", neighbours)
    /\ UNCHANGED <<ho, cuUeId, ue, handler, cu>>

\* A UE completes a handover towards the target only after the CU-CP has
\* the target's answer and has sent the UE its command.
ReceiveReconfigurationComplete ==
    /\ ue.open /\ loop.step = "idle"
    /\ ho.role = "TARGET" => cu.admitted
    /\ LoopTo(IF ho.role = "TARGET" THEN "complete" ELSE "uplink", <<>>)
    /\ UNCHANGED <<ho, cuUeId, ue, handler, cu>>

ReceiveOther ==
    /\ ue.open /\ loop.step = "idle"
    /\ LoopTo("uplink", <<>>)
    /\ UNCHANGED <<ho, cuUeId, ue, handler, cu>>

\* A DU that tests its role instead of its state.
Bug_MayTrigger == ho.role # "TARGET"

\* handleMeasurementReport: the context is read without its mutex.
MayTrigger == ho.state = "IDLE"

Scan ==
    /\ loop.step = "scan"
    /\ IF loop.todo = <<>> THEN LoopTo("uplink", <<>>)
       ELSE IF Head(loop.todo) /\ MayTrigger THEN LoopTo("prepare", Tail(loop.todo))
       ELSE LoopTo("scan", Tail(loop.todo))
    /\ UNCHANGED <<ho, cuUeId, ue, handler, cu>>

Prepare ==
    /\ loop.step = "prepare"
    /\ SetSourceHandoverState("PREPARATION")
    /\ LoopTo("require", loop.todo)
    /\ UNCHANGED <<cuUeId, ue, handler, cu>>

\* A DU that gives up although the requirement may be on its way.
Bug_Require ==
    /\ loop.step = "require"
    /\ \/ cu' = [cu EXCEPT !.required = @ + 1]
       \/ UNCHANGED cu
    /\ \/ LoopTo("scan", loop.todo)
       \/ LoopTo("fail", loop.todo)
    /\ UNCHANGED <<ho, cuUeId, ue, handler>>

\* sendUeContextModificationRequired: sent, not encodable (a warning and
\* success), or not sent (an error).
Require ==
    /\ loop.step = "require"
    /\ \/ cu' = [cu EXCEPT !.required = @ + 1] /\ LoopTo("scan", loop.todo)
       \/ LoopTo("scan", loop.todo) /\ UNCHANGED cu
       \/ LoopTo("fail", loop.todo) /\ UNCHANGED cu
    /\ UNCHANGED <<ho, cuUeId, ue, handler>>

Fail ==
    /\ loop.step = "fail"
    /\ SetSourceHandoverState("FAILED")
    /\ LoopTo("scan", loop.todo)
    /\ UNCHANGED <<cuUeId, ue, handler, cu>>

Complete ==
    /\ loop.step = "complete"
    /\ SetTargetHandoverState("COMPLETED")
    /\ LoopTo("uplink", <<>>)
    /\ UNCHANGED <<cuUeId, ue, handler, cu>>

\* The message goes up as an Initial UL or a UL RRC Message Transfer; the
\* flag is cleared even when the send fails.
Uplink ==
    /\ loop.step = "uplink"
    /\ loop' = [step |-> "idle", todo |-> <<>>, initial |-> FALSE]
    /\ \/ UNCHANGED cu
       \/ /\ loop.initial
          /\ cu' = [cu EXCEPT !.told = @ \cup {<<"initialUL", convertMccMncToPlmn(plmn)>>}]
    /\ UNCHANGED <<ho, cuUeId, ue, handler>>

LoopStep == Scan \/ Prepare \/ Require \/ Fail \/ Complete \/ Uplink

------------------------------------------------------------------------------
Next ==
    /\ UNCHANGED plmn
    /\ \/ \E h \in Handler : HandleMessage(h) \/ HandlerStep(h)
       \/ ReceiveMeasurementReport
       \/ ReceiveReconfigurationComplete
       \/ ReceiveOther
       \/ LoopStep
       \/ UeReceives

Spec ==
    /\ Init
    /\ [][Next]_<<vars, plmn>>
    /\ WF_vars(LoopStep)
    /\ WF_vars(UeReceives)
    /\ \A h \in Handler : SF_vars(HandlerStep(h))

------------------------------------------------------------------------------
(* Properties                                                               *)

\* However many reports and neighbours meet the A3 condition, and whatever
\* the CU-CP does meanwhile, one handover is required, and by a source DU
\* (du_rrc_handler.go:134 tests the state without the lock).
OneTrigger == cu.required <= 1 /\ (cu.required = 1 => ho.role = "SOURCE")

\* A source DU is executing only once the handover command is on its way to
\* the UE (f1ap_handover.go:213-222).
CommandBeforeExecution ==
    ho.role = "SOURCE" /\ ho.state = "EXECUTION" => ue.commands = 1

\* A handover never runs backwards and a DU never changes sides, although
\* handlers test the context in one critical section and set it in another.
Rank(st) == CASE st = "IDLE" -> 0 [] st = "PREPARATION" -> 1 [] st = "EXECUTION" -> 2
              [] st \in {"COMPLETED", "FAILED"} -> 3

NeverBackwards ==
    [][ho.role # "NONE" => ho'.role = ho.role /\ Rank(ho'.state) >= Rank(ho.state)]_vars

\* The protocol that the goroutines and the loop implement together.
HP == INSTANCE HandoverProtocol WITH
          role <- ho.role, state <- ho.state,
          required <- cu.required, commanded <- ue.commands,
          answered <- ho.role = "TARGET" /\ cu.admitted

\* Whatever the goroutines tested under one lock and set under another, all
\* of it is one handover, step by step (du_rrc_handler.go:134-151,
\* f1ap_handover.go:213-222, ue_context_setup.go:72-75, du_rach.go:30-49).
ImplementsProtocol == HP!Spec

\* A handover command from the CU-CP is never lost between the goroutine
\* that received it, the channel and the context: it starts execution, or a
\* goroutine still has it (f1ap_handover.go:206-222).
CommandKept ==
    cu.command =>
        \/ ho = [role |-> "SOURCE", state |-> "EXECUTION"] /\ ue.commands = 1
        \/ \E h \in Handler :
              /\ handler[h].kind = "UEContextModificationConfirm" /\ handler[h].container
              /\ handler[h].step \in {"dispatch", "forward", "execute"}

\* A handover command the CU-CP sends reaches the UE and starts execution.
CommandExecutes == cu.command ~> (ho.state = "EXECUTION" /\ ue.commands = 1)

\* A target DU answers every handover setup, even when the channel that it
\* has created and nobody reads is full (ue_context_setup.go:90).
SetupAnswered ==
    (\E h \in Handler : handler[h].step = "admit") ~>
        \A h \in Handler : handler[h].step \notin {"admit", "checkRole", "openRach", "respond"}

\* Every PLMN identity the CU-CP is told for the cell is encoded as
\* test/message_test.go:63-117 fixes it, which is how responsePlmn does: that
\* of the configured PLMN, and of 999-70 where the F1 setup has a constant
\* (f1ap_client.go:241 and 318, ue_context_setup.go:147).
CellPlmn == [mcc |-> <<9, 9, 9>>, mnc |-> <<7, 0>>]

PlmnAsTested ==
    \A t \in cu.told :
        t[2] = responsePlmn(IF t[1] = "setupCell" THEN CellPlmn ELSE plmn)

\* Only a target DU takes the target's path through a setup request:
\* ue_context_setup.go:24 and du_rach.go:32 say so.
TargetPathInTargetRole ==
    \A h \in Handler : handler[h].step \in {"admit", "openRach"} => ho.role = "TARGET"
==============================================================================
